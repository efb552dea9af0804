SPECIFICATION CSpec
CONSTANTS
  p1 = p1
  p2 = p2
  BundleDir <- MCBundleDir
  Procs <- MCProcs
  Manifests <- MCManifests
  Bundles <- ContainerOnly
  Requests <- MCRequests
  CompositionRequests <- MCCompositionRequests
  Protected = {}
  Foreign <- NoForeign
INVARIANT
  NoPartialInstallation
