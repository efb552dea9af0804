SPECIFICATION CSpec
CONSTANTS
  p1 = p1
  p2 = p2
  BundleDir <- MCBundleDir
  Procs <- MCProcs
  Manifests <- MCManifests
  Bundles <- WithVolume
  Requests <- MCRequests
  CompositionRequests <- MCCompositionRequests
  Protected = {}
  Foreign <- StaleVolume
PROPERTY
  RollbackSparesEverything
