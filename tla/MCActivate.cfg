SPECIFICATION FairSpec
CONSTANTS
  p1 = p1
  p2 = p2
  BundleDir <- MCBundleDir
  Procs <- MCProcs
  Manifests <- MCManifests
  Bundles <- MCBundles
  Requests <- MCRequests
  Protected <- MCProtected
  Foreign <- MCForeign
INVARIANTS
  TypeOK
  OnlyVettedCodeRuns
  BinaryConfined
  RejectedRanNothing
  SecretsOnlyForVetted
PROPERTIES
  NoContainerTakeover
  EveryCallReports
