SPECIFICATION Spec
CONSTANTS
  Exporters = {e1, e2}
  Catalogs <- MCCatalogs
  Kinds = {"h5", "netcdf", "zarr"}
CHECK_DEADLOCK FALSE
INVARIANTS ConflictsAreReal
PROPERTIES ReturnsWhole OldFileKept
