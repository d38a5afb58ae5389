SPECIFICATION MCSpec
CONSTANTS
  c1 = c1
  c2 = c2
  i1 = i1
  i2 = i2
  machine = machine
  template = template
  pool = pool
  Owners <- MCOwners
  NameOf <- MCNameOf
  NamespaceOf <- MCNamespaceOf
  OwnerKind <- MCOwnerKind
  Ids <- MCIds
  Allowed <- MCAllowed
  TypeOf <- MCTypeOf
  Objects <- MCObjects
  Callers <- MCCallers
  OwnerOf <- MCOwnerOf
  KindOf <- MCKindOf
  SecretOf <- MCSecretOf
  UserIdentities = {"u"}
  MaxEvents = 2
  TagNames = {"x", "y"}
  TagValues = {1, 2}
  ForeignTags = {"z"}
  MaxEdits = 4
PROPERTY BindingsKept
CHECK_DEADLOCK FALSE
