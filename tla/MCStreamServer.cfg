SPECIFICATION ServerSpec
CONSTANTS
  A = A
  B = B
  a1 = a1
  a2 = a2
  a3 = a3
  b1 = b1
  o1 = o1
  o2 = o2
  NoKey = NoKey
  NilKey = NilKey
  NoSdk = NoSdk
  Ids = {A, B}
  Keys = {a1, a2, a3, b1}
  Owner <- MCOwner
  Profiles <- MCProfiles
  ClientIds = {1, 2, 3, 4, 5, 6}
  StreamIds = {1, 2, 3, 4}
  NoticeCap = 2
  MaxRefreshes = 2
  WithClose = TRUE
INVARIANTS
  TypeOK
  LookupsAreLive
  SettledShowsProfile
  UpdateOnlyRegistered
  StreamsFollowRegistrar
  DroppedStreamsClose
CHECK_DEADLOCK FALSE
