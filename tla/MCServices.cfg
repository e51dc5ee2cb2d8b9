SPECIFICATION Spec
CONSTANTS
  Home = {jre8, jre17}
  Content <- MCContent
  Required <- MCRequired
  NoHome = NoHome
  MaxBuild = 2
  MaxCalls = 3
  MaxKills = 1
  Archive <- MCArchive
  GameVersions <- MCVersions
  Kinds = {"mods", "packs"}
  MaxSteps = 5
  Worker = {w1, w2}
  Cap <- MCCap
  Request = {8, 20, 40}
  MaxIdle = 1
  Foreign <- MCForeign
  Pathlike = {"", "../sdl"}
  Abi = {"arm64", "x86"}
  Asked = {"opengles2_ng", "sdl"}
  Mutable = {"ng_gl4es", "glapi", "sdl"}
  MaxTrust = 1
  Mirrors <- MCMirrors
  MojangHost = {"mojang"}
  Host = {"mojang", "maven", "other"}
  Protected <- MCProtected
  StaticMap <- MCStatic
  DohServers <- MCServers
  Body <- MCBody
  Latency = {1, 2}
  GetRetries = 1
  User = {u1, u2}
  MaxUses = 2
INVARIANTS InstalledIsWhole PoolIsSound
PROPERTIES FolderIsSound SafeResolves NothingPassedOver
