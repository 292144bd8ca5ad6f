SPECIFICATION Spec
CHECK_DEADLOCK FALSE
CONSTANTS
    Lex <- MCLex
    BaseName <- MCBaseName
    Abbreviates <- MCAbbreviates
    Literal <- MCLiteral
    PathText <- MCPathText
    GlobMatch <- MCGlobMatch
    Files <- MCFiles
    LinkTo <- MCLinkTo
    Repo <- MCRepo
    SessionCwd <- MCRepo
    Home <- MCHome
    Temp <- MCTemp
    SafeRoots <- MCSafeRoots
    PermittedRoots <- MCPermittedRoots
    Claude = TRUE
    LooksLikePath <- MCLooksLikePath
    BaseOf <- MCBaseOf
    Join <- MCJoin
    RemoteTarget <- MCRemoteTarget
    Numeric <- MCNumeric
    FileTypes <- MCFileTypes
    HoldsBraces <- MCHoldsBraces
    WordOf <- MCWordOf
    PsWord <- MCPsWord
    PsBegins <- MCPsBegins
    SlashSwitch <- MCSlashSwitch
    Wild <- MCWild
    DirOf <- MCDirOf
    EnvOnly <- MCEnvOnly
    Device <- MCDevice
    Older <- MCOlder
    Mentions <- MCMentions
    RefSpec <- MCRefSpec
    GitFile <- MCGitFile
    TextShaped <- MCTextShaped
    VisiblePaths <- MCVisiblePaths
    OperatorPath <- MCOperatorPath
    InstalledBinary <- MCInstalledBinary
    Expansions <- MCExpansions
    HostOf <- MCHostOf
    Fields <- MCFields
    Listed <- MCListed
    Setting <- MCSetting
    RemotePart <- MCRemotePart
    HostGlob <- MCHostGlob
    EgressAllowlist <- MCEgressAllowlist
    NameOf <- MCNameOf
    Begins <- MCBegins
    Holds <- MCHolds
    GhPath <- MCGhPath
    RemoteModule <- MCRemoteModule
    PackageBase <- MCPackageBase
    LocalPackage <- MCLocalPackage
    LocalContext <- MCLocalContext
    VariablesIn <- MCVariablesIn
    EnvDrive <- MCEnvDrive
    Calls <- MCCalls
    Script <- MCScript
    Joined <- MCJoined
    FetchURL <- MCFetchURL
    OverlayRules <- MCOverlayRules
    PatternMatch <- MCPatternMatch
    Grounds <- MCGrounds
    Protected <- MCProtected
    SecretDirs <- MCSecretDirs
    Secrets <- MCSecrets
INVARIANTS EveryProgramJudged    
