CONSTANTS
    Texts <- PagesOfPieces
    MaxData = 4
    Durations <- SomeDurations
    Sizes <- SomeSizes
    Files <- OneFile
    FileNames <- SomeFileNames
    HandlerOf <- Aliases
    LowerCase <- LowerWords
    Addresses <- TheAddresses
    Unicast <- TheUnicast
    NoArg = NoArg
    Loadable <- ThatLoads
    LogFiles <- FilesOfLogs
    DefaultTimeOut = 20
    DefaultMaxBodySize = 5
    DefaultOnError <- Sorry
    WrittenPages <- TheWrittenPages
    Caddyfiles <- TheCaddyfiles
    Clients <- TheClients
SPECIFICATION PipelineSpec
CHECK_DEADLOCK FALSE
INVARIANTS TypeOK FoundAreTags FoundAll
           ParsedAsWritten AskedWithLimits KeysAsWritten TagsOfOwnPath ToldAsWritten
