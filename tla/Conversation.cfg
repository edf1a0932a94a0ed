\* Two answers, of up to two calls each.
CONSTANTS
  hello = hello  picture = picture  sure = sure  word = word
  thought = thought  rules = rules  printed = printed
  json = json  exact = exact  rounded = rounded  broken = broken  absent = absent
  Empty = Empty
  ErrorMark = ErrorMark
  Footer = Footer
  Null = Null
  Reparsed <- MCReparsed
  Pieces <- MCPieces
  Pictures <- MCPictures
  Contents <- MCContents
  Prefills <- MCPrefills
  Instructions <- MCInstructions
  Outcomes <- MCOutcomes
  Offers <- MCOffers
  Names <- MCNames
  Arguments <- MCArguments
  Answers = {word}
  Responses <- MCResponses
  SourceLists <- MCSourceLists
  MaxTurns = 2
SPECIFICATION Spec
INVARIANTS
  TypeOK
  ToolResultsFollowCalls
  NothingLost
  WordsKeepTheirSpeaker
  WhatWasSaidComesBack
  CallsHaveTools
