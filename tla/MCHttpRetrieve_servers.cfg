\* Three servers that send on, and one for every url of up to five characters; each
\* step of a connection fails anywhere.  In the build without Beast.
SPECIFICATION FairSpec
CONSTANTS
  Sources <- AllUrls
  Answers <- AllAnswers
  Beast = FALSE
INVARIANTS
  ArtefactIsAnswer
  UrlSplit
PROPERTIES
  DownloadEnds
