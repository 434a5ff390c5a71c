SPECIFICATION Spec
CONSTANTS
  Components <- AllUrls
  Texts <- OtherTexts
  Types <- SomeTypes
  Uris <- SomeUris
  Keys <- SomeKeys
  Meanings <- SomeMeanings
  Secrets <- SomeSecrets
  Bodies <- SomeBodies
  Statuses <- SomeStatuses
  MaxSettings = 3
INVARIANTS
  UrlRead
  RequestArrives
  ResponseArrives
