CONSTANTS
  Catalogs <- Schemas
  Demo <- DemoSchema
  Needles <- TypedNeedles
  Bookmarks <- SavedBookmarks
SPECIFICATION Spec
INVARIANTS
  TypeOK
  CursorOnSelection
  ListsDescribeSelection
  PagesFollowSelection
