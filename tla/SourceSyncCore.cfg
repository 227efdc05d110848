\* Two items in two containers and three files of Google, of which one is deleted or
\* refused; one run at a time.
SPECIFICATION MCSpec
CONSTANTS
  i1 = i1
  i2 = i2
  c1 = c1
  c2 = c2
  Items = {i1, i2}
  Containers = {c1, c2}
  Home <- TwoItems
  Runs = {r1}
  MaxTime = 3
  Files = {1, 2, 3}
  Fetchers = {r1}
  Cap = 1
INVARIANTS OnlyOverlookedAreLost ZendeskLosesNothing FeedPassesNothing
PROPERTY ArrivalsAreStored
CHECK_DEADLOCK FALSE
