\* Sizes in chunks: 2 to a member, 3 to an archive, 2 members; 3 files to a walk, 2 chunks to
\* a file, 3 to a walk, 1 directory deep; 2 lines of
\* history, of 2 commits and 12 columns.  Then 2 requests, 2 prices and 2 versions.
CONSTANTS
  None = None  Null = Null
  app = app  lock = lock  manifest = manifest  vendor = vendor  dist = dist  deep = deep
  Path = {app, lock, manifest, vendor, dist, deep}
  Lockfile = {lock}  Manifest = {manifest, lock}  Vendored = {vendor}  Built = {dist}
  Depth <- MCDepth
  Rules <- MCRules
  Upload <- MCUpload
  MaxMembers = 2  MaxMember = 2  MaxUnpacked = 3
  MaxFiles = 3  MaxFile = 2  MaxBytes = 3  MaxDepth = 1
  MaxHistory = 2  MaxCommits = 2  MaxLine = 12
  w1 = w1  w2 = w2  p1 = p1  p2 = p2
  Worker = {w1, w2}  Price = {p1, p2}
  MaxVersions = 2
SPECIFICATION MCSpec
SYMMETRY Symmetry
INVARIANT PassedIsRead
INVARIANT DiskBounded
INVARIANT ReportedOnce
INVARIANT ToldWhatWasTrue
INVARIANT SentIsCurrent
INVARIANT AnnouncedIsThere
CHECK_DEADLOCK FALSE
