SPECIFICATION MCSpec
CONSTANTS
    PageIDs = {p1}
    TagNames = {t1, t2}
    Editors = {x1, x2}
    Publishers = {y1}
    MaxPosted = 2
    NoPage = NoPage
    AssetIDs = {a1, a2, a3}
    Uploads = {x1, x2}
    Deletions = {y1}
    Paths = {q1, q2, q3}
    FolderPaths = {q1, q2}
    Above <- MCAbove
    NoAsset = NoAsset
    WebsiteIDs = {w1, w2}
    Slugs = {s1, s2}
    Hostnames = {h1}
    DomainIDs = {d1, d2}
    RedirectIDs = {r1, r2, r3}
    Patterns = {m1}
    Destinations = {o1, o2}
    NoDestination = NoDestination
    Staff = {x1, x2}
    NoWebsite = NoWebsite
    NoDomain = NoDomain
    NoSlug = NoSlug
    Letters = {"a", "b"}
    Words <- MCWords
    Variables = {":x", ":y"}
    MaxSegments = 3
    AssetPaths = {"folder", "folder/file"}
    SnippetNames = {n1}
    PageUrls = {u1, u2}
    FolderOf <- MCFolderOf
    Texts = {1, 2}
    MaxListed = 1
    MaxEdits = 3
    NoFile = NoFile
    Folder = Folder
    NoUpload = NoUpload
    x1 = x1
    x2 = x2
    w1 = w1
    w2 = w2
    s2 = s2
    q1 = q1
    q2 = q2
    q3 = q3
    r1 = r1
    r2 = r2
    r3 = r3
INVARIANTS
    SiteTypeOK
    PostsAreSent
    TagsAreAsked
    BlobsFollowRows
    VisitorsArrive
    SiteIsPublished
PROPERTIES
    DueIsPublished
CHECK_DEADLOCK FALSE
