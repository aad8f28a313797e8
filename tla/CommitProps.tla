---------------------------- MODULE CommitProps -----------------------------
(* What the display must keep when it commits pictures of tiles.             *)
EXTENDS TiledCommits

AtReturn == batch # <<>> /\ Head(batch).op = "return"

(* A commit of the tiles that changed looks up the pages of those, and of    *)
(* the tiles its predecessor could not present, and acknowledges what a look *)
(* at every page of the picture would ("answers IDENTICALLY").               *)
DeltaWalkIsExact == (AtReturn /\ callback = "delta") => Presented = FullWalk

(* A tile acknowledged as presented keeps its pages, resident and pinned for *)
(* the bound picture, until another picture is acknowledged or the tile is   *)
(* hidden: through warming, through a delta or an atomic successor that is   *)
(* being uploaded, and when that raises.                                     *)
AcknowledgedStaysOwned ==
  ~AtReturn => \A t \in DOMAIN acked : acked[t] \subseteq Resident \intersect pins["bound"]

(* A command that runs asks for a page that is not there: what was planned   *)
(* before the submission holds while it runs, so that no page is packed,     *)
(* uploaded or reduced twice.                                                *)
NothingIsUploadedTwice == (At("ensure") \/ At("generate")) => Key \notin Resident
=============================================================================
