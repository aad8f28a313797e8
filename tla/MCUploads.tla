------------------------------ MODULE MCUploads ------------------------------
(* A mailbox for TLC that holds a large buffer, or two small ones.           *)
EXTENDS UploadsProps, TLC

ThreeTasks == 1..3
\* One identity twice, another that only fits without it, one that never fits.
SomeKeys == 1 :> {"a"} @@ 2 :> {"a", "b"} @@ 3 :> {"b", "c"}
Sizes == "a" :> 2 @@ "b" :> 2 @@ "c" :> 4
=============================================================================
