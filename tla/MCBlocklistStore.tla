-------------------------- MODULE MCBlocklistStore --------------------------
(* Instances of BlocklistStore for TLC: a list of two hashes, and an image   *)
(* whose first two hashes are ascending but are not that list, and whose     *)
(* three hashes are announced although they are not ascending.               *)
EXTENDS BlocklistStore

MCSha256(list) == <<"sha256", list>>

ImageA == <<1, 2, 3>>
ImageU == <<1, 3, 2>>
MCImages == {ImageA, ImageU}

\* The label plays no part in what boots.  The only one here is the empty one,
\* which reads like a label that is not there: this keeps the NVS states few.
Request(img, n) == [cnt |-> n, sha |-> MCSha256(Prefix(img, n)), ver |-> NoVersion]
\* A count whose size in bytes wraps to that of the good list.
Wrapped == [Request(ImageA, 2) EXCEPT !.cnt = SizeMod + 2]
MCRequests == {Request(ImageA, 2), Request(ImageU, 3), Wrapped}
=============================================================================
