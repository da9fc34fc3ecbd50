----------------------------- MODULE SectorStore -----------------------------
(***************************************************************************)
(* What a disk controller promises to the program that drives it: a store  *)
(* of sectors, in which one request at a time is performed as a whole or,  *)
(* when its address is not on the disk, refused.                           *)
(***************************************************************************)
EXTENDS Naturals

CONSTANTS
  Cyls, Heads, Secs,  \* geometry of the disk
  Bytes, Byte         \* size of a sector, and what it is made of

Sector == [0 .. Bytes - 1 -> Byte]
OnDisk(at) == at.cyl < Cyls /\ at.head < Heads /\ at.sec < Secs
Address == [cyl : 0 .. Cyls - 1, head : 0 .. Heads - 1, sec : 0 .. Secs - 1]

VARIABLES
  store,      \* contents of the sectors
  request,    \* the request under way, or [op |-> "none"]
  performed,  \* it was performed, and the program does not know yet
  answer      \* what the program was told last

storeVars == <<store, request, performed, answer>>

NoRequest == [op |-> "none"]

Refused(r) ==
  \/ r.op \in {"read", "write"} /\ ~OnDisk(r.at)
  \/ r.op = "format" /\ (r.at.cyl >= Cyls \/ r.at.head >= Heads)

StoreInit ==
  /\ store \in [Address -> Sector]
  /\ request = NoRequest /\ performed = FALSE
  /\ answer \in [error : {FALSE}, data : Sector]

(* The program asks.  A request that moves no data is over at once.        *)
Ask ==
  /\ request = NoRequest
  /\ request' # NoRequest
  /\ performed' = (request'.op = "restore" \/ Refused(request'))
  /\ UNCHANGED <<store, answer>>

(* The whole of the request takes place.  A format fills the track with    *)
(* the last byte of the data.                                              *)
Perform ==
  /\ request # NoRequest /\ ~performed
  /\ performed' = TRUE
  /\ CASE request.op = "read" -> UNCHANGED store
       [] request.op = "write" -> store' = [store EXCEPT ![request.at] = request.data]
       [] request.op = "format" ->
            store' = [a \in Address |->
                       IF a.cyl = request.at.cyl /\ a.head = request.at.head
                       THEN [b \in 0 .. Bytes - 1 |-> request.data[Bytes - 1]]
                       ELSE store[a]]
  /\ UNCHANGED <<request, answer>>

Told ==
  /\ performed
  /\ request' = NoRequest /\ performed' = FALSE
  /\ answer' = [error |-> Refused(request),
                data |-> IF request.op = "read" /\ ~Refused(request)
                         THEN store[request.at] ELSE answer.data]
  /\ UNCHANGED store

(* A restart: the program does not learn whether the request took place.   *)
Lost == request' = NoRequest /\ performed' = FALSE /\ UNCHANGED <<store, answer>>

StoreNext == Ask \/ Perform \/ Told \/ Lost

StoreSpec == StoreInit /\ [][StoreNext]_storeVars
=============================================================================
