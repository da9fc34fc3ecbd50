----------------------------- MODULE MediaStore ------------------------------
(***************************************************************************)
(* What the floppy controller promises to the program that drives it: the  *)
(* images are stores of whole sectors, one of which may be in each drive,  *)
(* and a request takes place at once on the image that is in the drive at  *)
(* that time, or not at all and with the reason.                           *)
(***************************************************************************)
EXTENDS Naturals

CONSTANTS
  Drive, Exist,      \* drives a request may name, and those there are
  Image, Protected,  \* images of the right size, and those not writable
  Tracks, Spt,       \* tracks, and sectors of a track, counted from 1
  Sector             \* contents of a sector

VARIABLES
  content,  \* of each image: its sectors, track after track
  inDrive,  \* the image in each drive, or NoImage
  request,  \* the request under way, or Nothing
  outcome   \* what came of it, or Nothing while it has not taken place

mediaVars == <<content, inDrive, request, outcome>>

Nothing == [op |-> "none"]
NoImage == "none"
Place == 0 .. Tracks * Spt - 1

Refusal(r) ==
  IF r.drive \notin Exist \/ inDrive[r.drive] = NoImage THEN "unavailable"
  ELSE IF r.op = "write" /\ inDrive[r.drive] \in Protected THEN "protected"
  ELSE IF r.track >= Tracks THEN "track"
  ELSE IF r.sector \notin 1 .. Spt THEN "sector"
  ELSE "none"

MediaInit ==
  /\ content \in [Image -> [Place -> Sector]]
  /\ inDrive \in [Drive -> Image \cup {NoImage}]
  /\ request = Nothing /\ outcome = Nothing

Ask ==
  /\ request = Nothing
  /\ request' # Nothing
  /\ UNCHANGED <<content, inDrive, outcome>>

Perform ==
  /\ request # Nothing /\ outcome = Nothing
  /\ LET why == Refusal(request)
         at == request.track * Spt + request.sector - 1
         image == inDrive[request.drive]
     IN  IF why # "none"
         THEN outcome' = [error |-> why] /\ UNCHANGED content
         ELSE IF request.op = "read"
         THEN outcome' = [error |-> why, data |-> content[image][at]] /\ UNCHANGED content
         ELSE /\ outcome' = [error |-> why]
              /\ content' = [content EXCEPT ![image][at] = request.data]
  /\ UNCHANGED <<inDrive, request>>

(* The program is told the outcome, with the data it has received.         *)
Told ==
  /\ outcome # Nothing
  /\ request' = Nothing /\ outcome' = Nothing
  /\ UNCHANGED <<content, inDrive>>

(* An image is taken out of a drive, or put in one that is empty.          *)
ChangeMedia ==
  \E d \in Drive :
    /\ \/ inDrive' = [inDrive EXCEPT ![d] = NoImage]
       \/ /\ inDrive[d] = NoImage
          /\ \E i \in Image : inDrive' = [inDrive EXCEPT ![d] = i]
    /\ UNCHANGED <<content, request, outcome>>

(* A restart loses the request and may find other images in the drives.    *)
Restart ==
  /\ inDrive' \in [Drive -> Image \cup {NoImage}]
  /\ request' = Nothing /\ outcome' = Nothing
  /\ UNCHANGED content

MediaNext == Ask \/ Perform \/ Told \/ ChangeMedia \/ Restart

MediaSpec == MediaInit /\ [][MediaNext]_mediaVars
=============================================================================
