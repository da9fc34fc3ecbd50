---------------------------- MODULE IntController ----------------------------
(***************************************************************************)
(* The interrupt controllers of the Pro (src/src/pro_int.c): NCtl chips of *)
(* NLine request lines each, and the single request pir4 (INT_PIR4 of      *)
(* int_req) through which they interrupt the processor.                    *)
(*                                                                         *)
(* An 8 bit register is the set of the lines whose bit is 1.  Line numbers *)
(* are priorities: controller 0 before controller 1, line 0 before line 1. *)
(* Of a mode register only the bits that have an effect are kept.          *)
(***************************************************************************)
EXTENDS Naturals

CONSTANTS NCtl,    \* number of controllers (4 in the program)
          NLine,   \* request lines of a controller (8)
          Vector   \* the trap vectors a guest may store; 0 is the reset value

ASSUME SizeAssumption == NCtl \in Nat \ {0} /\ NLine \in Nat \ {0}
ASSUME VectorAssumption == Vector \subseteq Nat /\ 0 \in Vector

Ctl  == 0 .. NCtl - 1
Line == 0 .. NLine - 1
LowModeFlag == {"IM", "VS"}              \* mode bits m0 to m4 that matter
ModeFlag    == LowModeFlag \cup {"MM"}   \* and m7, the master mask
Preselect   == {"IMR", "ACR", "RESP"}

VARIABLES
  irr,       \* pro_int_irr: requests latched, per controller
  isr,       \* pro_int_isr: requests in service
  imr,       \* pro_int_imr: lines masked
  acr,       \* pro_int_acr: lines that bypass the service register
  mode,      \* pro_int_mode
  presel,    \* pro_int_presel: what a write to the data port stores to
  preselVec, \* pro_int_presel_vec
  vec,       \* pro_int_vec: the response memory
  pir4,      \* int_req & INT_PIR4
  dropped    \* history: int_req was zeroed since pro_int_update last ran

ctlVars == <<irr, isr, imr, acr, mode, presel, preselVec, vec, pir4, dropped>>
guestRegs == <<presel, preselVec, vec>>

TypeOK ==
  /\ irr \in [Ctl -> SUBSET Line]
  /\ isr \in [Ctl -> SUBSET Line]
  /\ imr \in [Ctl -> SUBSET Line]
  /\ acr \in [Ctl -> SUBSET Line]
  /\ mode \in [Ctl -> SUBSET ModeFlag]
  /\ presel \in [Ctl -> Preselect]
  /\ preselVec \in [Ctl -> Line]
  /\ vec \in [Ctl -> [Line -> Vector]]
  /\ pir4 \in BOOLEAN
  /\ dropped \in BOOLEAN

-----------------------------------------------------------------------------
(* pro_int_check and the test that pro_int_update and pro_int_ack share:   *)
(* the requests of c that c may present to the processor.                  *)
Presented(c) ==
  IF "MM" \in mode[c] /\ "IM" \notin mode[c] THEN irr[c] \ imr[c] ELSE {}

Deliverable == {s \in Ctl \X Line : s[2] \in Presented(s[1])}

(* pro_int_update, called last by every operation that touches irr, imr or *)
(* mode.                                                                   *)
Update ==
  /\ pir4' = (Deliverable' # {})
  /\ dropped' = FALSE

(* The state pro_int_reset leaves.                                         *)
Init ==
  /\ irr = [c \in Ctl |-> {}]
  /\ isr = [c \in Ctl |-> {}]
  /\ imr = [c \in Ctl |-> Line]
  /\ acr = [c \in Ctl |-> {}]
  /\ mode = [c \in Ctl |-> {}]
  /\ presel = [c \in Ctl |-> "IMR"]
  /\ preselVec = [c \in Ctl |-> 0]
  /\ vec = [c \in Ctl |-> [l \in Line |-> 0]]
  /\ pir4 = FALSE
  /\ dropped = FALSE

-----------------------------------------------------------------------------
(* A device requests an interrupt: pro_int_set.                            *)
Raise(c, l) ==
  /\ irr' = [irr EXCEPT ![c] = @ \cup {l}]
  /\ UNCHANGED <<isr, imr, acr, mode, guestRegs>>
  /\ Update

(* A guest writes the data port: pro_int_wr, case 00.  What is written is  *)
(* taken as a register, lines, or as a vector, v, as preselected.          *)
WriteData(c, lines, v) ==
  \/ /\ presel[c] = "IMR"
     /\ imr' = [imr EXCEPT ![c] = lines]
     /\ UNCHANGED <<irr, isr, acr, mode, guestRegs>>
     /\ Update
  \/ /\ presel[c] = "ACR"
     /\ acr' = [acr EXCEPT ![c] = lines]
     /\ UNCHANGED <<irr, isr, imr, mode, guestRegs, pir4, dropped>>
  \/ /\ presel[c] = "RESP"
     /\ vec' = [vec EXCEPT ![c][preselVec[c]] = v]
     /\ UNCHANGED <<irr, isr, imr, acr, mode, presel, preselVec, pir4, dropped>>

(* Command 0.                                                              *)
ResetCommand(c) ==
  /\ presel' = [presel EXCEPT ![c] = "IMR"]
  /\ irr' = [irr EXCEPT ![c] = {}]
  /\ isr' = [isr EXCEPT ![c] = {}]
  /\ imr' = [imr EXCEPT ![c] = Line]
  /\ acr' = [acr EXCEPT ![c] = {}]
  /\ mode' = [mode EXCEPT ![c] = {}]
  /\ UNCHANGED <<preselVec, vec>>
  /\ Update

(* Commands 0020 and 0030: clear requests and their masks.                 *)
ClearRequestAndMask(c, lines) ==
  /\ irr' = [irr EXCEPT ![c] = @ \ lines]
  /\ imr' = [imr EXCEPT ![c] = @ \ lines]
  /\ UNCHANGED <<isr, acr, mode, guestRegs>>
  /\ Update

(* Slip: unmasking does not call pro_int_update.                           *)
Unmask_NoUpdate(c, lines) ==
  /\ imr' = [imr EXCEPT ![c] = @ \ lines]
  /\ UNCHANGED <<irr, isr, acr, mode, guestRegs, pir4, dropped>>

(* Commands 0040, 0050, 0060, 0070: clear and set mask bits.               *)
Unmask(c, lines) ==
  /\ imr' = [imr EXCEPT ![c] = @ \ lines]
  /\ UNCHANGED <<irr, isr, acr, mode, guestRegs>>
  /\ Update

Mask(c, lines) ==
  /\ imr' = [imr EXCEPT ![c] = @ \cup lines]
  /\ UNCHANGED <<irr, isr, acr, mode, guestRegs>>
  /\ Update

(* Commands 0100, 0110, 0120, 0130: clear and set request bits.            *)
ClearRequest(c, lines) ==
  /\ irr' = [irr EXCEPT ![c] = @ \ lines]
  /\ UNCHANGED <<isr, imr, acr, mode, guestRegs>>
  /\ Update

SetRequest(c, lines) ==
  /\ irr' = [irr EXCEPT ![c] = @ \cup lines]
  /\ UNCHANGED <<isr, imr, acr, mode, guestRegs>>
  /\ Update

(* Commands 0160 and 0170: clear service bits.                             *)
ClearService(c, lines) ==
  /\ isr' = [isr EXCEPT ![c] = @ \ lines]
  /\ UNCHANGED <<irr, imr, acr, mode, guestRegs, pir4, dropped>>

(* Commands 0200 to 0230: load m0 to m4; m5 to m7 stay.                    *)
LoadMode(c, low) ==
  /\ mode' = [mode EXCEPT ![c] = low \cup (@ \cap {"MM"})]
  /\ UNCHANGED <<irr, isr, imr, acr, guestRegs>>
  /\ Update

(* Commands 0240, 0250: m5 and m6 select what a read returns; m7 is set,   *)
(* cleared or left alone.                                                  *)
ControlMode(c, op) ==
  /\ mode' = [mode EXCEPT ![c] = IF op = "set" THEN @ \cup {"MM"}
                                 ELSE IF op = "clear" THEN @ \ {"MM"} ELSE @]
  /\ UNCHANGED <<irr, isr, imr, acr, guestRegs>>
  /\ Update

(* Commands 0260, 0300, 0340.                                              *)
PreselectPort(c, p, l) ==
  /\ presel' = [presel EXCEPT ![c] = p]
  /\ preselVec' = IF p = "RESP" THEN [preselVec EXCEPT ![c] = l] ELSE preselVec
  /\ UNCHANGED <<irr, isr, imr, acr, mode, vec, pir4, dropped>>

(* One line of a register, or all of them.                                 *)
LineSelection == {{l} : l \in Line} \cup {Line}

Command(c) ==
  \/ ResetCommand(c)
  \/ \E lines \in LineSelection : ClearRequestAndMask(c, lines)
  \/ \E lines \in LineSelection : Unmask(c, lines)
  \/ \E lines \in LineSelection : Mask(c, lines)
  \/ \E lines \in LineSelection : ClearRequest(c, lines)
  \/ \E lines \in LineSelection : SetRequest(c, lines)
  \/ \E lines \in LineSelection : ClearService(c, lines)
  \/ \E low \in SUBSET LowModeFlag : LoadMode(c, low)
  \/ \E op \in {"set", "clear", "keep"} : ControlMode(c, op)
  \/ \E p \in Preselect, l \in Line : PreselectPort(c, p, l)

GuestWrite(c) ==
  \/ Command(c)
  \/ \E lines \in SUBSET Line, v \in Vector : WriteData(c, lines, v)

-----------------------------------------------------------------------------
(* pro_int_ack.  The search loop stops at the first controller, and the    *)
(* first line of it, that has something to present.  It has no answer when *)
(* there is none: cnum is then one past the arrays, and what is read and   *)
(* written is whatever lies there.                                         *)
Before(s, t) == s[1] < t[1] \/ (s[1] = t[1] /\ s[2] <= t[2])

(* Slip: the search goes on to the last line of the first controller.      *)
AckSource_LastLine ==
  IF Deliverable = {} THEN Ctl \X Line
  ELSE {s \in Deliverable : \A t \in Deliverable : s[1] < t[1] \/ (s[1] = t[1] /\ t[2] <= s[2])}

AckSource ==
  IF Deliverable = {} THEN Ctl \X Line
  ELSE {s \in Deliverable : \A t \in Deliverable : Before(s, t)}

AckVector(s) == IF "VS" \in mode[s[1]] THEN vec[s[1]][0] ELSE vec[s[1]][s[2]]

Acknowledge(s) ==
  /\ irr' = [irr EXCEPT ![s[1]] = @ \ {s[2]}]
  /\ isr' = IF s[2] \in acr[s[1]] THEN isr
            ELSE [isr EXCEPT ![s[1]] = @ \cup {s[2]}]
  /\ UNCHANGED <<imr, acr, mode, guestRegs>>
  /\ Update

(* The processor zeroes int_req behind the controllers' back: the RESET    *)
(* instruction, and the rewrite of PIRQ when the simulation (re)starts.    *)
DropLine ==
  /\ pir4' = FALSE
  /\ dropped' = TRUE
  /\ UNCHANGED <<irr, isr, imr, acr, mode, guestRegs>>

(* pro_int_reset: the RESET and RUN commands of the console.  The RESET    *)
(* instruction leaves the devices alone.                                   *)
Reset ==
  /\ irr' = [c \in Ctl |-> {}]
  /\ isr' = [c \in Ctl |-> {}]
  /\ imr' = [c \in Ctl |-> Line]
  /\ acr' = [c \in Ctl |-> {}]
  /\ mode' = [c \in Ctl |-> {}]
  /\ presel' = [c \in Ctl |-> "IMR"]
  /\ preselVec' = [c \in Ctl |-> 0]
  /\ vec' = [c \in Ctl |-> [l \in Line |-> 0]]
  /\ Update

Next ==
  \/ \E c \in Ctl, l \in Line : Raise(c, l)
  \/ \E c \in Ctl : GuestWrite(c)
  \/ pir4 /\ \E s \in AckSource : Acknowledge(s)
  \/ DropLine
  \/ Reset

Spec == Init /\ [][Next]_ctlVars

(* Bound of the run on what it goes on from: one line in service (the next *)
(* to enter service is still checked), only the last line of controller 0  *)
(* may bypass the service register, and vectors are written, to the first  *)
(* line of that controller, while nothing is requested or in service.      *)
FewInService ==
  /\ \A s, t \in Ctl \X Line : s[2] \in isr[s[1]] /\ t[2] \in isr[t[1]] => s = t
  /\ \A c \in Ctl :
       /\ acr[c] \subseteq {NLine - 1} /\ "VS" \notin mode[c] /\ preselVec[c] = 0
       /\ presel[c] = "RESP" => \A d \in Ctl : irr[d] = {} /\ isr[d] = {}
       /\ c # 0 => acr[c] = {} /\ presel[c] = "IMR"

-----------------------------------------------------------------------------
(* When the processor sees the request, some controller has a request to   *)
(* answer with, so the search in pro_int_ack never runs off the end        *)
(* ("XXX handle case where no interrupt is set").                          *)
LineSound == pir4 => Deliverable # {}

(* Only zeroing int_req can leave a presentable request without the line;  *)
(* the next operation on any controller puts the line back.                *)
LineComplete == Deliverable # {} /\ ~dropped => pir4

(* Both directions at once: a request is neither lost nor invented, in     *)
(* whatever order requests, register writes, acknowledges, the RESET       *)
(* instruction and resets come, and every register keeps its type.         *)
LineExact == TypeOK /\ LineSound /\ LineComplete

(* What is answered is what was requested: a line enters service only from *)
(* an unmasked request of a controller that is allowed to interrupt, no    *)
(* request of higher priority is presented at that time, and only that one *)
(* request is consumed.                                                    *)
ServiceFromRequest ==
  [][\A c \in Ctl, l \in Line :
       l \in isr'[c] \ isr[c] =>
         /\ <<c, l>> \in Deliverable
         /\ \A t \in Deliverable : Before(<<c, l>>, t)
         /\ irr' = [irr EXCEPT ![c] = @ \ {l}]]_ctlVars
=============================================================================
