----------------------------- MODULE EmailTopic -----------------------------
(***************************************************************************)
(* The node email_topic, which makes a mail of a message on /email.  The   *)
(* contents of the message and then its attachments are added one by one;  *)
(* the files they name come and go meanwhile, also between the test        *)
(* whether one exists and its opening.  An exception ends the callback,    *)
(* and nothing is sent.                                                    *)
(*                                                                         *)
(* An item is a content, shown as it is, an image of a file, of a type     *)
(* that is not known, or an attachment, whose name may be empty.           *)
(***************************************************************************)
EXTENDS Naturals, FiniteSets, SequencesExt

CONSTANTS Files, NoFile, MaxItems

VARIABLES
  emailInfo,  (* email_info: the receiver is there                         *)
  files,      (* the files that exist                                      *)
  message,    (* the items of the message                                  *)
  receiver,   (* its receiver_address is not empty                         *)
  left,       (* the items to add                                          *)
  parts,      (* the items added                                           *)
  emailPc

emailVars == <<emailInfo, files, message, receiver, left, parts, emailPc>>

Item(kinds, names) == [kind : kinds, file : names]
Contents == Item({"shown", "unknown"}, {NoFile}) \cup Item({"image"}, Files)
Attachments == Item({"attachment"}, Files \cup {NoFile})
Messages == {b \o a : b \in BoundedSeq(Contents, MaxItems), a \in BoundedSeq(Attachments, MaxItems)}

Init ==
  /\ emailInfo = FALSE /\ files = {} /\ message = <<>> /\ receiver = FALSE
  /\ left = <<>> /\ parts = <<>> /\ emailPc = "off"

EmailGoto(l) == emailPc' = l
Launch ==
  /\ emailPc = "off" /\ EmailGoto("idle") /\ emailInfo' \in BOOLEAN
  /\ UNCHANGED <<files, message, receiver, left, parts>>
FilesChange ==
  /\ emailPc # "off" /\ files' \in SUBSET Files
  /\ UNCHANGED <<emailInfo, message, receiver, left, parts, emailPc>>

(* _cb: without any receiver the call of _send_mail is a TypeError. *)
Receive ==
  /\ emailPc \in {"idle", "sent"} /\ message' \in Messages /\ receiver' \in BOOLEAN
  /\ left' = message' /\ parts' = <<>>
  /\ EmailGoto(IF receiver' \/ emailInfo THEN "add" ELSE "idle")
  /\ UNCHANGED <<emailInfo, files>>

(* _send_mail *)
Skipped(i) == i.kind = "unknown" \/ (i.kind = "attachment" /\ i.file = NoFile)
Skip == left' = Tail(left) /\ UNCHANGED <<parts, emailPc>>
Add(i) == left' = Tail(left) /\ parts' = Append(parts, i)
GiveUp == EmailGoto("idle") /\ UNCHANGED <<left, parts>>
FileMissingSkips(i) == Skip
FileMissing(i) == IF i.kind = "attachment" THEN GiveUp ELSE Skip
NamesFile(i) == ~Skipped(i) /\ i.kind # "shown"
AddItem ==
  /\ emailPc = "add" /\ left # <<>>
  /\ LET i == Head(left)
     IN \/ Skipped(i) /\ Skip
        \/ i.kind = "shown" /\ Add(i) /\ UNCHANGED emailPc
        \/ NamesFile(i) /\ i.file \in files /\ EmailGoto("open") /\ UNCHANGED <<left, parts>>
        \/ NamesFile(i) /\ i.file \notin files /\ FileMissing(i)
  /\ UNCHANGED <<emailInfo, files, message, receiver>>
OpenFile ==
  /\ emailPc = "open"
  /\ IF Head(left).file \in files THEN Add(Head(left)) /\ EmailGoto("add") ELSE GiveUp
  /\ UNCHANGED <<emailInfo, files, message, receiver>>

(* The server may refuse, and sending may fail. *)
Send ==
  /\ emailPc = "add" /\ left = <<>> /\ emailPc' \in {"sent", "idle"}
  /\ UNCHANGED <<emailInfo, files, message, receiver, left, parts>>

Next == Launch \/ FilesChange \/ Receive \/ AddItem \/ OpenFile \/ Send
Spec == Init /\ [][Next]_emailVars

-----------------------------------------------------------------------------
(* parts are the items of the message at these positions, in their order. *)
PartsAreAt(positions) ==
  /\ Len(parts) = Cardinality(positions)
  /\ \A i \in positions : parts[Cardinality({j \in positions : j <= i})] = message[i]

(* A mail that is sent has a receiver, everything the message shows and    *)
(* all the files it names to attach, in their order, whichever of them     *)
(* came or went while it was made; only images may be left out.            *)
MailIsWhole ==
  emailPc = "sent" =>
    /\ receiver \/ emailInfo
    /\ \E positions \in SUBSET DOMAIN message :
         /\ PartsAreAt(positions)
         /\ \A i \in DOMAIN message :
              message[i].kind # "image" => (i \in positions <=> ~Skipped(message[i]))
=============================================================================
