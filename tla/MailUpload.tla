------------------------------- MODULE MailUpload -------------------------------
(***************************************************************************)
(* MailCodeUtil::SMTPClient::send (src/src/utils/MailCodeUtil.cpp): a list *)
(* of recipients, and a payload that curl fetches piece by piece through   *)
(* readCallback.                                                           *)
(*                                                                         *)
(* A payload is its length, its bytes are their positions.  External:      *)
(* curl.  It asks the server to take each recipient, reads the payload     *)
(* through a buffer of a size of its choice, and fails at any moment, also *)
(* after the server took the mail.  Without recipients it sends a command  *)
(* instead of a mail.  The handles, which the deleters never free, and the *)
(* options are left out.                                                   *)
(***************************************************************************)
EXTENDS Naturals, Sequences, FiniteSets

CONSTANTS Addresses,
          Lengths,    \* of payloads
          MaxBuffer,  \* of what curl asks readCallback for at once
          MaxSends    \* bound on the calls of send

VARIABLES
    step,      \* where send is: "idle", "recipients", "upload" or "response"
    to,        \* message.to_addrs
    refused,   \* the recipients not taken by the server yet
    length,    \* UploadContext
    offset,
    uploaded,  \* the bytes the server got
    taken,     \* the mails the server took during this send
    answer,    \* what send returned
    sends

vars == <<step, to, refused, length, offset, uploaded, taken, answer, sends>>

Init ==
    /\ step = "idle" /\ to = {} /\ refused = {} /\ length = 0 /\ offset = 0
    /\ uploaded = <<>> /\ taken = <<>> /\ answer = FALSE /\ sends = 0

\* send, up to curl_easy_perform; curl_easy_init may fail.
Send ==
    \E addresses \in SUBSET Addresses, n \in Lengths :
        /\ step = "idle" /\ sends < MaxSends /\ sends' = sends + 1
        /\ step' \in {"idle", "recipients"}
        /\ to' = addresses /\ refused' = addresses
        /\ length' = n /\ offset' = 0
        /\ uploaded' = <<>> /\ taken' = <<>> /\ answer' = FALSE

\* RCPT TO of one of the recipients.
Recipient ==
    /\ step = "recipients"
    /\ \E a \in refused : refused' = refused \ {a}
    /\ UNCHANGED <<step, to, length, offset, uploaded, taken, answer, sends>>

Data ==
    /\ step = "recipients" /\ to # {} /\ refused = {}
    /\ step' = "upload"
    /\ UNCHANGED <<to, refused, length, offset, uploaded, taken, answer, sends>>

Smaller(a, b) == IF a < b THEN a ELSE b

\* Mutant: the copy starts at the beginning of the payload.
Piece_First(count) == [i \in 1..count |-> i]

\* What readCallback copies.
Piece(count) == [i \in 1..count |-> offset + i]

readCallback ==
    \E max \in 1..MaxBuffer :
        LET count == Smaller(max, length - offset)
        IN /\ step = "upload" /\ offset < length
           /\ uploaded' = uploaded \o Piece(count)
           /\ offset' = offset + count
           /\ UNCHANGED <<step, to, refused, length, taken, answer, sends>>

\* readCallback returns 0: curl ends the mail, and the server takes it.
EndOfData ==
    /\ step = "upload" /\ offset >= length
    /\ taken' = Append(taken, [to |-> to, bytes |-> uploaded])
    /\ step' = "response"
    /\ UNCHANGED <<to, refused, length, offset, uploaded, answer, sends>>

\* curl_easy_perform returns CURLE_OK.
Success ==
    /\ step = "response" \/ (step = "recipients" /\ to = {})
    /\ answer' = TRUE /\ step' = "idle"
    /\ UNCHANGED <<to, refused, length, offset, uploaded, taken, sends>>

\* It returns an error: a refused recipient, a connection that broke, a time-out.
Failure ==
    /\ step # "idle"
    /\ answer' = FALSE /\ step' = "idle"
    /\ UNCHANGED <<to, refused, length, offset, uploaded, taken, sends>>

Next == Send \/ Recipient \/ Data \/ readCallback \/ EndOfData \/ Success \/ Failure

Spec == Init /\ [][Next]_vars

-----------------------------------------------------------------------------
TypeOK ==
    /\ step \in {"idle", "recipients", "upload", "response"}
    /\ refused \subseteq to /\ to \subseteq Addresses
    /\ length \in Lengths \cup {0} /\ offset <= length
    /\ answer \in BOOLEAN /\ sends <= MaxSends

\* A send that returns true gave the server one mail, with the whole payload in its order,
\* whatever pieces curl asked for, for every recipient of a message that has one.  A send that
\* returns false gave it one mail at most.
MailedOnce ==
    /\ Len(taken) <= 1
    /\ answer /\ to # {} => taken = <<[to |-> to, bytes |-> [i \in 1..length |-> i]]>>
=============================================================================
