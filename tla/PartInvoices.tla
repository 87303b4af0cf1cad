---------------------------- MODULE PartInvoices ----------------------------
(***************************************************************************)
(* The part inventory: rows of part_inventory with their invoices, their   *)
(* history, and the invoice files in the bucket.  A call changes a row in  *)
(* one transaction and puts the change on record in a second one; files    *)
(* are stored before the row that names them is committed, and the bucket  *)
(* takes part in no transaction.                                           *)
(***************************************************************************)
EXTENDS Integers, Sequences, FiniteSets

CONSTANTS
  Calls,       \* HTTP calls in progress at the same time
  Parts,       \* bound: ids of part_inventory
  Invoices,    \* bound: ids of invoices
  Statuses,    \* PartInventoryStatus
  Initial,     \* PENDING_TO_ORDER
  None,
  MaxSeconds,  \* bound: seconds that pass
  MaxCalls,    \* bound: calls in all
  MaxCrashes   \* bound: calls that die, or whose request to the bucket fails

ASSUME PartInvoicesAssumption ==
  /\ Initial \in Statuses /\ None \notin Parts \cup Invoices \cup Statuses
  /\ MaxSeconds \in Nat /\ MaxCalls \in Nat /\ MaxCrashes \in Nat

VARIABLES
  status,      \* part_status of each part, None without a row
  invoices,    \* rows of invoices: the part and the url, None without a row
  history,     \* rows of history: <<action, invoice>>, and status changes in order
  bucket,      \* objects: the invoice an object was stored for, by key
  call,        \* what each call is doing
  used,        \* ids the sequences of both tables have given out
  now,         \* the clock, in seconds
  collided,    \* invoices whose key was taken by a later upload in the same second
  overlapped,  \* parts with two changes of status at the same time
  calls, crashes

vars == <<status, invoices, history, bucket, call, used, now, collided,
          overlapped, calls, crashes>>
rows == <<status, invoices, history>>
bounds == <<used, now, calls, crashes>>

-----------------------------------------------------------------------------
(* The key of a file holds the part, the file's name and the user, of which *)
(* only the part is kept here, and the second.  An updated invoice is given *)
(* a key of another form, and its file goes to one key that never changes.  *)

Key(form, p, second) == <<form, p, second>>
ConstantKey == Key("my-inventory-bucket", None, 0)

\* Of an uploaded file the url starts with the endpoint of the storage, of an
\* updated one with a fixed host.
Url(host, key) == [host |-> host, key |-> key]

\* Mutant: the endpoint is cut off, so the object of the row is removed.
KeyOfRow(url) == url.key

\* delete_invoice and update_invoice cut the fixed host off the url; one that
\* starts with the endpoint stays whole.
KeyInUrl(url) == IF url.host = "amazon" THEN url.key
                 ELSE Key("url", url.key[2], url.key[3])

Keys == {ConstantKey} \cup
        {Key(form, p, s) : form \in {"upload", "update", "url"}, p \in Parts,
                           s \in 0 .. MaxSeconds}

\* A row of invoices, which None is not.
InvoiceRow == [part : Parts, url : [host : {"storage", "amazon"}, key : Keys]]

ASSUME NoneIsNoRow == None \notin InvoiceRow

Idle == [pc |-> "idle", part |-> None, invoice |-> None, url |-> None,
         from |-> None, to |-> None]

Stored(i) == invoices[i] # None

TypeOK ==
  /\ status \in [Parts -> Statuses \cup {None}]
  /\ invoices \in [Invoices -> InvoiceRow \cup {None}]
  /\ \A i \in Invoices : Stored(i) => status[invoices[i].part] # None
  /\ \A p \in Parts : /\ history[p].status \in Seq(Statuses \X Statuses)
                      /\ status[p] = None => history[p].rows = {}
  /\ \A k \in DOMAIN bucket : k \in Keys /\ bucket[k] \in Invoices
  /\ \A c \in Calls : call[c].pc \in {"idle", "put", "replaced", "removing", "changing",
       "dropping", "record uploaded", "record updated", "removed", "record status",
       "record edit", "status"}
  /\ used \subseteq Parts \cup Invoices /\ now \in 0 .. MaxSeconds
  /\ calls \in 0 .. MaxCalls /\ crashes \in 0 .. MaxCrashes

NoHistory == [rows |-> {}, status |-> <<>>]

Init ==
  /\ status = [p \in Parts |-> None]
  /\ invoices = [i \in Invoices |-> None]
  /\ history = [p \in Parts |-> NoHistory]
  /\ bucket = [k \in {} |-> None]
  /\ call = [c \in Calls |-> Idle]
  /\ used = {} /\ now = 0 /\ collided = {} /\ overlapped = {}
  /\ calls = 0 /\ crashes = 0

Enter(c, new) ==
  /\ call[c].pc = "idle" /\ calls < MaxCalls
  /\ calls' = calls + 1
  /\ call' = [call EXCEPT ![c] = new]

Become(c, new) == call' = [call EXCEPT ![c] = new]

Put(key, i) == bucket' = [k \in DOMAIN bucket \cup {key} |->
                            IF k = key THEN i ELSE bucket[k]]

Record(p, row) == history' = [history EXCEPT ![p].rows = @ \cup {row}]

-----------------------------------------------------------------------------
(* Parts.                                                                   *)

CreatePart(c) == \E p \in Parts \ used :
  /\ Enter(c, [Idle EXCEPT !.pc = "record edit", !.part = p])
  /\ used' = used \cup {p}
  /\ status' = [status EXCEPT ![p] = Initial]
  /\ UNCHANGED <<invoices, history, bucket, now, collided, overlapped, crashes>>

\* update_part_inventory: price, supplier and the like, which nothing here reads.
UpdatePart(c) == \E p \in Parts :
  /\ status[p] # None
  /\ Enter(c, [Idle EXCEPT !.pc = "record edit", !.part = p])
  /\ UNCHANGED <<rows, bucket, used, now, collided, overlapped, crashes>>

ReadStatus(c) == \E p \in Parts, s \in Statuses :
  /\ status[p] # None
  /\ Enter(c, [Idle EXCEPT !.pc = "status", !.part = p, !.from = status[p], !.to = s])
  /\ overlapped' = IF \E d \in Calls : call[d].part = p /\ call[d].to # None
                   THEN overlapped \cup {p} ELSE overlapped
  /\ UNCHANGED <<rows, bucket, used, now, collided, crashes>>

\* The UPDATE names the column only when the status differs from what was read.
CommitStatus(c) ==
  LET k == call[c]
  IN /\ k.pc = "status" /\ status[k.part] # None
     /\ status' = IF k.from = k.to THEN status ELSE [status EXCEPT ![k.part] = k.to]
     /\ Become(c, [k EXCEPT !.pc = "record status"])
     /\ UNCHANGED <<invoices, history, bucket, collided, overlapped, bounds>>

\* Mutant: the previous status is taken from the row after the commit.
StatusRow(k) == <<status[k.part], k.to>>

PreviousAndNew(k) == <<k.from, k.to>>

RecordStatus(c) ==
  LET k == call[c]
  IN /\ k.pc = "record status" /\ status[k.part] # None
     /\ history' = [history EXCEPT ![k.part].status = Append(@, PreviousAndNew(k))]
     /\ Become(c, Idle)
     /\ UNCHANGED <<status, invoices, bucket, collided, overlapped, bounds>>

RecordEdit(c) ==
  /\ call[c].pc = "record edit" /\ status[call[c].part] # None
  /\ Record(call[c].part, <<"edited", None>>)
  /\ Become(c, Idle)
  /\ UNCHANGED <<status, invoices, bucket, collided, overlapped, bounds>>

\* delete_part_inventory: the record of it is committed, then the row goes and
\* takes its invoices and its history along; the files stay.
RecordPartDeletion(c) == \E p \in Parts :
  /\ status[p] # None
  /\ Enter(c, [Idle EXCEPT !.pc = "dropping", !.part = p])
  /\ Record(p, <<"part deleted", None>>)
  /\ UNCHANGED <<status, invoices, bucket, used, now, collided, overlapped, crashes>>

\* Mutant: the invoices of a deleted part stay.
InvoicesKept(p) == invoices

InvoicesWithout(p) == [i \in Invoices |-> IF Stored(i) /\ invoices[i].part = p
                                         THEN None ELSE invoices[i]]

DeletePart(c) ==
  LET p == call[c].part
  IN /\ call[c].pc = "dropping"
     /\ status' = [status EXCEPT ![p] = None]
     /\ invoices' = InvoicesWithout(p)
     /\ history' = [history EXCEPT ![p] = NoHistory]
     /\ Become(c, Idle)
     /\ UNCHANGED <<bucket, collided, overlapped, bounds>>

-----------------------------------------------------------------------------
(* Invoices.                                                                *)

\* upload_invoice: the part is looked up, and the file stored.
UploadFile(c) == \E p \in Parts, i \in Invoices \ used :
  LET key == Key("upload", p, now)
  IN /\ status[p] # None
     /\ Enter(c, [Idle EXCEPT !.pc = "put", !.part = p, !.invoice = i,
                              !.url = Url("storage", key)])
     /\ used' = used \cup {i}
     /\ collided' = IF key \in DOMAIN bucket THEN collided \cup {bucket[key]}
                                             ELSE collided
     /\ Put(key, i)
     /\ UNCHANGED <<rows, now, overlapped, crashes>>

\* The foreign key refuses the row of a part deleted meanwhile (Refused).
CommitInvoice(c) ==
  LET k == call[c]
  IN /\ k.pc = "put" /\ status[k.part] # None
     /\ invoices' = [invoices EXCEPT ![k.invoice] = [part |-> k.part, url |-> k.url]]
     /\ Become(c, [k EXCEPT !.pc = "record uploaded"])
     /\ UNCHANGED <<status, history, bucket, collided, overlapped, bounds>>

\* update_invoice: the file goes to the constant key, the url names another one,
\* and the object the old url seems to name is deleted.
ReplaceFile(c) == \E i \in Invoices :
  /\ Stored(i)
  /\ LET inv == invoices[i]
     IN /\ Enter(c, [Idle EXCEPT !.pc = "replaced", !.part = inv.part, !.invoice = i,
                                 !.url = Url("amazon", Key("update", inv.part, now))])
        /\ bucket' = [k \in (DOMAIN bucket \cup {ConstantKey}) \ {KeyInUrl(inv.url)} |->
                        IF k = ConstantKey THEN i ELSE bucket[k]]
  /\ UNCHANGED <<rows, used, now, collided, overlapped, crashes>>

CommitUrl(c) ==
  LET k == call[c]
  IN /\ k.pc = "replaced" /\ Stored(k.invoice)
     /\ invoices' = [invoices EXCEPT ![k.invoice].url = k.url]
     /\ Become(c, [k EXCEPT !.pc = "record updated"])
     /\ UNCHANGED <<status, history, bucket, collided, overlapped, bounds>>

\* delete_invoice: the object first, then the record, then the row.
RemoveFile(c) == \E i \in Invoices :
  /\ Stored(i)
  /\ Enter(c, [Idle EXCEPT !.pc = "removing", !.part = invoices[i].part, !.invoice = i])
  /\ bucket' = [k \in DOMAIN bucket \ {KeyInUrl(invoices[i].url)} |-> bucket[k]]
  /\ UNCHANGED <<rows, used, now, collided, overlapped, crashes>>

\* Mutant: the record waits for the commit of the deletion, and is forgotten.
RemoveUnrecorded(c) ==
  /\ call[c].pc = "removing" /\ status[call[c].part] # None
  /\ Become(c, [call[c] EXCEPT !.pc = "removed"])
  /\ UNCHANGED <<rows, bucket, collided, overlapped, bounds>>

RecordRemoval(c) ==
  LET k == call[c]
  IN /\ k.pc = "removing" /\ status[k.part] # None
     /\ Record(k.part, <<"deleted", k.invoice>>)
     /\ Become(c, [k EXCEPT !.pc = "removed"])
     /\ UNCHANGED <<status, invoices, bucket, collided, overlapped, bounds>>

\* A row that is gone already only draws a warning.
DeleteInvoice(c) ==
  /\ call[c].pc = "removed"
  /\ invoices' = [invoices EXCEPT ![call[c].invoice] = None]
  /\ Become(c, Idle)
  /\ UNCHANGED <<status, history, bucket, collided, overlapped, bounds>>

RecordInvoice(c) ==
  LET k == call[c]
  IN /\ k.pc \in {"record uploaded", "record updated"} /\ status[k.part] # None
     /\ Record(k.part, <<IF k.pc = "record uploaded" THEN "uploaded" ELSE "updated",
                         k.invoice>>)
     /\ Become(c, Idle)
     /\ UNCHANGED <<status, invoices, bucket, collided, overlapped, bounds>>

-----------------------------------------------------------------------------
\* A foreign key without its part, or an UPDATE of a row that is gone: 500.
Refused(c) ==
  LET k == call[c]
  IN /\ \/ /\ k.pc \in {"put", "status", "removing", "record uploaded", "record updated",
                        "record status", "record edit"}
           /\ status[k.part] = None
        \/ k.pc = "replaced" /\ ~Stored(k.invoice)
     /\ Become(c, Idle)
     /\ UNCHANGED <<rows, bucket, collided, overlapped, bounds>>

Crash(c) ==
  /\ call[c].pc # "idle" /\ crashes < MaxCrashes
  /\ crashes' = crashes + 1
  /\ Become(c, Idle)
  /\ UNCHANGED <<rows, bucket, used, now, collided, overlapped, calls>>

Tick ==
  /\ now < MaxSeconds
  /\ now' = now + 1
  /\ UNCHANGED <<rows, bucket, call, used, collided, overlapped, calls, crashes>>

Next ==
  \/ \E c \in Calls :
       \/ CreatePart(c) \/ UpdatePart(c) \/ ReadStatus(c) \/ CommitStatus(c)
       \/ RecordStatus(c) \/ RecordEdit(c) \/ RecordPartDeletion(c) \/ DeletePart(c)
       \/ UploadFile(c) \/ CommitInvoice(c) \/ ReplaceFile(c) \/ CommitUrl(c)
       \/ RemoveFile(c) \/ RecordRemoval(c) \/ DeleteInvoice(c) \/ RecordInvoice(c)
       \/ Refused(c) \/ Crash(c)
  \/ Tick

Spec == Init /\ [][Next]_vars

-----------------------------------------------------------------------------
(* Properties.                                                              *)

\* The url of an invoice that was never updated names the file uploaded for it:
\* neither a deletion that dies half way nor a part deleted under it takes the
\* file away (crud/inventory.py:711-718, 754).  Two uploads to one part within the
\* same second share a key, and the later one wins.
FileBehindInvoice ==
  \A i \in Invoices :
    Stored(i) /\ invoices[i].url.host = "storage" /\ i \notin collided =>
      /\ invoices[i].url.key \in DOMAIN bucket
      /\ bucket[invoices[i].url.key] = i

\* The history of a part explains why an invoice it had is not there: the record
\* of the deletion is committed before the deletion (crud/inventory.py:757-766).
InvoiceDeletionRecorded ==
  \A p \in Parts, i \in Invoices :
    <<"uploaded", i>> \in history[p].rows /\ ~Stored(i) =>
      <<"deleted", i>> \in history[p].rows

\* Without a crash and without two changes at the same time, the changes of status
\* on record lead from the first status to the present one without a gap
\* (crud/inventory.py:660-672).
StatusHistoryChains ==
  \A p \in Parts :
    LET s == history[p].status
        At(n) == IF n = 0 THEN Initial ELSE s[n][2]
    IN status[p] # None /\ p \notin overlapped /\ crashes = 0 =>
         /\ \A n \in 1 .. Len(s) : s[n][1] = At(n - 1)
         /\ (\A c \in Calls : call[c].part # p) => status[p] = At(Len(s))
=============================================================================
