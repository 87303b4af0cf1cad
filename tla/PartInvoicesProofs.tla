------------------------- MODULE PartInvoicesProofs -------------------------
(***************************************************************************)
(* Proofs about PartInvoices for every number of calls, parts, invoices    *)
(* and statuses and every bound.                                           *)
(***************************************************************************)
EXTENDS PartInvoices, SequenceTheorems, TLAPS

USE DEF rows, bounds

-----------------------------------------------------------------------------
(* Types                                                                   *)

Pcs == {"idle", "put", "replaced", "removing", "changing", "dropping",
        "record uploaded", "record updated", "removed", "record status",
        "record edit", "status"}
OnInvoice == {"put", "replaced", "removing", "removed", "record uploaded",
              "record updated"}
OnStatus == {"status", "record status"}

Urls == [host : {"storage", "amazon"}, key : Keys]
CallRow == [pc : Pcs, part : Parts \cup {None}, invoice : Invoices \cup {None},
            url : Urls \cup {None}, from : Statuses \cup {None},
            to : Statuses \cup {None}]
HistoryRow == {"edited", "part deleted", "deleted", "uploaded", "updated"}
                \X (Invoices \cup {None})
HistoryOfPart == [rows : SUBSET HistoryRow, status : Seq(Statuses \X Statuses)]

\* An uploaded file has a key of one form, an updated invoice names one of another.
UploadUrl(url) == \E p \in Parts, s \in 0 .. MaxSeconds :
                    url = Url("storage", Key("upload", p, s))
UpdateUrl(url) == \E p \in Parts, s \in 0 .. MaxSeconds :
                    url = Url("amazon", Key("update", p, s))

\* What a call has read names things there have been.
CallOK(k) ==
  /\ k.pc = "idle" => k = Idle
  /\ k.pc # "idle" => k.part \in Parts /\ k.part \in used
  /\ k.pc \in OnInvoice => k.invoice \in Invoices
  /\ k.invoice # None => k.invoice \in used
  /\ k.pc \in OnStatus => k.from \in Statuses /\ k.to \in Statuses
  /\ k.pc \notin OnStatus => k.to = None
  /\ k.pc = "put" => UploadUrl(k.url)
  /\ k.pc = "replaced" => UpdateUrl(k.url)

\* The type invariant, with ids given once and no history without a part.
Types ==
  /\ TypeOK
  /\ history \in [Parts -> HistoryOfPart]
  /\ \A p \in Parts : /\ status[p] = None => history[p] = NoHistory
                      /\ status[p] # None => p \in used
  /\ \A i \in Invoices : /\ Stored(i) => i \in used
                         /\ Stored(i) => UploadUrl(invoices[i].url)
                                         \/ UpdateUrl(invoices[i].url)
  /\ call \in [Calls -> CallRow]
  /\ \A c \in Calls : CallOK(call[c])
  /\ collided \subseteq Invoices /\ overlapped \subseteq Parts

\* Keys of files.
LEMMA KeyTypes ==
  /\ ConstantKey \in Keys
  /\ \A form \in {"upload", "update"}, p \in Parts, s \in 0 .. MaxSeconds :
       Key(form, p, s) \in Keys
  /\ \A url : UploadUrl(url) \/ UpdateUrl(url) => url \in Urls
<1>1. /\ ConstantKey \in Keys
      /\ \A form \in {"upload", "update"}, p \in Parts, s \in 0 .. MaxSeconds :
           Key(form, p, s) \in Keys
  BY DEF Keys
<1>2. QED
  BY <1>1 DEF UploadUrl, UpdateUrl, Urls, Url

\* The state before the first call.
LEMMA InitTypes == Init => Types
<1> SUFFICES ASSUME Init PROVE Types
  OBVIOUS
<1>1. NoHistory \in HistoryOfPart
  BY EmptySeq DEF NoHistory, HistoryOfPart
<1>2. Idle \in CallRow /\ CallOK(Idle)
  BY DEF Idle, CallRow, Pcs, CallOK, OnInvoice, OnStatus
<1>3. TypeOK
  <2>1. DOMAIN bucket = {}
    BY DEF Init
  <2>2. \A p \in Parts : history[p] = NoHistory
    BY DEF Init
  <2>3. \A p \in Parts : /\ history[p].status \in Seq(Statuses \X Statuses)
                         /\ history[p].rows = {}
    <3>1. NoHistory.status \in Seq(Statuses \X Statuses)
      BY <1>1 DEF HistoryOfPart
    <3>2. NoHistory.rows = {}
      BY DEF NoHistory
    <3>3. QED
      BY <2>2, <3>1, <3>2
  <2>4. \A c \in Calls : call[c].pc = "idle"
    BY DEF Init, Idle
  <2>5. now \in 0 .. MaxSeconds /\ calls \in 0 .. MaxCalls
        /\ crashes \in 0 .. MaxCrashes
    BY PartInvoicesAssumption DEF Init
  <2>6. QED
    BY <2>1, <2>3, <2>4, <2>5 DEF Init, TypeOK, Stored
<1>4. QED
  BY <1>1, <1>2, <1>3 DEF Init, Types, Stored

\* The types of the fields that a step reads.
LEMMA StateTypes ==
  ASSUME Types
  PROVE  /\ status \in [Parts -> Statuses \cup {None}]
         /\ invoices \in [Invoices -> InvoiceRow \cup {None}]
         /\ history \in [Parts -> HistoryOfPart]
         /\ call \in [Calls -> CallRow]
         /\ \A c \in Calls : CallOK(call[c]) /\ call[c] \in CallRow
         /\ now \in 0 .. MaxSeconds
  BY DEF Types, TypeOK

\* A step of one call that gives out no id keeps the types of the calls.
LEMMA BecomeTypes ==
  ASSUME Types, NEW c \in Calls, NEW new \in CallRow, used \subseteq used',
         call' = [call EXCEPT ![c] = new], CallOK(new)'
  PROVE  /\ call' \in [Calls -> CallRow]
         /\ \A d \in Calls : CallOK(call[d])'
<1>1. call' \in [Calls -> CallRow]
  BY DEF Types
<1>2. \A k \in CallRow : CallOK(k) => CallOK(k)'
  BY DEF CallOK
<1>3. ASSUME NEW d \in Calls PROVE CallOK(call[d])'
  <2>1. call'[d] = IF d = c THEN new ELSE call[d]
    BY DEF Types
  <2>2. CallOK(call[d]) /\ call[d] \in CallRow
    BY DEF Types
  <2>3. CASE d = c
    BY <2>1, <2>3 DEF CallOK
  <2>4. CASE d # c
    BY <2>1, <2>2, <2>4 DEF CallOK
  <2>5. QED
    BY <2>3, <2>4
<1>4. QED
  BY <1>1, <1>3

\* A step of one call that keeps the rows, and changes neither the clock nor what
\* the ghosts are about, keeps the types when what it writes is typed.
LEMMA KeepTypes ==
  ASSUME Types, status' \in [Parts -> Statuses \cup {None}],
         invoices' \in [Invoices -> InvoiceRow \cup {None}],
         history' \in [Parts -> HistoryOfPart],
         \A p \in Parts : /\ status'[p] = None => history'[p] = NoHistory
                          /\ status'[p] # None => p \in used',
         \A i \in Invoices : Stored(i)' => /\ status'[invoices'[i].part] # None
                                           /\ i \in used'
                                          /\ \/ UploadUrl(invoices'[i].url)
                                             \/ UpdateUrl(invoices'[i].url),
         \A k \in DOMAIN bucket' : k \in Keys /\ bucket'[k] \in Invoices,
         call' \in [Calls -> CallRow], \A c \in Calls : CallOK(call[c])',
         used' \subseteq Parts \cup Invoices, now' \in 0 .. MaxSeconds,
         calls' \in 0 .. MaxCalls, crashes' \in 0 .. MaxCrashes,
         collided' \subseteq Invoices, overlapped' \subseteq Parts
  PROVE  Types'
<1>1. \A p \in Parts : /\ history'[p].status \in Seq(Statuses \X Statuses)
                       /\ status'[p] = None => history'[p].rows = {}
  <2>1. \A h \in HistoryOfPart : h.status \in Seq(Statuses \X Statuses)
    BY DEF HistoryOfPart
  <2>2. NoHistory.rows = {}
    BY DEF NoHistory
  <2>3. QED
    BY <2>1, <2>2
<1>2. \A c \in Calls : call'[c].pc \in Pcs
  BY DEF CallRow
<1>3. TypeOK'
  BY <1>1, <1>2 DEF TypeOK, Pcs
<1>4. (\A i \in Invoices : Stored(i) => UploadUrl(invoices[i].url)
                                       \/ UpdateUrl(invoices[i].url))'
  BY DEF UploadUrl, UpdateUrl
<1>5. QED
  BY <1>3, <1>4 DEF Types

\* A step that changes no row, no id and no file keeps the types.
LEMMA CallTypes ==
  ASSUME Types, UNCHANGED <<rows, used, now>>,
         \A k \in DOMAIN bucket' : k \in Keys /\ bucket'[k] \in Invoices,
         call' \in [Calls -> CallRow], \A c \in Calls : CallOK(call[c])',
         calls' \in 0 .. MaxCalls, crashes' \in 0 .. MaxCrashes,
         collided' \subseteq Invoices, overlapped' \subseteq Parts
  PROVE  Types'
<1>1. \A i \in Invoices : Stored(i)' => Stored(i)
  BY DEF Stored
<1>2. \A i \in Invoices : Stored(i) => /\ status[invoices[i].part] # None
                                     /\ i \in used
                                     /\ \/ UploadUrl(invoices[i].url)
                                        \/ UpdateUrl(invoices[i].url)
  BY DEF Types, TypeOK
<1>3. used \subseteq Parts \cup Invoices
  BY DEF Types, TypeOK
<1>4. /\ status' \in [Parts -> Statuses \cup {None}]
      /\ invoices' \in [Invoices -> InvoiceRow \cup {None}]
      /\ history' \in [Parts -> HistoryOfPart]
      /\ used' \subseteq Parts \cup Invoices /\ now' \in 0 .. MaxSeconds
  BY <1>3, StateTypes
<1>5. \A p \in Parts : /\ status'[p] = None => history'[p] = NoHistory
                       /\ status'[p] # None => p \in used'
  BY DEF Types
<1>6. ASSUME NEW i \in Invoices, Stored(i)'
      PROVE  /\ status'[invoices'[i].part] # None /\ i \in used'
             /\ UploadUrl(invoices'[i].url) \/ UpdateUrl(invoices'[i].url)
  <2>1. PICK row : row = invoices[i]
    OBVIOUS
  <2>2. status[row.part] # None /\ i \in used /\ (UploadUrl(row.url) \/ UpdateUrl(row.url))
    BY <1>1, <1>2, <1>6, <2>1
  <2>3. invoices'[i] = row /\ status' = status /\ used' = used
    BY <2>1
  <2>4. QED
    BY <2>2, <2>3
<1>7. QED
  BY <1>4, <1>5, <1>6, KeepTypes

\* A call that goes on with what it has read stays well formed.
LEMMA KeptOK ==
  ASSUME NEW k \in CallRow, CallOK(k), k.pc # "idle",
         NEW pc \in Pcs \ {"idle", "put", "replaced"},
         pc \in OnInvoice => k.pc \in OnInvoice,
         pc \in OnStatus <=> k.pc \in OnStatus
  PROVE  [k EXCEPT !.pc = pc] \in CallRow /\ CallOK([k EXCEPT !.pc = pc])
<1>1. PICK new : new = [k EXCEPT !.pc = pc]
  OBVIOUS
<1>2. /\ new \in CallRow /\ new.pc = pc /\ new.part = k.part /\ new.invoice = k.invoice
      /\ new.from = k.from /\ new.to = k.to
  BY <1>1 DEF CallRow
<1>3. CallOK(new)
  BY <1>2 DEF CallOK
<1>4. QED
  BY <1>1, <1>2, <1>3

\* A call that has not begun is well formed.
LEMMA IdleOK == Idle \in CallRow /\ CallOK(Idle)
BY DEF Idle, CallRow, Pcs, CallOK, OnInvoice, OnStatus

\* A call that has just begun, field by field.
LEMMA BegunOK ==
  ASSUME NEW pc \in Pcs \ {"idle"}, NEW part \in Parts, NEW invoice \in Invoices \cup {None},
         NEW url \in Urls \cup {None}, NEW from \in Statuses \cup {None},
         NEW to \in Statuses \cup {None}, part \in used',
         pc \in OnInvoice => invoice \in Invoices, invoice # None => invoice \in used',
         pc \in OnStatus => from \in Statuses /\ to \in Statuses,
         pc \notin OnStatus => to = None, pc = "put" => UploadUrl(url),
         pc = "replaced" => UpdateUrl(url),
         NEW new \in CallRow, new.pc = pc, new.part = part, new.invoice = invoice,
         new.url = url, new.from = from, new.to = to
  PROVE  CallOK(new)'
BY DEF CallOK

\* A call more keeps to the bound.
LEMMA MoreCalls ==
  ASSUME Types, NEW c, NEW new, Enter(c, new)
  PROVE  calls' \in 0 .. MaxCalls /\ call' = [call EXCEPT ![c] = new]
<1>1. /\ calls \in 0 .. MaxCalls /\ calls < MaxCalls /\ calls' = calls + 1
      /\ call' = [call EXCEPT ![c] = new]
  BY DEF Enter, Types, TypeOK
<1>2. calls \in 0 .. MaxCalls /\ calls < MaxCalls /\ calls' = calls + 1
      => calls' \in 0 .. MaxCalls
  BY ONLY PartInvoicesAssumption
<1>3. QED
  BY <1>1, <1>2

\* A call that begins, with an id or without, without touching rows.
LEMMA EnterTypes ==
  ASSUME Types, NEW c \in Calls, NEW new \in CallRow, Enter(c, new), CallOK(new)',
         UNCHANGED <<rows, now, crashes>>, used \subseteq used',
         used' \subseteq Parts \cup Invoices,
         \A k \in DOMAIN bucket' : k \in Keys /\ bucket'[k] \in Invoices,
         collided' \subseteq Invoices, overlapped' \subseteq Parts
  PROVE  Types'
<1>1. calls' \in 0 .. MaxCalls
  BY MoreCalls
<1>2. call' \in [Calls -> CallRow] /\ \A d \in Calls : CallOK(call[d])'
  BY BecomeTypes DEF Enter
<1>3. /\ \A i \in Invoices : Stored(i)' => Stored(i)
      /\ \A i \in Invoices : Stored(i) => /\ status[invoices[i].part] # None
                                          /\ i \in used
                                         /\ \/ UploadUrl(invoices[i].url)
                                            \/ UpdateUrl(invoices[i].url)
      /\ \A p \in Parts : /\ status[p] = None => history[p] = NoHistory
                          /\ status[p] # None => p \in used
      /\ crashes \in 0 .. MaxCrashes
  BY DEF Stored, Types, TypeOK
<1>4. QED
  BY <1>1, <1>2, <1>3, StateTypes, KeepTypes

\* A step of one call that is under way, on rows, leaves the types.
LEMMA StepTypes ==
  ASSUME Types, NEW c \in Calls, NEW new \in CallRow, Become(c, new), CallOK(new),
         UNCHANGED <<bucket, collided, overlapped, bounds>>,
         status' \in [Parts -> Statuses \cup {None}],
         invoices' \in [Invoices -> InvoiceRow \cup {None}],
         history' \in [Parts -> HistoryOfPart],
         \A p \in Parts : /\ status'[p] = None => history'[p] = NoHistory
                          /\ status'[p] # None => status[p] # None,
         \A i \in Invoices : Stored(i)' =>
           \/ Stored(i) /\ invoices'[i] = invoices[i] /\ status'[invoices[i].part] # None
           \/ /\ status'[invoices'[i].part] # None
              /\ i \in used
              /\ UploadUrl(invoices'[i].url) \/ UpdateUrl(invoices'[i].url)
  PROVE  Types'
<1>1. call' \in [Calls -> CallRow] /\ \A d \in Calls : CallOK(call[d])'
  <2>1. CallOK(new)'
    BY DEF CallOK
  <2>2. QED
    BY <2>1, BecomeTypes DEF Become
<1>2. \A i \in Invoices : Stored(i) => /\ i \in used
                                     /\ \/ UploadUrl(invoices[i].url)
                                        \/ UpdateUrl(invoices[i].url)
  BY DEF Types
<1>3. \A p \in Parts : status[p] # None => p \in used
  BY DEF Types
<1>4. /\ used \subseteq Parts \cup Invoices /\ now \in 0 .. MaxSeconds
      /\ calls \in 0 .. MaxCalls /\ crashes \in 0 .. MaxCrashes
      /\ \A k \in DOMAIN bucket : k \in Keys /\ bucket[k] \in Invoices
      /\ collided \subseteq Invoices /\ overlapped \subseteq Parts
  BY DEF Types, TypeOK
<1>5. QED
  BY <1>1, <1>2, <1>3, <1>4, KeepTypes

\* Adding to the history of a part there is.
LEMMA HistoryTypes ==
  ASSUME Types, NEW p \in Parts, status[p] # None, NEW h \in HistoryOfPart,
         history' = [history EXCEPT ![p] = h]
  PROVE  /\ history' \in [Parts -> HistoryOfPart]
         /\ history'[p] = h /\ \A q \in Parts : q # p => history'[q] = history[q]
         /\ \A q \in Parts : status[q] = None => history'[q] = NoHistory
BY DEF Types

\* A record of the history.
LEMMA RecordTypes ==
  ASSUME Types, NEW p \in Parts, status[p] # None, NEW row \in HistoryRow, Record(p, row)
  PROVE  /\ history' \in [Parts -> HistoryOfPart]
         /\ history'[p] = [history[p] EXCEPT !.rows = @ \cup {row}]
         /\ history'[p].rows = history[p].rows \cup {row}
         /\ history'[p].status = history[p].status
         /\ \A q \in Parts : q # p => history'[q] = history[q]
         /\ \A q \in Parts : status[q] = None => history'[q] = NoHistory
<1>1. [history[p] EXCEPT !.rows = @ \cup {row}] \in HistoryOfPart
  BY StateTypes DEF HistoryOfPart
<1>2. history[p] \in HistoryOfPart
  BY StateTypes
<1>3. history' = [history EXCEPT ![p] = [history[p] EXCEPT !.rows = @ \cup {row}]]
  BY DEF Record
<1>4. /\ history' \in [Parts -> HistoryOfPart]
      /\ history'[p] = [history[p] EXCEPT !.rows = @ \cup {row}]
      /\ \A q \in Parts : q # p => history'[q] = history[q]
      /\ \A q \in Parts : status[q] = None => history'[q] = NoHistory
  BY <1>1, <1>3, HistoryTypes
<1>5. history'[p].rows = history[p].rows \cup {row}
      /\ history'[p].status = history[p].status
  BY <1>2, <1>4 DEF HistoryOfPart
<1>6. QED
  BY <1>4, <1>5

\* A file is stored under a key.
LEMMA PutTypes ==
  ASSUME Types, NEW key \in Keys, NEW i \in Invoices, Put(key, i)
  PROVE  \A k \in DOMAIN bucket' : k \in Keys /\ bucket'[k] \in Invoices
BY DEF Types, TypeOK, Put

\* A step of the system keeps the types.
LEMMA StepKeepsTypes ==
  ASSUME Types, [Next]_vars
  PROVE  Types'
<1> USE StateTypes, PartInvoicesAssumption
<1>0. /\ used \subseteq Parts \cup Invoices
      /\ \A k \in DOMAIN bucket : k \in Keys /\ bucket[k] \in Invoices
      /\ collided \subseteq Invoices /\ overlapped \subseteq Parts
      /\ crashes \in 0 .. MaxCrashes /\ calls \in 0 .. MaxCalls
      /\ \A p \in Parts : /\ status[p] = None => history[p] = NoHistory
                          /\ status[p] # None => p \in used
      /\ \A i \in Invoices : Stored(i) => /\ status[invoices[i].part] # None
                                          /\ i \in used
                                         /\ \/ UploadUrl(invoices[i].url)
                                            \/ UpdateUrl(invoices[i].url)
  BY DEF Types, TypeOK
<1>1. ASSUME NEW c \in Calls, CreatePart(c) PROVE Types'
  <2>1. PICK p \in Parts \ used :
          /\ Enter(c, [Idle EXCEPT !.pc = "record edit", !.part = p])
          /\ used' = used \cup {p}
          /\ status' = [status EXCEPT ![p] = Initial]
          /\ UNCHANGED <<invoices, history, bucket, now, collided, overlapped, crashes>>
    BY <1>1 DEF CreatePart
  <2> DEFINE new == [Idle EXCEPT !.pc = "record edit", !.part = p]
  <2>2. new \in CallRow /\ CallOK(new)'
    BY <2>1, IdleOK DEF Idle, CallRow, Pcs, CallOK, OnInvoice, OnStatus
  <2> HIDE DEF new
  <2>3. calls' \in 0 .. MaxCalls
    BY <2>1, MoreCalls
  <2>4. call' \in [Calls -> CallRow] /\ \A d \in Calls : CallOK(call[d])'
    BY <2>1, <2>2, BecomeTypes DEF Enter, new
  <2>5. status[p] = None /\ Initial # None
    BY <1>0, <2>1
  <2>6. /\ status' \in [Parts -> Statuses \cup {None}]
        /\ \A q \in Parts : /\ status'[q] = None => history'[q] = NoHistory
                            /\ status'[q] # None => q \in used'
    BY <1>0, <2>1, <2>5
  <2>7. \A i \in Invoices : Stored(i)' => /\ status'[invoices'[i].part] # None
                                          /\ i \in used'
                                         /\ \/ UploadUrl(invoices'[i].url)
                                            \/ UpdateUrl(invoices'[i].url)
    BY <1>0, <2>1, <2>5 DEF Stored, InvoiceRow
  <2>8. QED
    BY <1>0, <2>1, <2>3, <2>4, <2>6, <2>7, KeepTypes
<1>2. ASSUME NEW c \in Calls, UpdatePart(c) PROVE Types'
  <2>1. PICK p \in Parts : /\ status[p] # None
                           /\ Enter(c, [Idle EXCEPT !.pc = "record edit", !.part = p])
                           /\ UNCHANGED <<rows, bucket, used, now, collided, overlapped,
                                          crashes>>
    BY <1>2 DEF UpdatePart
  <2> DEFINE new == [Idle EXCEPT !.pc = "record edit", !.part = p]
  <2>2. new \in CallRow /\ CallOK(new)'
    <3>1. /\ new.pc = "record edit" /\ new.part = p /\ new.invoice = None /\ new.url = None
          /\ new.from = None /\ new.to = None
      BY Zenon DEF Idle
    <3>0. new \in CallRow
      BY DEF Idle, CallRow, Pcs
    <3>2. p \in used'
      BY <1>0, <2>1
    <3>3. QED
      BY <3>0, <3>1, <3>2, BegunOK DEF Pcs, OnInvoice, OnStatus
  <2>3. QED
    BY <1>0, <2>1, <2>2, EnterTypes
<1>3. ASSUME NEW c \in Calls, ReadStatus(c) PROVE Types'
  <2>1. PICK p \in Parts, s \in Statuses :
          /\ status[p] # None
          /\ Enter(c, [Idle EXCEPT !.pc = "status", !.part = p, !.from = status[p], !.to = s])
          /\ overlapped' \in {overlapped, overlapped \cup {p}}
          /\ UNCHANGED <<rows, bucket, used, now, collided, crashes>>
    BY <1>3 DEF ReadStatus
  <2>2. PICK from \in Statuses : from = status[p]
    BY <1>0, <2>1, StateTypes
  <2> DEFINE new == [Idle EXCEPT !.pc = "status", !.part = p, !.from = from, !.to = s]
  <2>3. new \in CallRow /\ CallOK(new)'
    <3>1. /\ new.pc = "status" /\ new.part = p /\ new.invoice = None /\ new.url = None
          /\ new.from = from /\ new.to = s
      BY Zenon DEF Idle
    <3>0. new \in CallRow
      BY DEF Idle, CallRow, Pcs
    <3>2. p \in used'
      BY <1>0, <2>1
    <3>3. QED
      BY <3>0, <3>1, <3>2, BegunOK DEF Pcs, OnInvoice, OnStatus
  <2>4. Enter(c, new)
    BY <2>1, <2>2
  <2> HIDE DEF new
  <2>5. QED
    BY <1>0, <2>1, <2>3, <2>4, EnterTypes
<1>4. ASSUME NEW c \in Calls, CommitStatus(c) PROVE Types'
  <2> DEFINE new == [call[c] EXCEPT !.pc = "record status"]
  <2>1. new \in CallRow /\ CallOK(new)
    BY <1>4, KeptOK DEF CommitStatus, Pcs, OnInvoice, OnStatus
  <2>2. call[c].part \in Parts /\ call[c].to \in Statuses
    BY <1>4 DEF CommitStatus, CallOK, OnStatus
  <2>3. /\ status' \in [Parts -> Statuses \cup {None}]
        /\ \A q \in Parts : status'[q] = None <=> status[q] = None
    BY <1>4, <2>2 DEF CommitStatus
  <2>4. Become(c, new) /\ UNCHANGED <<invoices, history, bucket, collided, overlapped,
                                     bounds>>
    BY <1>4 DEF CommitStatus
  <2>5. \A i \in Invoices : Stored(i)' =>
          /\ Stored(i) /\ invoices'[i] = invoices[i]
          /\ status'[invoices[i].part] # None
    <3> SUFFICES ASSUME NEW i \in Invoices, Stored(i)'
                 PROVE  /\ Stored(i) /\ invoices'[i] = invoices[i]
                        /\ status'[invoices[i].part] # None
      OBVIOUS
    <3>1. Stored(i) /\ invoices'[i] = invoices[i]
      BY <2>4 DEF Stored
    <3>2. invoices[i].part \in Parts /\ status[invoices[i].part] # None
      BY <1>0, <3>1 DEF InvoiceRow, Stored
    <3>3. QED
      BY <2>3, <3>1, <3>2
  <2> HIDE DEF new
  <2>6. QED
    BY <1>0, <2>1, <2>3, <2>4, <2>5, StepTypes
<1>5. ASSUME NEW c \in Calls, RecordStatus(c) PROVE Types'
  <2> DEFINE k == call[c]
             h == [history[k.part] EXCEPT !.status = Append(@, PreviousAndNew(k))]
  <2>1. k.part \in Parts /\ k.from \in Statuses /\ k.to \in Statuses /\ status[k.part] # None
    BY <1>5 DEF RecordStatus, CallOK, OnStatus
  <2>2. h \in HistoryOfPart
    <3>1. PreviousAndNew(k) \in Statuses \X Statuses
      BY <2>1 DEF PreviousAndNew
    <3>2. history[k.part] \in HistoryOfPart
      BY <2>1
    <3>3. Append(history[k.part].status, PreviousAndNew(k)) \in Seq(Statuses \X Statuses)
      BY <3>1, <3>2, AppendProperties DEF HistoryOfPart
    <3> HIDE DEF k
    <3>4. QED
      BY <3>2, <3>3 DEF HistoryOfPart
  <2>3. history' = [history EXCEPT ![k.part] = h]
    BY <1>5 DEF RecordStatus
  <2>4. /\ Become(c, Idle)
        /\ UNCHANGED <<status, invoices, bucket, collided, overlapped, bounds>>
    BY <1>5 DEF RecordStatus
  <2> HIDE DEF k, h
  <2>5. /\ history' \in [Parts -> HistoryOfPart]
        /\ \A q \in Parts : status[q] = None => history'[q] = NoHistory
    BY <2>1, <2>2, <2>3, HistoryTypes
  <2>6. QED
    BY <1>0, <2>4, <2>5, IdleOK, StepTypes DEF Stored
<1>6. ASSUME NEW c \in Calls, NEW p \in Parts, NEW row \in HistoryRow,
             status[p] # None, Record(p, row), NEW new \in CallRow, CallOK(new),
             Become(c, new),
             UNCHANGED <<status, invoices, bucket, collided, overlapped, bounds>>
      PROVE  Types'
  <2>1. /\ history' \in [Parts -> HistoryOfPart]
        /\ \A q \in Parts : status[q] = None => history'[q] = NoHistory
    BY <1>6, RecordTypes
  <2>2. QED
    BY <1>0, <1>6, <2>1, StepTypes DEF Stored
<1>7. ASSUME NEW c \in Calls, RecordEdit(c) PROVE Types'
  <2>1. call[c].part \in Parts
    BY <1>7 DEF RecordEdit, CallOK
  <2>2. <<"edited", None>> \in HistoryRow
    BY DEF HistoryRow
  <2>3. QED
    BY <1>6, <1>7, <2>1, <2>2, IdleOK DEF RecordEdit
<1>8. ASSUME NEW c \in Calls, RecordPartDeletion(c) PROVE Types'
  <2>1. PICK p \in Parts : /\ status[p] # None
                           /\ Enter(c, [Idle EXCEPT !.pc = "dropping", !.part = p])
                           /\ Record(p, <<"part deleted", None>>)
                           /\ UNCHANGED <<status, invoices, bucket, used, now, collided,
                                          overlapped, crashes>>
    BY <1>8 DEF RecordPartDeletion
  <2> DEFINE new == [Idle EXCEPT !.pc = "dropping", !.part = p]
  <2>2. new \in CallRow /\ CallOK(new)'
    BY <1>0, <2>1 DEF Idle, CallRow, Pcs, CallOK, OnInvoice, OnStatus
  <2>3. call' = [call EXCEPT ![c] = new] /\ calls' \in 0 .. MaxCalls
    BY <2>1, MoreCalls
  <2> HIDE DEF new
  <2>4. call' \in [Calls -> CallRow] /\ \A d \in Calls : CallOK(call[d])'
    BY <2>1, <2>2, <2>3, BecomeTypes
  <2>5. <<"part deleted", None>> \in HistoryRow
    BY DEF HistoryRow
  <2>6. /\ history' \in [Parts -> HistoryOfPart]
        /\ \A q \in Parts : status[q] = None => history'[q] = NoHistory
    BY <2>1, <2>5, RecordTypes
  <2>7. \A i \in Invoices : Stored(i)' <=> Stored(i)
    BY <2>1 DEF Stored
  <2>8. QED
    BY <1>0, <2>1, <2>3, <2>4, <2>6, <2>7, KeepTypes
<1>9. ASSUME NEW c \in Calls, DeletePart(c) PROVE Types'
  <2> DEFINE p == call[c].part
  <2>1. p \in Parts
    BY <1>9 DEF DeletePart, CallOK
  <2>2. /\ status' = [status EXCEPT ![p] = None]
        /\ invoices' = InvoicesWithout(p)
        /\ history' = [history EXCEPT ![p] = NoHistory]
        /\ Become(c, Idle)
        /\ UNCHANGED <<bucket, collided, overlapped, bounds>>
    BY <1>9 DEF DeletePart
  <2> HIDE DEF p
  <2>3. NoHistory \in HistoryOfPart
    BY EmptySeq DEF NoHistory, HistoryOfPart
  <2>4. /\ status' \in [Parts -> Statuses \cup {None}]
        /\ history' \in [Parts -> HistoryOfPart]
        /\ \A q \in Parts : /\ status'[q] = None => history'[q] = NoHistory
                            /\ status'[q] # None => status[q] # None
                            /\ q # p => status'[q] = status[q]
    BY <1>0, <2>1, <2>2, <2>3
  <2>5. /\ invoices' \in [Invoices -> InvoiceRow \cup {None}]
        /\ \A i \in Invoices : Stored(i)' =>
             Stored(i) /\ invoices'[i] = invoices[i] /\ invoices[i].part # p
    BY <2>2 DEF InvoicesWithout, Stored
  <2>6. \A i \in Invoices : Stored(i)' =>
          Stored(i) /\ invoices'[i] = invoices[i] /\ status'[invoices[i].part] # None
    BY <1>0, <2>4, <2>5 DEF InvoiceRow, Stored
  <2>7. QED
    BY <2>2, <2>4, <2>5, <2>6, IdleOK, StepTypes
<1>10. ASSUME NEW c \in Calls, UploadFile(c) PROVE Types'
  <2>1. PICK p \in Parts, i \in Invoices \ used, s \in 0 .. MaxSeconds :
          /\ s = now /\ status[p] # None
          /\ Enter(c, [Idle EXCEPT !.pc = "put", !.part = p, !.invoice = i,
                                   !.url = Url("storage", Key("upload", p, s))])
          /\ used' = used \cup {i}
          /\ Put(Key("upload", p, s), i)
          /\ Key("upload", p, s) \in DOMAIN bucket =>
               collided' = collided \cup {bucket[Key("upload", p, s)]}
          /\ Key("upload", p, s) \notin DOMAIN bucket => collided' = collided
          /\ UNCHANGED <<rows, now, overlapped, crashes>>
    BY <1>10 DEF UploadFile
  <2> DEFINE url == Url("storage", Key("upload", p, s))
             new == [Idle EXCEPT !.pc = "put", !.part = p, !.invoice = i, !.url = url]
  <2>2. UploadUrl(url) /\ url \in Urls
    BY KeyTypes DEF UploadUrl
  <2> HIDE DEF url
  <2>3. new \in CallRow /\ CallOK(new)'
    <3>1. /\ new.pc = "put" /\ new.part = p /\ new.invoice = i /\ new.url = url
          /\ new.from = None /\ new.to = None
      BY Zenon DEF Idle
    <3>0. new \in CallRow
      BY <2>2 DEF Idle, CallRow, Pcs
    <3>2. p \in used' /\ i \in used'
      BY <1>0, <2>1
    <3>3. PICK u \in Urls : u = url
      BY <2>2
    <3>4. QED
      BY <2>2, <3>0, <3>1, <3>2, <3>3, BegunOK DEF Pcs, OnInvoice, OnStatus
  <2>4. \A k \in DOMAIN bucket' : k \in Keys /\ bucket'[k] \in Invoices
    BY <2>1, KeyTypes, PutTypes
  <2>5. collided' \subseteq Invoices
    BY <1>0, <2>1
  <2>6. QED
    BY <1>0, <2>1, <2>3, <2>4, <2>5, EnterTypes DEF url
<1>11. ASSUME NEW c \in Calls, CommitInvoice(c) PROVE Types'
  <2> DEFINE k == call[c]
             new == [k EXCEPT !.pc = "record uploaded"]
             row == [part |-> k.part, url |-> k.url]
  <2>1. /\ k \in CallRow /\ k.part \in Parts /\ k.invoice \in Invoices /\ k.invoice \in used
        /\ UploadUrl(k.url) /\ k.url \in Urls /\ status[k.part] # None
    BY <1>11, KeyTypes DEF CommitInvoice, CallOK, OnInvoice
  <2>2. new \in CallRow /\ CallOK(new)
    BY <1>11, KeptOK DEF CommitInvoice, Pcs, OnInvoice, OnStatus
  <2>3. Become(c, new) /\ UNCHANGED <<status, history, bucket, collided, overlapped, bounds>>
        /\ invoices' = [invoices EXCEPT ![k.invoice] = row]
    BY <1>11 DEF CommitInvoice
  <2>4. row \in InvoiceRow /\ row.part = k.part /\ row.url = k.url
    BY <2>1 DEF InvoiceRow, Urls
  <2> HIDE DEF k, new, row
  <2>5. invoices' \in [Invoices -> InvoiceRow \cup {None}]
    BY <2>3, <2>4
  <2>6. ASSUME NEW i \in Invoices, Stored(i)'
        PROVE  \/ Stored(i) /\ invoices'[i] = invoices[i] /\ status'[invoices[i].part] # None
               \/ /\ status'[invoices'[i].part] # None
                  /\ i \in used
                  /\ UploadUrl(invoices'[i].url) \/ UpdateUrl(invoices'[i].url)
    <3>1. CASE i = k.invoice
      BY <2>1, <2>3, <2>4, <3>1
    <3>2. CASE i # k.invoice
      BY <1>0, <2>3, <2>6, <3>2 DEF Stored
    <3>3. QED
      BY <3>1, <3>2
  <2>7. QED
    BY <1>0, <2>2, <2>3, <2>5, <2>6, StepTypes

<1>12. ASSUME NEW c \in Calls, ReplaceFile(c) PROVE Types'
  <2>1. PICK i \in Invoices, s \in 0 .. MaxSeconds :
          /\ s = now /\ Stored(i)
          /\ Enter(c, [Idle EXCEPT !.pc = "replaced", !.part = invoices[i].part,
                                   !.invoice = i,
                                   !.url = Url("amazon", Key("update", invoices[i].part, s))])
          /\ bucket' = [k \in (DOMAIN bucket \cup {ConstantKey})
                               \ {KeyInUrl(invoices[i].url)} |->
                          IF k = ConstantKey THEN i ELSE bucket[k]]
          /\ UNCHANGED <<rows, used, now, collided, overlapped, crashes>>
    BY <1>12 DEF ReplaceFile
  <2>2. PICK p \in Parts : p = invoices[i].part
    BY <2>1 DEF InvoiceRow, Stored
  <2> DEFINE url == Url("amazon", Key("update", p, s))
             new == [Idle EXCEPT !.pc = "replaced", !.part = p, !.invoice = i, !.url = url]
  <2>3. UpdateUrl(url) /\ url \in Urls
    BY KeyTypes DEF UpdateUrl
  <2>4. Enter(c, new)
    BY <2>1, <2>2
  <2> HIDE DEF url
  <2>5. p \in used' /\ i \in used'
    BY <1>0, <2>1, <2>2
  <2>6. new \in CallRow /\ CallOK(new)'
    <3>1. /\ new.pc = "replaced" /\ new.part = p /\ new.invoice = i /\ new.url = url
          /\ new.from = None /\ new.to = None
      BY Zenon DEF Idle
    <3>0. new \in CallRow
      BY <2>3 DEF Idle, CallRow, Pcs
    <3>2. PICK u \in Urls : u = url
      BY <2>3
    <3>3. QED
      BY <2>3, <2>5, <3>0, <3>1, <3>2, BegunOK DEF Pcs, OnInvoice, OnStatus
  <2> HIDE DEF new
  <2>7. \A k \in DOMAIN bucket' : k \in Keys /\ bucket'[k] \in Invoices
    BY <1>0, <2>1, KeyTypes
  <2>8. QED
    BY <1>0, <2>1, <2>4, <2>6, <2>7, EnterTypes
<1>13. ASSUME NEW c \in Calls, CommitUrl(c) PROVE Types'
  <2> DEFINE k == call[c]
             new == [k EXCEPT !.pc = "record updated"]
             row == [invoices[k.invoice] EXCEPT !.url = k.url]
  <2>1. /\ k \in CallRow /\ k.invoice \in Invoices /\ UpdateUrl(k.url) /\ k.url \in Urls
        /\ Stored(k.invoice) /\ invoices[k.invoice] \in InvoiceRow
    BY <1>13, KeyTypes DEF CommitUrl, CallOK, OnInvoice, Stored
  <2>2. new \in CallRow /\ CallOK(new)
    BY <1>13, KeptOK DEF CommitUrl, Pcs, OnInvoice, OnStatus
  <2>3. Become(c, new) /\ UNCHANGED <<status, history, bucket, collided, overlapped, bounds>>
        /\ invoices' = [invoices EXCEPT ![k.invoice] = row]
    BY <1>13 DEF CommitUrl
  <2>4. row \in InvoiceRow /\ row.part = invoices[k.invoice].part /\ row.url = k.url
    BY <2>1 DEF InvoiceRow, Urls
  <2> HIDE DEF k, new, row
  <2>5. invoices' \in [Invoices -> InvoiceRow \cup {None}]
    BY <2>3, <2>4
  <2>6. ASSUME NEW i \in Invoices, Stored(i)'
        PROVE  \/ Stored(i) /\ invoices'[i] = invoices[i] /\ status'[invoices[i].part] # None
               \/ /\ status'[invoices'[i].part] # None
                  /\ i \in used
                  /\ UploadUrl(invoices'[i].url) \/ UpdateUrl(invoices'[i].url)
    <3>1. CASE i = k.invoice
      BY <1>0, <2>1, <2>3, <2>4, <3>1
    <3>2. CASE i # k.invoice
      BY <1>0, <2>3, <2>6, <3>2 DEF Stored
    <3>3. QED
      BY <3>1, <3>2
  <2>7. QED
    BY <1>0, <2>2, <2>3, <2>5, <2>6, StepTypes
<1>14. ASSUME NEW c \in Calls, RemoveFile(c) PROVE Types'
  <2>1. PICK i \in Invoices :
          /\ Stored(i)
          /\ Enter(c, [Idle EXCEPT !.pc = "removing", !.part = invoices[i].part,
                                   !.invoice = i])
          /\ bucket' = [k \in DOMAIN bucket \ {KeyInUrl(invoices[i].url)} |-> bucket[k]]
          /\ UNCHANGED <<rows, used, now, collided, overlapped, crashes>>
    BY <1>14 DEF RemoveFile
  <2>2. PICK p \in Parts : p = invoices[i].part
    BY <2>1 DEF InvoiceRow, Stored
  <2> DEFINE new == [Idle EXCEPT !.pc = "removing", !.part = p, !.invoice = i]
  <2>3. Enter(c, new)
    BY <2>1, <2>2
  <2>4. p \in used' /\ i \in used'
    BY <1>0, <2>1, <2>2
  <2>5. new \in CallRow /\ CallOK(new)'
    BY <2>4 DEF Idle, CallRow, Pcs, CallOK, OnInvoice, OnStatus
  <2> HIDE DEF new
  <2>6. \A k \in DOMAIN bucket' : k \in Keys /\ bucket'[k] \in Invoices
    BY <1>0, <2>1
  <2>7. QED
    BY <1>0, <2>1, <2>3, <2>5, <2>6, EnterTypes
<1>15. ASSUME NEW c \in Calls, RecordRemoval(c) PROVE Types'
  <2> DEFINE new == [call[c] EXCEPT !.pc = "removed"]
  <2>1. new \in CallRow /\ CallOK(new)
    BY <1>15, KeptOK DEF RecordRemoval, Pcs, OnInvoice, OnStatus
  <2>2. call[c].part \in Parts /\ call[c].invoice \in Invoices
    BY <1>15 DEF RecordRemoval, CallOK, OnInvoice
  <2>3. <<"deleted", call[c].invoice>> \in HistoryRow
    BY <2>2 DEF HistoryRow
  <2>4. Become(c, new)
    BY <1>15 DEF RecordRemoval
  <2> HIDE DEF new
  <2>5. QED
    BY <1>6, <1>15, <2>1, <2>2, <2>3, <2>4 DEF RecordRemoval
<1>16. ASSUME NEW c \in Calls, DeleteInvoice(c) PROVE Types'
  <2>1. /\ call[c].invoice \in Invoices /\ Become(c, Idle)
        /\ invoices' = [invoices EXCEPT ![call[c].invoice] = None]
        /\ UNCHANGED <<status, history, bucket, collided, overlapped, bounds>>
    BY <1>16 DEF DeleteInvoice, CallOK, OnInvoice
  <2>2. /\ invoices' \in [Invoices -> InvoiceRow \cup {None}]
        /\ \A i \in Invoices : Stored(i)' => Stored(i) /\ invoices'[i] = invoices[i]
    BY <2>1 DEF Stored
  <2>3. QED
    BY <1>0, <2>1, <2>2, IdleOK, StepTypes
<1>17. ASSUME NEW c \in Calls, RecordInvoice(c) PROVE Types'
  <2> DEFINE row == <<IF call[c].pc = "record uploaded" THEN "uploaded" ELSE "updated",
                      call[c].invoice>>
  <2>1. call[c].part \in Parts /\ call[c].invoice \in Invoices
    BY <1>17 DEF RecordInvoice, CallOK, OnInvoice
  <2>2. row \in HistoryRow
    BY <2>1 DEF HistoryRow
  <2>3. Record(call[c].part, row)
    BY <1>17 DEF RecordInvoice
  <2> HIDE DEF row
  <2>4. QED
    BY <1>6, <1>17, <2>1, <2>2, <2>3, IdleOK DEF RecordInvoice
<1>18. ASSUME NEW c \in Calls, Refused(c) PROVE Types'
  <2>1. Become(c, Idle) /\ UNCHANGED <<rows, bucket, collided, overlapped, bounds>>
    BY <1>18 DEF Refused
  <2>2. QED
    BY <1>0, <2>1, IdleOK, StepTypes DEF Stored
<1>19. ASSUME NEW c \in Calls, Crash(c) PROVE Types'
  <2>1. /\ call' = [call EXCEPT ![c] = Idle]
        /\ UNCHANGED <<rows, bucket, used, now, collided, overlapped, calls>>
        /\ crashes < MaxCrashes /\ crashes' = crashes + 1
    BY <1>19 DEF Crash, Become
  <2>2. crashes' \in 0 .. MaxCrashes
    BY <1>0, <2>1
  <2>3. CallOK(Idle)'
    BY DEF CallOK, Idle, OnInvoice, OnStatus
  <2>4. call' \in [Calls -> CallRow] /\ \A d \in Calls : CallOK(call[d])'
    BY <2>1, <2>3, IdleOK, BecomeTypes
  <2>5. QED
    BY <1>0, <2>1, <2>2, <2>4, CallTypes
<1>20. CASE Tick
  <2>1. now' \in 0 .. MaxSeconds
    BY <1>20 DEF Tick
  <2>2. \A d \in Calls : CallOK(call[d])'
    BY <1>20 DEF Tick, CallOK
  <2>3. \A i \in Invoices : Stored(i)' <=> Stored(i)
    BY <1>20 DEF Tick, Stored
  <2>4. QED
    BY <1>0, <1>20, <2>1, <2>2, <2>3, KeepTypes DEF Tick
<1>21. CASE UNCHANGED vars
  <2>1. \A d \in Calls : CallOK(call[d])'
    BY <1>21 DEF vars, CallOK
  <2>2. QED
    BY <1>0, <1>21, <2>1, CallTypes DEF vars
<1>22. QED
  BY <1>1, <1>2, <1>3, <1>4, <1>5, <1>7, <1>8, <1>9, <1>10, <1>11, <1>12, <1>13, <1>14,
     <1>15, <1>16, <1>17, <1>18, <1>19, <1>20, <1>21 DEF Next

\* TypeOK: rows, files and calls stay well formed, an invoice has its part, and a part
\* that is gone has no history, through all interleavings, refusals and crashes.
THEOREM TypeCorrect == Spec => []TypeOK
<1>1. Types /\ [Next]_vars => Types'
  BY StepKeepsTypes
<1>2. Types => TypeOK
  BY DEF Types
<1>3. QED
  BY <1>1, <1>2, InitTypes, PTL DEF Spec

-----------------------------------------------------------------------------
(* The file behind an invoice                                              *)

\* The object under the key of url was stored for i.
Holds(url, i) == url.key \in DOMAIN bucket /\ bucket[url.key] = i

\* A file is there from before its row is committed.
FileInv ==
  /\ FileBehindInvoice
  /\ \A c \in Calls : call[c].pc = "put" /\ call[c].invoice \notin collided
                       => Holds(call[c].url, call[c].invoice)

\* A step keeps the files when every uploaded file that is there is kept or counted
\* as collided, and rows and calls name files that were there before or are now.
LEMMA KeepFiles ==
  ASSUME Types, FileInv, collided \subseteq collided',
         \A url : UploadUrl(url) /\ url.key \in DOMAIN bucket
                   /\ bucket[url.key] \notin collided'
                   => url.key \in DOMAIN bucket' /\ bucket'[url.key] = bucket[url.key],
         \A i \in Invoices :
           Stored(i)' /\ invoices'[i].url.host = "storage" =>
             \/ Stored(i) /\ invoices'[i].url = invoices[i].url
             \/ \E c \in Calls : /\ call[c].pc = "put" /\ call[c].invoice = i
                                 /\ invoices'[i].url = call[c].url,
         \A c \in Calls :
           call'[c].pc = "put" =>
             \/ call[c] = call'[c]
             \/ /\ call'[c].url.key \in DOMAIN bucket'
                /\ bucket'[call'[c].url.key] = call'[c].invoice
  PROVE  FileInv'
<1>1. ASSUME NEW url, NEW i, UploadUrl(url), i \notin collided', Holds(url, i)
      PROVE  url.key \in DOMAIN bucket' /\ bucket'[url.key] = i
  BY <1>1 DEF Holds
<1>2. ASSUME NEW i \in Invoices, Stored(i)', invoices'[i].url.host = "storage",
             i \notin collided'
      PROVE  /\ invoices'[i].url.key \in DOMAIN bucket'
             /\ bucket'[invoices'[i].url.key] = i
  <2>1. i \notin collided
    BY <1>2
  <2>2. CASE Stored(i) /\ invoices'[i].url = invoices[i].url
    <3>1. Holds(invoices[i].url, i)
      BY <1>2, <2>1, <2>2 DEF FileInv, FileBehindInvoice, Holds
    <3>2. UploadUrl(invoices[i].url)
      <4>1. UploadUrl(invoices[i].url) \/ UpdateUrl(invoices[i].url)
        BY <2>2 DEF Types
      <4>2. ~UpdateUrl(invoices[i].url)
        <5>1. invoices[i].url.host = "storage"
          BY <1>2, <2>2
        <5>2. \A url : UpdateUrl(url) => url.host = "amazon"
          BY DEF UpdateUrl, Url
        <5>3. QED
          BY <5>1, <5>2
      <4>3. QED
        BY <4>1, <4>2
    <3>3. QED
      BY <1>1, <1>2, <2>2, <3>1, <3>2
  <2>3. CASE \E c \in Calls : /\ call[c].pc = "put" /\ call[c].invoice = i
                              /\ invoices'[i].url = call[c].url
    <3>1. PICK c \in Calls : /\ call[c].pc = "put" /\ call[c].invoice = i
                             /\ invoices'[i].url = call[c].url
      BY <2>3
    <3>2. Holds(call[c].url, i) /\ UploadUrl(call[c].url)
      BY <2>1, <3>1, StateTypes DEF FileInv, CallOK
    <3>3. QED
      BY <1>1, <1>2, <3>1, <3>2
  <2>4. QED
    BY <1>2, <2>2, <2>3
<1>3. ASSUME NEW c \in Calls, call'[c].pc = "put", call'[c].invoice \notin collided'
      PROVE  /\ call'[c].url.key \in DOMAIN bucket'
             /\ bucket'[call'[c].url.key] = call'[c].invoice
  <2>1. CASE call[c] = call'[c]
    <3>1. Holds(call[c].url, call[c].invoice) /\ UploadUrl(call[c].url)
      BY <1>3, <2>1, StateTypes DEF FileInv, CallOK
    <3>2. QED
      BY <1>1, <1>3, <2>1, <3>1
  <2>2. QED
    BY <1>3, <2>1
<1>4. FileBehindInvoice'
  BY <1>2 DEF FileBehindInvoice
<1>5. QED
  BY <1>3, <1>4 DEF FileInv, Holds

\* Removing the object a url seems to name removes no uploaded file.
LEMMA UploadsRemain ==
  ASSUME NEW old, UploadUrl(old) \/ UpdateUrl(old), NEW url, UploadUrl(url)
  PROVE  url.key # KeyInUrl(old) /\ url.key # ConstantKey
<1>1. PICK p \in Parts, s \in 0 .. MaxSeconds : url = Url("storage", Key("upload", p, s))
  BY DEF UploadUrl
<1>2. url.key = <<"upload", p, s>>
  BY <1>1 DEF Url, Key
<1>3. url.key[1] = "upload"
  BY <1>2
<1>4. ConstantKey[1] = "my-inventory-bucket"
  BY DEF ConstantKey, Key
<1>5. KeyInUrl(old)[1] \in {"url", "update"}
  <2>1. CASE UploadUrl(old)
    <3>1. PICK q \in Parts, t \in 0 .. MaxSeconds :
            old = Url("storage", Key("upload", q, t))
      BY <2>1 DEF UploadUrl
    <3>2. old.host = "storage"
      BY <3>1 DEF Url
    <3>3. KeyInUrl(old) = <<"url", old.key[2], old.key[3]>>
      BY <3>2 DEF KeyInUrl, Key
    <3>4. QED
      BY <3>3
  <2>2. CASE UpdateUrl(old)
    <3>1. PICK q \in Parts, t \in 0 .. MaxSeconds :
            old = Url("amazon", Key("update", q, t))
      BY <2>2 DEF UpdateUrl
    <3>2. old.host = "amazon" /\ old.key = <<"update", q, t>>
      BY <3>1 DEF Url, Key
    <3>3. KeyInUrl(old) = old.key
      BY <3>2 DEF KeyInUrl
    <3>4. QED
      BY <3>2, <3>3
  <2>3. QED
    BY <2>1, <2>2
<1>6. QED
  BY <1>3, <1>4, <1>5

\* A step that leaves the bucket alone and gives no new url of an uploaded file.
LEMMA SameFiles ==
  ASSUME Types, FileInv, UNCHANGED <<bucket, collided>>, NEW c \in Calls, NEW new,
         new.pc # "put", call' = [call EXCEPT ![c] = new],
         \A i \in Invoices :
           Stored(i)' /\ invoices'[i].url.host = "storage" =>
             \/ Stored(i) /\ invoices'[i].url = invoices[i].url
             \/ \E d \in Calls : /\ call[d].pc = "put" /\ call[d].invoice = i
                                 /\ invoices'[i].url = call[d].url
  PROVE  FileInv'
<1>1. \A d \in Calls : call'[d].pc = "put" => call[d] = call'[d]
  BY StateTypes
<1>2. QED
  BY <1>1, KeepFiles

\* A step of the system keeps the files.
LEMMA StepKeepsFiles ==
  ASSUME Types, FileInv, [Next]_vars
  PROVE  FileInv'
<1> USE StateTypes
<1>1. ASSUME NEW c \in Calls, UploadFile(c) PROVE FileInv'
  <2>1. PICK p \in Parts, i \in Invoices \ used, s \in 0 .. MaxSeconds :
          /\ Enter(c, [Idle EXCEPT !.pc = "put", !.part = p, !.invoice = i,
                                   !.url = Url("storage", Key("upload", p, s))])
          /\ Put(Key("upload", p, s), i)
          /\ Key("upload", p, s) \in DOMAIN bucket =>
               collided' = collided \cup {bucket[Key("upload", p, s)]}
          /\ Key("upload", p, s) \notin DOMAIN bucket => collided' = collided
          /\ UNCHANGED invoices
    BY <1>1 DEF UploadFile
  <2> DEFINE key == Key("upload", p, s)
             new == [Idle EXCEPT !.pc = "put", !.part = p, !.invoice = i,
                                 !.url = Url("storage", key)]
  <2>2. new.pc = "put" /\ new.url.key = key /\ new.invoice = i
    BY DEF Idle, Url
  <2>3. call' = [call EXCEPT ![c] = new]
    BY <2>1 DEF Enter
  <2>4. /\ DOMAIN bucket' = DOMAIN bucket \cup {key}
        /\ \A k \in DOMAIN bucket' : bucket'[k] = IF k = key THEN i ELSE bucket[k]
        /\ key \in DOMAIN bucket => collided' = collided \cup {bucket[key]}
        /\ key \notin DOMAIN bucket => collided' = collided
    BY <2>1 DEF Put
  <2> HIDE DEF new, key
  <2>5. \A d \in Calls : call'[d].pc = "put" =>
          \/ call[d] = call'[d]
          \/ /\ call'[d].url.key \in DOMAIN bucket'
             /\ bucket'[call'[d].url.key] = call'[d].invoice
    BY <2>2, <2>3, <2>4
  <2>6. \A j \in Invoices : Stored(j)' => Stored(j) /\ invoices'[j].url = invoices[j].url
    BY <2>1 DEF Stored
  <2>7. \A url : UploadUrl(url) /\ url.key \in DOMAIN bucket
                 /\ bucket[url.key] \notin collided'
                 => url.key \in DOMAIN bucket' /\ bucket'[url.key] = bucket[url.key]
    BY <2>4
  <2>8. QED
    BY <2>4, <2>5, <2>6, <2>7, KeepFiles
<1>2. ASSUME NEW c \in Calls, CommitInvoice(c) PROVE FileInv'
  <2> DEFINE k == call[c]
             new == [k EXCEPT !.pc = "record uploaded"]
  <2>1. new.pc # "put" /\ k.pc = "put" /\ k.invoice \in Invoices
    BY <1>2 DEF CommitInvoice, CallRow, CallOK, OnInvoice
  <2>2. /\ call' = [call EXCEPT ![c] = new] /\ UNCHANGED <<bucket, collided>>
        /\ invoices' = [invoices EXCEPT ![k.invoice] = [part |-> k.part, url |-> k.url]]
    BY <1>2 DEF CommitInvoice, Become
  <2> HIDE DEF new
  <2>3. \A i \in Invoices : Stored(i)' =>
          \/ Stored(i) /\ invoices'[i].url = invoices[i].url
          \/ \E d \in Calls : /\ call[d].pc = "put" /\ call[d].invoice = i
                              /\ invoices'[i].url = call[d].url
    BY <2>1, <2>2 DEF Stored
  <2>4. QED
    BY <2>1, <2>2, <2>3, SameFiles
<1>3. ASSUME NEW c \in Calls, ReplaceFile(c) PROVE FileInv'
  <2>1. PICK i \in Invoices :
          /\ Stored(i)
          /\ Enter(c, [Idle EXCEPT !.pc = "replaced", !.part = invoices[i].part,
                         !.invoice = i,
                         !.url = Url("amazon", Key("update", invoices[i].part, now))])
          /\ bucket' = [k \in (DOMAIN bucket \cup {ConstantKey})
                               \ {KeyInUrl(invoices[i].url)} |->
                          IF k = ConstantKey THEN i ELSE bucket[k]]
          /\ UNCHANGED <<invoices, collided>>
    BY <1>3 DEF ReplaceFile
  <2>2. UploadUrl(invoices[i].url) \/ UpdateUrl(invoices[i].url)
    BY <2>1 DEF Types
  <2>3. \A url : UploadUrl(url) /\ url.key \in DOMAIN bucket
                 => url.key \in DOMAIN bucket' /\ bucket'[url.key] = bucket[url.key]
    BY <2>1, <2>2, UploadsRemain
  <2>5. \A d \in Calls : call'[d].pc = "put" => call[d] = call'[d]
    BY <2>1 DEF Enter, Idle
  <2>6. \A j \in Invoices : Stored(j)' => Stored(j) /\ invoices'[j].url = invoices[j].url
    BY <2>1 DEF Stored
  <2>7. QED
    BY <2>1, <2>3, <2>5, <2>6, KeepFiles
<1>4. ASSUME NEW c \in Calls, RemoveFile(c) PROVE FileInv'
  <2>1. PICK i \in Invoices :
          /\ Stored(i)
          /\ Enter(c, [Idle EXCEPT !.pc = "removing", !.part = invoices[i].part,
                                   !.invoice = i])
          /\ bucket' = [k \in DOMAIN bucket \ {KeyInUrl(invoices[i].url)} |-> bucket[k]]
          /\ UNCHANGED <<invoices, collided>>
    BY <1>4 DEF RemoveFile
  <2>2. UploadUrl(invoices[i].url) \/ UpdateUrl(invoices[i].url)
    BY <2>1 DEF Types
  <2>3. \A url : UploadUrl(url) /\ url.key \in DOMAIN bucket
                 => url.key \in DOMAIN bucket' /\ bucket'[url.key] = bucket[url.key]
    BY <2>1, <2>2, UploadsRemain
  <2>5. \A d \in Calls : call'[d].pc = "put" => call[d] = call'[d]
    BY <2>1 DEF Enter, Idle
  <2>6. \A j \in Invoices : Stored(j)' => Stored(j) /\ invoices'[j].url = invoices[j].url
    BY <2>1 DEF Stored
  <2>7. QED
    BY <2>1, <2>3, <2>5, <2>6, KeepFiles
<1>5. ASSUME NEW c \in Calls, CommitUrl(c) PROVE FileInv'
  <2> DEFINE k == call[c]
             new == [k EXCEPT !.pc = "record updated"]
             row == [invoices[k.invoice] EXCEPT !.url = k.url]
  <2>1. /\ new.pc # "put" /\ k.invoice \in Invoices /\ UpdateUrl(k.url)
        /\ invoices[k.invoice] \in InvoiceRow
    BY <1>5 DEF CommitUrl, CallRow, CallOK, OnInvoice, Stored
  <2>2. /\ call' = [call EXCEPT ![c] = new] /\ UNCHANGED <<bucket, collided>>
        /\ invoices' = [invoices EXCEPT ![k.invoice] = row]
    BY <1>5 DEF CommitUrl, Become
  <2>3. row.url = k.url
    BY <2>1 DEF InvoiceRow
  <2>4. row.url.host # "storage"
    BY <2>1, <2>3 DEF UpdateUrl, Url
  <2> HIDE DEF new, row
  <2>5. \A i \in Invoices : Stored(i)' /\ invoices'[i].url.host = "storage" =>
          Stored(i) /\ invoices'[i].url = invoices[i].url
    BY <2>1, <2>2, <2>4 DEF Stored
  <2>6. QED
    BY <2>1, <2>2, <2>5, SameFiles
<1>7. ASSUME NEW c \in Calls,
             \/ CreatePart(c) \/ UpdatePart(c) \/ ReadStatus(c) \/ CommitStatus(c)
             \/ RecordStatus(c) \/ RecordEdit(c) \/ RecordPartDeletion(c)
             \/ RecordRemoval(c) \/ RecordInvoice(c) \/ Refused(c) \/ Crash(c)
      PROVE  FileInv'
  <2>1. UNCHANGED <<invoices, bucket, collided>>
    BY <1>7 DEF CreatePart, UpdatePart, ReadStatus, CommitStatus, RecordStatus,
                RecordEdit, RecordPartDeletion, RecordRemoval, RecordInvoice, Refused, Crash
  <2>2. \A d \in Calls : call'[d].pc = "put" => call[d] = call'[d]
    <3>1. CASE CreatePart(c)
      BY <3>1 DEF CreatePart, Enter, Idle
    <3>2. CASE UpdatePart(c)
      BY <3>2 DEF UpdatePart, Enter, Idle
    <3>3. CASE ReadStatus(c)
      BY <3>3 DEF ReadStatus, Enter, Idle
    <3>4. CASE CommitStatus(c)
      BY <3>4 DEF CommitStatus, Become, CallRow
    <3>5. CASE RecordPartDeletion(c)
      BY <3>5 DEF RecordPartDeletion, Enter, Idle
    <3>6. CASE RecordRemoval(c)
      BY <3>6 DEF RecordRemoval, Become, CallRow
    <3>7. CASE RecordStatus(c) \/ RecordEdit(c) \/ RecordInvoice(c) \/ Refused(c) \/ Crash(c)
      <4>1. call' = [call EXCEPT ![c] = Idle] /\ Idle.pc = "idle"
        BY <3>7 DEF RecordStatus, RecordEdit, RecordInvoice, Refused, Crash, Become, Idle
      <4>2. QED
        BY <4>1
    <3>8. QED
      BY <1>7, <3>1, <3>2, <3>3, <3>4, <3>5, <3>6, <3>7
  <2>3. \A i \in Invoices : Stored(i)' => Stored(i) /\ invoices'[i].url = invoices[i].url
    BY <2>1 DEF Stored
  <2>4. QED
    BY <2>1, <2>2, <2>3, KeepFiles
<1>8. ASSUME NEW c \in Calls, DeletePart(c) \/ DeleteInvoice(c) PROVE FileInv'
  <2>1. call' = [call EXCEPT ![c] = Idle] /\ Idle.pc # "put" /\ UNCHANGED <<bucket, collided>>
    BY <1>8 DEF DeletePart, DeleteInvoice, Become, Idle
  <2>2. \A i \in Invoices : invoices'[i] = invoices[i] \/ invoices'[i] = None
    BY <1>8 DEF DeletePart, DeleteInvoice, InvoicesWithout
  <2>3. \A i \in Invoices : Stored(i)' => Stored(i) /\ invoices'[i].url = invoices[i].url
    BY <2>2 DEF Stored
  <2>4. QED
    BY <2>1, <2>3, SameFiles
<1>9. CASE Tick \/ UNCHANGED vars
  <2>1. UNCHANGED <<invoices, bucket, collided, call>>
    BY <1>9 DEF Tick, vars
  <2>2. \A i \in Invoices : Stored(i)' => Stored(i)
    BY <2>1 DEF Stored
  <2>3. QED
    BY <2>1, <2>2, KeepFiles
<1>10. QED
  BY <1>1, <1>2, <1>3, <1>4, <1>5, <1>7, <1>8, <1>9 DEF Next

\* FileBehindInvoice: no deletion of an invoice or a part, finished or not, takes away
\* the file of an uploaded invoice whose row is there.
THEOREM UploadedFilesStay == Spec => []FileBehindInvoice
<1>1. Init => FileInv
  BY DEF Init, FileInv, FileBehindInvoice, Stored, Idle
<1>2. Types /\ FileInv /\ [Next]_vars => FileInv'
  BY StepKeepsFiles
<1>3. FileInv => FileBehindInvoice
  BY DEF FileInv
<1>4. Types /\ [Next]_vars => Types'
  BY StepKeepsTypes
<1>5. QED
  BY <1>1, <1>2, <1>3, <1>4, InitTypes, PTL DEF Spec

-----------------------------------------------------------------------------
(* Deletions on record                                                     *)

Uploaded(p, i) == <<"uploaded", i>> \in history[p].rows
Deleted(p, i) == <<"deleted", i>> \in history[p].rows

\* i belongs, or has belonged, to p: a call is about it, its row says so, or the
\* history of p.
Owns(p, i) == \/ \E c \in Calls : call[c].invoice = i /\ call[c].part = p
              \/ Stored(i) /\ invoices[i].part = p
              \/ Uploaded(p, i)

\* The deletion of i is on record with its part, unless the part is gone as well.
Gone(p, i) == Deleted(p, i) \/ status[p] = None

\* An invoice belongs to one part for good, and its deletion is on record before it
\* happens, also where its upload is put on record after that.
DeletionInv ==
  /\ \A p, q \in Parts, i \in Invoices : Owns(p, i) /\ Owns(q, i) => p = q
  /\ \A p \in Parts, i \in Invoices : Owns(p, i) => i \in used
  /\ InvoiceDeletionRecorded
  /\ \A c \in Calls :
       /\ call[c].pc = "record uploaded" /\ ~Stored(call[c].invoice)
            => Gone(call[c].part, call[c].invoice)
       /\ call[c].pc = "removed" => Gone(call[c].part, call[c].invoice)

\* What a call under way is about.
LEMMA CallOwns ==
  ASSUME Types, NEW c \in Calls, call[c].pc \in OnInvoice
  PROVE  /\ call[c].part \in Parts /\ call[c].part \in used
         /\ call[c].invoice \in Invoices /\ Owns(call[c].part, call[c].invoice)
BY StateTypes DEF CallOK, Owns, OnInvoice

\* What the history has on record of a part stays while its row does, and a part
\* that is gone does not come back.
LEMMA GoneStays ==
  ASSUME Types, NEW p \in Parts, p \in used, NEW i,
         history[p].rows \subseteq history'[p].rows \/ status'[p] = None,
         status[p] = None => status'[p] = None,
         Gone(p, i)
  PROVE  Gone(p, i)'
BY DEF Gone, Deleted

\* A part without a row has nothing on record.
LEMMA NoRows ==
  ASSUME Types, NEW p \in Parts, status[p] = None
  PROVE  history[p].rows = {}
BY DEF Types, NoHistory

\* A step that gives no invoice away but a new one, to the part q, keeps DeletionInv
\* when each invoice that is gone, or comes on record, is accounted for.
LEMMA KeepDeletions ==
  ASSUME Types, DeletionInv, used \subseteq used',
         NEW q \in Parts \cup {None},
         \A p \in Parts, i \in Invoices :
           Owns(p, i)' => Owns(p, i) \/ (p = q /\ i \notin used /\ i \in used'),
         \A p \in Parts : p \in used =>
           /\ history[p].rows \subseteq history'[p].rows \/ status'[p] = None
           /\ status[p] = None => status'[p] = None,
         \A p \in Parts : status'[p] = None => history'[p].rows = {},
         \A p \in Parts, i \in Invoices :
           Uploaded(p, i)' =>
             \/ Uploaded(p, i)
             \/ \E c \in Calls : /\ call[c].pc = "record uploaded"
                                 /\ call[c].part = p /\ call[c].invoice = i,
         \A p \in Parts, i \in Invoices :
           Owns(p, i) /\ Stored(i) => Stored(i)' \/ Gone(p, i)',
         \A c \in Calls :
           /\ call'[c].pc = "record uploaded" =>
                \/ call[c] = call'[c]
                \/ Stored(call[c].invoice)'
           /\ call'[c].pc = "removed" =>
                \/ call[c] = call'[c]
                \/ Gone(call[c].part, call[c].invoice)'
  PROVE  DeletionInv'
<1>1. ASSUME NEW p \in Parts, NEW i \in Invoices, p \in used, Gone(p, i)
      PROVE  Gone(p, i)'
  BY <1>1, GoneStays
<1>2. \A p, r \in Parts, i \in Invoices : (Owns(p, i) /\ Owns(r, i))' => p = r
  BY DEF DeletionInv
<1>3. \A p \in Parts, i \in Invoices : Owns(p, i)' => i \in used'
  BY DEF DeletionInv
<1>4. ASSUME NEW p \in Parts, NEW i \in Invoices,
             Uploaded(p, i)', ~Stored(i)'
      PROVE  Deleted(p, i)'
  <2>1. status'[p] # None
    BY <1>4 DEF Uploaded
  <2>0. \/ Uploaded(p, i)
        \/ \E c \in Calls : /\ call[c].pc = "record uploaded"
                            /\ call[c].part = p /\ call[c].invoice = i
    BY <1>4
  <2>2. Owns(p, i)
    BY <2>0 DEF Owns
  <2>3. CASE Stored(i)
    BY <1>4, <2>1, <2>2, <2>3 DEF Gone
  <2>4. CASE ~Stored(i) /\ Uploaded(p, i)
    <3>1. Gone(p, i)
      BY <2>4 DEF DeletionInv, InvoiceDeletionRecorded, Gone, Uploaded, Deleted
    <3>2. p \in used
      <4>1. status[p] # None
        BY <2>4, NoRows DEF Uploaded
      <4>2. QED
        BY <4>1 DEF Types
    <3>3. QED
      BY <1>1, <2>1, <3>1, <3>2 DEF Gone
  <2>5. CASE ~Stored(i) /\ ~Uploaded(p, i)
    <3>1. PICK c \in Calls : /\ call[c].pc = "record uploaded"
                             /\ call[c].part = p /\ call[c].invoice = i
      BY <2>0, <2>5
    <3>2. Gone(p, i)
      BY <2>5, <3>1 DEF DeletionInv
    <3>3. p \in used
      BY <3>1, CallOwns DEF OnInvoice
    <3>4. QED
      BY <1>1, <2>1, <3>2, <3>3 DEF Gone
  <2>6. QED
    BY <2>3, <2>4, <2>5
<1>5. ASSUME NEW c \in Calls, call'[c].pc = "record uploaded", ~Stored(call[c].invoice)'
      PROVE  Gone(call[c].part, call[c].invoice)'
  <2>1. call[c] = call'[c]
    BY <1>5
  <2>2. /\ call[c].part \in Parts /\ call[c].part \in used
        /\ call[c].invoice \in Invoices /\ Owns(call[c].part, call[c].invoice)
    BY <1>5, <2>1, CallOwns DEF OnInvoice
  <2>3. CASE Stored(call[c].invoice)
    <3>1. Stored(call[c].invoice)' \/ Gone(call[c].part, call[c].invoice)'
      <4>1. PICK p \in Parts, i \in Invoices : p = call[c].part /\ i = call[c].invoice
        BY <2>2
      <4>2. Stored(i)' \/ Gone(p, i)'
        BY <2>2, <2>3, <4>1
      <4>3. QED
        BY <2>1, <4>1, <4>2 DEF Stored, Gone, Deleted
    <3>2. QED
      BY <1>5, <3>1
  <2>4. CASE ~Stored(call[c].invoice)
    <3>1. PICK p \in Parts, i \in Invoices : p = call[c].part /\ i = call[c].invoice
      BY <2>2
    <3>2. Gone(p, i)
      BY <1>5, <2>1, <2>4, <3>1 DEF DeletionInv
    <3>3. Gone(p, i)'
      BY <1>1, <2>2, <3>1, <3>2
    <3>4. QED
      BY <2>1, <3>1, <3>3 DEF Gone, Deleted
  <2>5. QED
    BY <2>3, <2>4
<1>6. ASSUME NEW c \in Calls, call'[c].pc = "removed"
      PROVE  Gone(call[c].part, call[c].invoice)'
  <2>1. CASE call[c] = call'[c]
    <3>1. /\ call[c].part \in Parts /\ call[c].part \in used
          /\ call[c].invoice \in Invoices
      BY <1>6, <2>1, CallOwns DEF OnInvoice
    <3>2. PICK p \in Parts, i \in Invoices : p = call[c].part /\ i = call[c].invoice
      BY <3>1
    <3>3. Gone(p, i)
      BY <1>6, <2>1, <3>2 DEF DeletionInv
    <3>4. Gone(p, i)'
      BY <1>1, <3>1, <3>2, <3>3
    <3>5. QED
      BY <2>1, <3>2, <3>4 DEF Gone, Deleted
  <2>2. QED
    BY <1>6, <2>1
<1>7. InvoiceDeletionRecorded'
  BY <1>4 DEF InvoiceDeletionRecorded, Uploaded, Deleted
<1>8. (\A c \in Calls :
         /\ call[c].pc = "record uploaded" /\ ~Stored(call[c].invoice)
              => Gone(call[c].part, call[c].invoice)
         /\ call[c].pc = "removed" => Gone(call[c].part, call[c].invoice))'
  BY <1>5, <1>6
<1>9. QED
  BY <1>2, <1>3, <1>7, <1>8 DEF DeletionInv

\* A step that changes no invoice and records nothing of one keeps DeletionInv.
LEMMA NoInvoiceTouched ==
  ASSUME Types, DeletionInv, Types', UNCHANGED invoices, used \subseteq used',
         \A p \in Parts : p \in used => (status[p] = None => status'[p] = None),
         \A p \in Parts :
           /\ history[p].rows \subseteq history'[p].rows
           /\ \A i \in Invoices : Uploaded(p, i)' => Uploaded(p, i),
         NEW c \in Calls, NEW new, call' = [call EXCEPT ![c] = new],
         new.pc \notin {"record uploaded", "removed"},
         \A i \in Invoices : new.invoice = i => Owns(new.part, i)
  PROVE  DeletionInv'
<1>1. ASSUME NEW p \in Parts, NEW i \in Invoices, Owns(p, i)'
      PROVE  Owns(p, i)
  <2>1. CASE \E d \in Calls : call'[d].invoice = i /\ call'[d].part = p
    <3>1. PICK d \in Calls : call'[d].invoice = i /\ call'[d].part = p
      BY <2>1
    <3>2. CASE d = c
      BY <3>1, <3>2, StateTypes
    <3>3. CASE d # c
      <4>1. call'[d] = call[d]
        BY <3>3, StateTypes
      <4>2. QED
        BY <3>1, <4>1 DEF Owns
    <3>4. QED
      BY <3>2, <3>3
  <2>2. CASE Stored(i)' /\ invoices'[i].part = p
    BY <2>2 DEF Owns, Stored
  <2>3. CASE Uploaded(p, i)'
    BY <2>3 DEF Owns
  <2>4. QED
    BY <1>1, <2>1, <2>2, <2>3 DEF Owns
<1>2. \A p \in Parts : status'[p] = None => history'[p].rows = {}
  <2>1. \A p \in Parts : status'[p] = None => history'[p] = NoHistory
    BY DEF Types
  <2>2. NoHistory.rows = {}
    BY DEF NoHistory
  <2>3. QED
    BY <2>1, <2>2
<1>3. \A d \in Calls : call'[d].pc \in {"record uploaded", "removed"} => call'[d] = call[d]
  BY StateTypes
<1>4. \A i \in Invoices : Stored(i)' <=> Stored(i)
  BY DEF Stored
<1>5. QED
  BY <1>1, <1>2, <1>3, <1>4, KeepDeletions

\* A step of the system keeps DeletionInv.
LEMMA StepKeepsDeletions ==
  ASSUME Types, DeletionInv, [Next]_vars
  PROVE  DeletionInv'
<1> USE StateTypes
<1>0. Types'
  BY StepKeepsTypes
<1>1. ASSUME NEW c \in Calls, CreatePart(c) \/ UpdatePart(c) \/ ReadStatus(c) \/ CommitStatus(c)
                              \/ RecordStatus(c) \/ RecordEdit(c) \/ RecordPartDeletion(c)
                              \/ ReplaceFile(c) \/ RemoveFile(c) \/ Refused(c) \/ Crash(c)
      PROVE  DeletionInv'
  <2>1. UNCHANGED invoices /\ used \subseteq used'
    BY <1>1 DEF CreatePart, UpdatePart, ReadStatus, CommitStatus, RecordStatus, RecordEdit,
                RecordPartDeletion, ReplaceFile, RemoveFile, Refused, Crash
  <2>2. \A p \in Parts : p \in used => (status[p] = None => status'[p] = None)
    <3>1. CASE CreatePart(c)
      BY <3>1 DEF CreatePart
    <3>2. CASE CommitStatus(c)
      <4>1. /\ call[c].part \in Parts /\ status[call[c].part] # None
            /\ status' \in {status, [status EXCEPT ![call[c].part] = call[c].to]}
        BY <3>2 DEF CommitStatus, CallOK
      <4>2. QED
        BY <4>1
    <3>3. QED
      BY <1>1, <3>1, <3>2 DEF UpdatePart, ReadStatus, RecordStatus, RecordEdit,
              RecordPartDeletion, ReplaceFile, RemoveFile, Refused, Crash
  <2>3. \A p \in Parts : /\ history[p].rows \subseteq history'[p].rows
                         /\ \A i \in Invoices : Uploaded(p, i)' => Uploaded(p, i)
    <3>1. CASE RecordStatus(c)
      <4>1. \A p \in Parts : history'[p].rows = history[p].rows
        BY <3>1 DEF RecordStatus, HistoryOfPart
      <4>2. QED
        BY <4>1 DEF Uploaded
    <3>2. ASSUME NEW q \in Parts, NEW row \in HistoryRow, row[1] # "uploaded",
                 status[q] # None, Record(q, row)
          PROVE  \A p \in Parts : /\ history[p].rows \subseteq history'[p].rows
                                  /\ \A i \in Invoices : Uploaded(p, i)' => Uploaded(p, i)
      <4>1. \A p \in Parts : history'[p].rows \in {history[p].rows, history[p].rows \cup {row}}
        BY <3>2, RecordTypes
      <4>2. \A i \in Invoices : <<"uploaded", i>> # row
        BY <3>2
      <4>3. QED
        BY <4>1, <4>2 DEF Uploaded
    <3>3. CASE RecordEdit(c)
      <4>1. <<"edited", None>> \in HistoryRow /\ <<"edited", None>>[1] # "uploaded"
        BY DEF HistoryRow
      <4>2. call[c].part \in Parts
        BY <3>3 DEF RecordEdit, CallOK
      <4>3. QED
        BY <3>2, <3>3, <4>1, <4>2 DEF RecordEdit
    <3>4. CASE RecordPartDeletion(c)
      <4>1. <<"part deleted", None>> \in HistoryRow /\ <<"part deleted", None>>[1] # "uploaded"
        BY DEF HistoryRow
      <4>2. QED
        BY <3>2, <3>4, <4>1 DEF RecordPartDeletion
    <3>5. CASE UNCHANGED history
      BY <3>5 DEF Uploaded
    <3>6. QED
      BY <1>1, <3>1, <3>3, <3>4, <3>5 DEF CreatePart, UpdatePart, ReadStatus, CommitStatus,
              ReplaceFile, RemoveFile, Refused, Crash
  <2> DEFINE Rest(new) == /\ call' = [call EXCEPT ![c] = new]
                          /\ new.pc \notin {"record uploaded", "removed"}
                          /\ \A i \in Invoices : new.invoice = i => Owns(new.part, i)
  <2>4. ASSUME NEW new, Rest(new)
        PROVE  DeletionInv'
    BY <1>0, <2>1, <2>2, <2>3, <2>4, NoInvoiceTouched
  <2>5. None \notin Invoices
    BY PartInvoicesAssumption
  <2>6. CASE CreatePart(c)
    <3>1. PICK p : Enter(c, [Idle EXCEPT !.pc = "record edit", !.part = p])
      BY <2>6 DEF CreatePart
    <3> DEFINE new == [Idle EXCEPT !.pc = "record edit", !.part = p]
    <3>2. call' = [call EXCEPT ![c] = new] /\ new.pc = "record edit" /\ new.invoice = None
      BY <3>1 DEF Enter, Idle
    <3> HIDE DEF new
    <3>3. QED
      BY <2>4, <2>5, <3>2
  <2>7. CASE UpdatePart(c)
    <3>1. PICK p : Enter(c, [Idle EXCEPT !.pc = "record edit", !.part = p])
      BY <2>7 DEF UpdatePart
    <3> DEFINE new == [Idle EXCEPT !.pc = "record edit", !.part = p]
    <3>2. call' = [call EXCEPT ![c] = new] /\ new.pc = "record edit" /\ new.invoice = None
      BY <3>1 DEF Enter, Idle
    <3> HIDE DEF new
    <3>3. QED
      BY <2>4, <2>5, <3>2
  <2>8. CASE ReadStatus(c)
    <3>1. PICK p, s : Enter(c, [Idle EXCEPT !.pc = "status", !.part = p, !.from = status[p],
                                            !.to = s])
      BY <2>8 DEF ReadStatus
    <3> DEFINE new == [Idle EXCEPT !.pc = "status", !.part = p, !.from = status[p],
                                            !.to = s]
    <3>2. call' = [call EXCEPT ![c] = new] /\ new.pc = "status" /\ new.invoice = None
      BY <3>1 DEF Enter, Idle
    <3> HIDE DEF new
    <3>3. QED
      BY <2>4, <2>5, <3>2
  <2>9. CASE CommitStatus(c)
    <3> DEFINE new == [call[c] EXCEPT !.pc = "record status"]
    <3>1. new.pc = "record status" /\ new.part = call[c].part /\ new.invoice = call[c].invoice
      BY DEF CallRow
    <3>2. call' = [call EXCEPT ![c] = new]
      BY <2>9 DEF CommitStatus, Become
    <3> HIDE DEF new
    <3>3. QED
      BY <2>4, <3>1, <3>2 DEF Owns
  <2>10. CASE RecordPartDeletion(c)
    <3>1. PICK p : Enter(c, [Idle EXCEPT !.pc = "dropping", !.part = p])
      BY <2>10 DEF RecordPartDeletion
    <3> DEFINE new == [Idle EXCEPT !.pc = "dropping", !.part = p]
    <3>2. call' = [call EXCEPT ![c] = new] /\ new.pc = "dropping" /\ new.invoice = None
      BY <3>1 DEF Enter, Idle
    <3> HIDE DEF new
    <3>3. QED
      BY <2>4, <2>5, <3>2
  <2>11. CASE ReplaceFile(c)
    <3>1. PICK i \in Invoices :
            /\ Stored(i)
            /\ Enter(c, [Idle EXCEPT !.pc = "replaced", !.part = invoices[i].part,
                           !.invoice = i,
                           !.url = Url("amazon", Key("update", invoices[i].part, now))])
      BY <2>11 DEF ReplaceFile
    <3> DEFINE new == [Idle EXCEPT !.pc = "replaced", !.part = invoices[i].part,
                           !.invoice = i,
                           !.url = Url("amazon", Key("update", invoices[i].part, now))]
    <3>2. new.pc = "replaced" /\ new.part = invoices[i].part /\ new.invoice = i
      BY DEF Idle
    <3>3. call' = [call EXCEPT ![c] = new]
      BY <3>1 DEF Enter
    <3> HIDE DEF new
    <3>4. QED
      BY <2>4, <3>1, <3>2, <3>3 DEF Owns
  <2>12. CASE RemoveFile(c)
    <3>1. PICK i \in Invoices :
            /\ Stored(i)
            /\ Enter(c, [Idle EXCEPT !.pc = "removing", !.part = invoices[i].part,
                                     !.invoice = i])
      BY <2>12 DEF RemoveFile
    <3> DEFINE new == [Idle EXCEPT !.pc = "removing", !.part = invoices[i].part,
                                   !.invoice = i]
    <3>2. new.pc = "removing" /\ new.part = invoices[i].part /\ new.invoice = i
      BY DEF Idle
    <3>3. call' = [call EXCEPT ![c] = new]
      BY <3>1 DEF Enter
    <3> HIDE DEF new
    <3>4. QED
      BY <2>4, <3>1, <3>2, <3>3 DEF Owns
  <2>13. CASE RecordStatus(c) \/ RecordEdit(c) \/ Refused(c) \/ Crash(c)
    <3>1. call' = [call EXCEPT ![c] = Idle]
      BY <2>13 DEF RecordStatus, RecordEdit, Refused, Crash, Become
    <3>2. Idle.pc = "idle" /\ Idle.invoice = None
      BY DEF Idle
    <3>3. QED
      BY <2>4, <2>5, <3>1, <3>2
  <2>14. QED
    BY <1>1, <2>6, <2>7, <2>8, <2>9, <2>10, <2>11, <2>12, <2>13
<1>2. ASSUME NEW c \in Calls, UploadFile(c) PROVE DeletionInv'
  <2>1. PICK p \in Parts, i \in Invoices \ used :
          /\ Enter(c, [Idle EXCEPT !.pc = "put", !.part = p, !.invoice = i,
                                   !.url = Url("storage", Key("upload", p, now))])
          /\ used' = used \cup {i} /\ UNCHANGED rows
    BY <1>2 DEF UploadFile
  <2> DEFINE new == [Idle EXCEPT !.pc = "put", !.part = p, !.invoice = i,
                                 !.url = Url("storage", Key("upload", p, now))]
  <2>2. new.pc = "put" /\ new.part = p /\ new.invoice = i
    BY DEF Idle
  <2>3. call' = [call EXCEPT ![c] = new]
    BY <2>1 DEF Enter
  <2> HIDE DEF new
  <2>4. \A j \in Invoices : Stored(j)' <=> Stored(j)
    BY <2>1 DEF Stored
  <2>5. \A q \in Parts, j \in Invoices : Uploaded(q, j)' <=> Uploaded(q, j)
    BY <2>1 DEF Uploaded
  <2>6. ASSUME NEW q \in Parts, NEW j \in Invoices, Owns(q, j)'
        PROVE  Owns(q, j) \/ (q = p /\ j \notin used /\ j \in used')
    <3>1. CASE \E d \in Calls : call'[d].invoice = j /\ call'[d].part = q
      BY <2>1, <2>2, <2>3, <3>1 DEF Owns
    <3>2. CASE Stored(j)' /\ invoices'[j].part = q
      BY <2>1, <2>4, <3>2 DEF Owns
    <3>3. CASE Uploaded(q, j)'
      BY <2>5, <3>3 DEF Owns
    <3>4. QED
      BY <2>6, <3>1, <3>2, <3>3 DEF Owns
  <2>7. \A d \in Calls : call'[d].pc \in {"record uploaded", "removed"} => call[d] = call'[d]
    BY <2>2, <2>3
  <2>8. \A q \in Parts : status[q] = None => history[q].rows = {}
    BY NoRows
  <2>9. used \subseteq used' /\ UNCHANGED <<status, history>>
    BY <2>1
  <2>10. \A q \in Parts : status'[q] = None => history'[q].rows = {}
    BY <2>8, <2>9
  <2>11. p \in Parts \cup {None}
    OBVIOUS
  <2>12. QED
    BY <2>4, <2>5, <2>6, <2>7, <2>9, <2>10, <2>11, KeepDeletions
<1>3. ASSUME NEW c \in Calls, CommitInvoice(c) PROVE DeletionInv'
  <2> DEFINE k == call[c]
             new == [k EXCEPT !.pc = "record uploaded"]
             row == [part |-> k.part, url |-> k.url]
  <2>1. /\ k.part \in Parts /\ k.invoice \in Invoices /\ Owns(k.part, k.invoice)
        /\ k.url \in Urls
    BY <1>3, CallOwns, KeyTypes DEF CommitInvoice, OnInvoice, CallOK
  <2>2. new.pc = "record uploaded" /\ new.part = k.part /\ new.invoice = k.invoice
    BY DEF CallRow
  <2>3. /\ call' = [call EXCEPT ![c] = new] /\ UNCHANGED <<status, history, used>>
        /\ invoices' = [invoices EXCEPT ![k.invoice] = row]
    BY <1>3 DEF CommitInvoice, Become
  <2>4. row # None /\ row.part = k.part
    BY <2>1, NoneIsNoRow DEF InvoiceRow, Urls
  <2> HIDE DEF k, new, row
  <2>5. \A j \in Invoices : j = k.invoice \/ Stored(j) => Stored(j)'
    BY <2>1, <2>3, <2>4 DEF Stored
  <2>6. \A q \in Parts, j \in Invoices : Uploaded(q, j)' <=> Uploaded(q, j)
    BY <2>3 DEF Uploaded
  <2>7. ASSUME NEW q \in Parts, NEW j \in Invoices, Owns(q, j)'
        PROVE  Owns(q, j)
    <3>1. CASE \E d \in Calls : call'[d].invoice = j /\ call'[d].part = q
      BY <2>1, <2>2, <2>3, <3>1 DEF Owns
    <3>2. CASE Stored(j)' /\ invoices'[j].part = q
      <4>1. CASE j = k.invoice
        BY <2>1, <2>3, <2>4, <3>2, <4>1
      <4>2. CASE j # k.invoice
        BY <2>3, <3>2, <4>2 DEF Owns, Stored
      <4>3. QED
        BY <4>1, <4>2
    <3>3. CASE Uploaded(q, j)'
      BY <2>6, <3>3 DEF Owns
    <3>4. QED
      BY <2>7, <3>1, <3>2, <3>3 DEF Owns
  <2>8. \A d \in Calls :
          /\ call'[d].pc = "record uploaded" =>
               \/ call[d] = call'[d]
               \/ Stored(call[d].invoice)'
          /\ call'[d].pc = "removed" => call[d] = call'[d]
    <3>1. \A d \in Calls : d # c => call[d] = call'[d]
      BY <2>3
    <3>2. call'[c] = new
      BY <2>3
    <3>3. Stored(call[c].invoice)'
      <4>1. PICK i \in Invoices : i = k.invoice
        BY <2>1
      <4>2. Stored(i)'
        BY <2>5, <4>1
      <4>3. call'[c].invoice = i
        BY <2>2, <3>2, <4>1
      <4>4. QED
        BY <4>2, <4>3 DEF Stored
    <3>4. QED
      BY <2>2, <3>1, <3>2, <3>3
  <2>9. \A q \in Parts : status'[q] = None => history'[q].rows = {}
    BY <2>3, NoRows
  <2>10. QED
    BY <2>3, <2>5, <2>6, <2>7, <2>8, <2>9, KeepDeletions
<1>4. ASSUME NEW c \in Calls, CommitUrl(c) PROVE DeletionInv'
  <2> DEFINE k == call[c]
             new == [k EXCEPT !.pc = "record updated"]
             row == [invoices[k.invoice] EXCEPT !.url = k.url]
  <2>1. /\ k.part \in Parts /\ k.invoice \in Invoices /\ Owns(k.part, k.invoice)
        /\ k.url \in Urls /\ Stored(k.invoice) /\ invoices[k.invoice] \in InvoiceRow
    BY <1>4, CallOwns, KeyTypes DEF CommitUrl, OnInvoice, CallOK, Stored
  <2>2. new.pc = "record updated" /\ new.part = k.part /\ new.invoice = k.invoice
    BY DEF CallRow
  <2>3. /\ call' = [call EXCEPT ![c] = new] /\ UNCHANGED <<status, history, used>>
        /\ invoices' = [invoices EXCEPT ![k.invoice] = row]
    BY <1>4 DEF CommitUrl, Become
  <2>4. row # None /\ row.part = invoices[k.invoice].part
    BY <2>1, NoneIsNoRow DEF InvoiceRow, Urls
  <2> HIDE DEF k, new, row
  <2>5. \A j \in Invoices : Stored(j)' <=> Stored(j)
    BY <2>1, <2>3, <2>4 DEF Stored
  <2>6. \A q \in Parts, j \in Invoices : Uploaded(q, j)' <=> Uploaded(q, j)
    BY <2>3 DEF Uploaded
  <2>7. ASSUME NEW q \in Parts, NEW j \in Invoices, Owns(q, j)'
        PROVE  Owns(q, j)
    <3>1. CASE \E d \in Calls : call'[d].invoice = j /\ call'[d].part = q
      BY <2>1, <2>2, <2>3, <3>1 DEF Owns
    <3>2. CASE Stored(j)' /\ invoices'[j].part = q
      BY <2>1, <2>3, <2>4, <2>5, <3>2 DEF Owns
    <3>3. CASE Uploaded(q, j)'
      BY <2>6, <3>3 DEF Owns
    <3>4. QED
      BY <2>7, <3>1, <3>2, <3>3 DEF Owns
  <2>8. \A d \in Calls : call'[d].pc \in {"record uploaded", "removed"} => call[d] = call'[d]
    BY <2>2, <2>3
  <2>9. \A q \in Parts : status'[q] = None => history'[q].rows = {}
    BY <2>3, NoRows
  <2>10. QED
    BY <2>3, <2>5, <2>6, <2>7, <2>8, <2>9, KeepDeletions
<1>5. ASSUME NEW c \in Calls, NEW row, NEW new, status[call[c].part] # None,
             row \in HistoryRow, Record(call[c].part, row),
             call' = [call EXCEPT ![c] = new], UNCHANGED <<status, invoices, used>>,
             call[c].part \in Parts, call[c].pc \in OnInvoice,
             row[1] = "uploaded" => /\ row[2] = call[c].invoice
                                    /\ call[c].pc = "record uploaded",
             \/ new = Idle
             \/ /\ new.pc = "removed" /\ new.part = call[c].part
                /\ new.invoice = call[c].invoice /\ row = <<"deleted", call[c].invoice>>
      PROVE  DeletionInv'
  <2>1. /\ history'[call[c].part].rows = history[call[c].part].rows \cup {row}
        /\ \A q \in Parts : q # call[c].part => history'[q] = history[q]
        /\ \A q \in Parts : status[q] = None => history'[q] = NoHistory
    BY <1>5, RecordTypes
  <2>2. Owns(call[c].part, call[c].invoice) /\ call[c].invoice \in Invoices
    BY <1>5, CallOwns
  <2>3. \A j \in Invoices : Stored(j)' <=> Stored(j)
    BY <1>5 DEF Stored
  <2>4. ASSUME NEW q \in Parts, NEW j \in Invoices, Uploaded(q, j)'
        PROVE  \/ Uploaded(q, j)
               \/ /\ call[c].pc = "record uploaded" /\ call[c].part = q
                  /\ call[c].invoice = j
    <3>1. <<"uploaded", j>> \in history'[q].rows
      BY <2>4 DEF Uploaded
    <3>2. CASE q = call[c].part /\ <<"uploaded", j>> = row
      BY <1>5, <3>2
    <3>3. CASE <<"uploaded", j>> \in history[q].rows
      BY <3>3 DEF Uploaded
    <3>4. QED
      BY <2>1, <3>1, <3>2, <3>3
  <2>5. Idle.pc = "idle" /\ Idle.invoice = None /\ None \notin Invoices
    BY PartInvoicesAssumption DEF Idle
  <2>6. ASSUME NEW q \in Parts, NEW j \in Invoices, Owns(q, j)'
        PROVE  Owns(q, j)
    <3>1. CASE \E d \in Calls : call'[d].invoice = j /\ call'[d].part = q
      BY <1>5, <2>2, <2>5, <3>1 DEF Owns
    <3>2. CASE Stored(j)' /\ invoices'[j].part = q
      BY <1>5, <2>3, <3>2 DEF Owns
    <3>3. CASE Uploaded(q, j)'
      BY <2>2, <2>4, <3>3 DEF Owns
    <3>4. QED
      BY <2>6, <3>1, <3>2, <3>3 DEF Owns
  <2>7. \A d \in Calls : d # c => call'[d] = call[d]
    BY <1>5
  <2>8. call'[c] = new
    BY <1>5
  <2>9. call'[c].pc = "removed" => Gone(call[c].part, call[c].invoice)'
    <3>1. SUFFICES ASSUME new.pc = "removed"
                   PROVE  Gone(call[c].part, call[c].invoice)'
      BY <2>8
    <3>2. /\ new.part = call[c].part /\ new.invoice = call[c].invoice
          /\ row = <<"deleted", call[c].invoice>>
      BY <1>5, <2>5, <3>1
    <3>3. <<"deleted", call[c].invoice>> \in history'[call[c].part].rows
      BY <2>1, <3>2
    <3>4. call'[c].part = call[c].part /\ call'[c].invoice = call[c].invoice
      BY <2>8, <3>2
    <3>5. QED
      BY <3>3, <3>4 DEF Gone, Deleted
  <2>10. \A d \in Calls :
           /\ call'[d].pc = "record uploaded" => call[d] = call'[d]
           /\ call'[d].pc = "removed" => \/ call[d] = call'[d]
                                         \/ Gone(call[d].part, call[d].invoice)'
    <3>1. new.pc # "record uploaded"
      BY <1>5, <2>5
    <3>2. QED
      BY <2>7, <2>8, <2>9, <3>1
  <2>11. \A q \in Parts : history[q].rows \subseteq history'[q].rows
    BY <2>1
  <2>12. \A q \in Parts : status'[q] = None => history'[q].rows = {}
    <3>1. NoHistory.rows = {}
      BY DEF NoHistory
    <3>2. QED
      BY <1>5, <2>1, <3>1
  <2>13. \A q \in Parts, j \in Invoices : Uploaded(q, j)' =>
           \/ Uploaded(q, j)
           \/ \E d \in Calls : /\ call[d].pc = "record uploaded"
                               /\ call[d].part = q /\ call[d].invoice = j
    BY <2>4
  <2>14. UNCHANGED <<used, status>>
    BY <1>5
  <2>15. QED
    BY <2>3, <2>6, <2>10, <2>11, <2>12, <2>13, <2>14, KeepDeletions
<1>6. ASSUME NEW c \in Calls, RecordRemoval(c) PROVE DeletionInv'
  <2> DEFINE new == [call[c] EXCEPT !.pc = "removed"]
  <2>1. call[c].part \in Parts /\ call[c].invoice \in Invoices /\ call[c].pc \in OnInvoice
    BY <1>6 DEF RecordRemoval, CallOK, OnInvoice
  <2>2. <<"deleted", call[c].invoice>> \in HistoryRow
    BY <2>1 DEF HistoryRow
  <2>3. /\ status[call[c].part] # None /\ Record(call[c].part, <<"deleted", call[c].invoice>>)
        /\ call' = [call EXCEPT ![c] = new] /\ UNCHANGED <<status, invoices, used>>
    BY <1>6 DEF RecordRemoval, Become
  <2>4. new.pc = "removed" /\ new.part = call[c].part /\ new.invoice = call[c].invoice
    BY DEF CallRow
  <2> HIDE DEF new
  <2>5. PICK row : row = <<"deleted", call[c].invoice>>
    OBVIOUS
  <2>6. QED
    BY <1>5, <2>1, <2>2, <2>3, <2>4, <2>5
<1>7. ASSUME NEW c \in Calls, RecordInvoice(c) PROVE DeletionInv'
  <2>1. call[c].part \in Parts /\ call[c].invoice \in Invoices /\ call[c].pc \in OnInvoice
    BY <1>7 DEF RecordInvoice, CallOK, OnInvoice
  <2>2. PICK row : row = <<IF call[c].pc = "record uploaded" THEN "uploaded" ELSE "updated",
                           call[c].invoice>>
    OBVIOUS
  <2>3. row \in HistoryRow
    BY <2>1, <2>2 DEF HistoryRow
  <2>4. /\ status[call[c].part] # None /\ Record(call[c].part, row)
        /\ call' = [call EXCEPT ![c] = Idle] /\ UNCHANGED <<status, invoices, used>>
    BY <1>7, <2>2 DEF RecordInvoice, Become
  <2>5. row[1] = "uploaded" => row[2] = call[c].invoice /\ call[c].pc = "record uploaded"
    BY <2>2
  <2>6. QED
    BY <1>5, <2>1, <2>3, <2>4, <2>5
<1>8. ASSUME NEW c \in Calls, DeleteInvoice(c) PROVE DeletionInv'
  <2>1. /\ call[c].part \in Parts /\ call[c].part \in used /\ call[c].invoice \in Invoices
        /\ Owns(call[c].part, call[c].invoice)
    BY <1>8, CallOwns DEF DeleteInvoice, OnInvoice
  <2>2. /\ invoices' = [invoices EXCEPT ![call[c].invoice] = None]
        /\ call' = [call EXCEPT ![c] = Idle] /\ UNCHANGED <<status, history, used>>
    BY <1>8 DEF DeleteInvoice, Become
  <2>3. Idle.pc = "idle" /\ Idle.invoice = None /\ None \notin Invoices
    BY PartInvoicesAssumption DEF Idle
  <2>4. \A j \in Invoices : /\ Stored(j)' => Stored(j) /\ invoices'[j] = invoices[j]
                            /\ Stored(j) /\ j # call[c].invoice => Stored(j)'
    BY <2>2 DEF Stored
  <2>5. Gone(call[c].part, call[c].invoice)
    BY <1>8 DEF DeleteInvoice, DeletionInv
  <2>6. \A q \in Parts, j \in Invoices : /\ Uploaded(q, j)' <=> Uploaded(q, j)
                                         /\ Gone(q, j)' <=> Gone(q, j)
    BY <2>2 DEF Uploaded, Gone, Deleted
  <2>7. ASSUME NEW q \in Parts, NEW j \in Invoices, Owns(q, j)'
        PROVE  Owns(q, j)
    <3>1. CASE \E d \in Calls : call'[d].invoice = j /\ call'[d].part = q
      BY <2>2, <2>3, <3>1 DEF Owns
    <3>2. CASE Stored(j)' /\ invoices'[j].part = q
      BY <2>4, <3>2 DEF Owns
    <3>3. CASE Uploaded(q, j)'
      BY <2>6, <3>3 DEF Owns
    <3>4. QED
      BY <2>7, <3>1, <3>2, <3>3 DEF Owns
  <2>8. ASSUME NEW q \in Parts, NEW j \in Invoices, Owns(q, j), Stored(j)
        PROVE  Stored(j)' \/ Gone(q, j)'
    <3>1. CASE j # call[c].invoice
      BY <2>4, <2>8, <3>1
    <3>2. CASE j = call[c].invoice
      <4>1. q = call[c].part
        BY <2>1, <2>8, <3>2 DEF DeletionInv
      <4>2. QED
        BY <2>5, <2>6, <3>2, <4>1
    <3>3. QED
      BY <3>1, <3>2
  <2>9. \A d \in Calls : call'[d].pc \in {"record uploaded", "removed"} => call[d] = call'[d]
    BY <2>2, <2>3
  <2>10. \A q \in Parts : status'[q] = None => history'[q].rows = {}
    BY <2>2, NoRows
  <2>11. QED
    BY <2>2, <2>6, <2>7, <2>8, <2>9, <2>10, KeepDeletions
<1>9. ASSUME NEW c \in Calls, DeletePart(c) PROVE DeletionInv'
  <2> DEFINE p == call[c].part
  <2>1. p \in Parts /\ p \in used
    BY <1>9 DEF DeletePart, CallOK
  <2>2. /\ status' = [status EXCEPT ![p] = None]
        /\ invoices' = InvoicesWithout(p)
        /\ history' = [history EXCEPT ![p] = NoHistory]
        /\ call' = [call EXCEPT ![c] = Idle] /\ UNCHANGED used
    BY <1>9 DEF DeletePart, Become
  <2> HIDE DEF p
  <2>3. Idle.pc = "idle" /\ Idle.invoice = None /\ None \notin Invoices
    BY PartInvoicesAssumption DEF Idle
  <2>4. \A j \in Invoices : /\ Stored(j)' => Stored(j) /\ invoices'[j] = invoices[j]
                            /\ Stored(j) /\ ~Stored(j)' => invoices[j].part = p
    BY <2>2 DEF InvoicesWithout, Stored
  <2>5. /\ status'[p] = None /\ history'[p] = NoHistory
        /\ \A q \in Parts : q # p => status'[q] = status[q] /\ history'[q] = history[q]
    BY <2>1, <2>2
  <2>6. \A q \in Parts, j \in Invoices : Uploaded(q, j)' => Uploaded(q, j)
    BY <2>5 DEF Uploaded, NoHistory
  <2>7. ASSUME NEW q \in Parts, NEW j \in Invoices, Owns(q, j)'
        PROVE  Owns(q, j)
    <3>1. CASE \E d \in Calls : call'[d].invoice = j /\ call'[d].part = q
      BY <2>2, <2>3, <3>1 DEF Owns
    <3>2. CASE Stored(j)' /\ invoices'[j].part = q
      BY <2>4, <3>2 DEF Owns
    <3>3. CASE Uploaded(q, j)'
      BY <2>6, <3>3 DEF Owns
    <3>4. QED
      BY <2>7, <3>1, <3>2, <3>3 DEF Owns
  <2>8. ASSUME NEW q \in Parts, NEW j \in Invoices, Owns(q, j), Stored(j)
        PROVE  Stored(j)' \/ Gone(q, j)'
    <3>1. CASE ~Stored(j)'
      <4>1. Owns(p, j)
        BY <2>4, <2>8, <3>1 DEF Owns
      <4>2. q = p
        BY <2>1, <2>8, <4>1 DEF DeletionInv
      <4>3. QED
        BY <2>5, <4>2 DEF Gone
    <3>2. QED
      BY <3>1
  <2>9. \A d \in Calls : call'[d].pc \in {"record uploaded", "removed"} => call[d] = call'[d]
    BY <2>2, <2>3
  <2>10. \A q \in Parts : status'[q] = None => history'[q].rows = {}
    BY <2>5, NoRows DEF NoHistory
  <2>11. \A q \in Parts : /\ history[q].rows \subseteq history'[q].rows \/ status'[q] = None
                          /\ status[q] = None => status'[q] = None
    BY <2>5
  <2>12. QED
    BY <2>2, <2>6, <2>7, <2>8, <2>9, <2>10, <2>11, KeepDeletions
<1>10. CASE Tick \/ UNCHANGED vars
  <2>1. UNCHANGED <<rows, call, used>>
    BY <1>10 DEF Tick, vars
  <2>2. \A p \in Parts, i \in Invoices : /\ Uploaded(p, i)' <=> Uploaded(p, i)
                                         /\ Stored(i)' <=> Stored(i)
    BY <2>1 DEF Uploaded, Stored
  <2>3. \A p \in Parts, i \in Invoices : Owns(p, i)' => Owns(p, i)
    BY <2>1, <2>2 DEF Owns
  <2>4. \A p \in Parts : status[p] = None => history[p].rows = {}
    BY NoRows
  <2>5. QED
    BY <2>1, <2>2, <2>3, <2>4, KeepDeletions
<1>11. QED
  BY <1>1, <1>2, <1>3, <1>4, <1>6, <1>7, <1>8, <1>9, <1>10 DEF Next

\* InvoiceDeletionRecorded: in every history, an invoice that was uploaded and is not
\* there was deleted on record, wherever calls meet and whichever of them die.
THEOREM RemovalsAreRecorded == Spec => []InvoiceDeletionRecorded
<1>1. Init => DeletionInv
  <2> SUFFICES ASSUME Init PROVE DeletionInv
    OBVIOUS
  <2>1. \A p \in Parts, i \in Invoices : ~Owns(p, i) /\ ~Uploaded(p, i)
    BY PartInvoicesAssumption DEF Init, Owns, Uploaded, Idle, NoHistory, Stored
  <2>2. \A c \in Calls : call[c].pc = "idle"
    BY DEF Init, Idle
  <2>3. QED
    BY <2>1, <2>2 DEF DeletionInv, InvoiceDeletionRecorded, Uploaded
<1>2. Types /\ DeletionInv /\ [Next]_vars => DeletionInv'
  BY StepKeepsDeletions
<1>3. DeletionInv => InvoiceDeletionRecorded
  BY DEF DeletionInv
<1>4. Types /\ [Next]_vars => Types'
  BY StepKeepsTypes
<1>5. QED
  BY <1>1, <1>2, <1>3, <1>4, InitTypes, PTL DEF Spec

-----------------------------------------------------------------------------
(* Changes of status on record                                             *)

\* The status after the first n of the changes s.
After(s, n) == IF n = 0 THEN Initial ELSE s[n][2]
Chained(s) == \A n \in 1 .. Len(s) : s[n][1] = After(s, n - 1)
LastOf(p) == After(history[p].status, Len(history[p].status))

\* The call c is about to change the status of p, or to put the change on record.
Changes(c, p) == call[c].part = p /\ call[c].to # None

\* One call at a time changes the status of p: it has read the last status on
\* record, and what it has written is the status.
ChainOf(p) ==
  /\ Chained(history[p].status)
  /\ \A c, d \in Calls : Changes(c, p) /\ Changes(d, p) => c = d
  /\ \A c \in Calls : Changes(c, p) =>
       /\ call[c].from = LastOf(p)
       /\ status[p] = IF call[c].pc = "status" THEN call[c].from ELSE call[c].to
  /\ (\A c \in Calls : ~Changes(c, p)) => status[p] = LastOf(p)

Alone(p) == status[p] # None /\ p \notin overlapped /\ crashes = 0

ChainInv == \A p \in Parts : Alone(p) => ChainOf(p)

\* A change that starts where the last one ended.
LEMMA ChainGrows ==
  ASSUME NEW S, NEW s \in Seq(S \X S), NEW e \in S \X S, Chained(s),
         e[1] = After(s, Len(s))
  PROVE  Chained(Append(s, e)) /\ After(Append(s, e), Len(Append(s, e))) = e[2]
<1> DEFINE t == Append(s, e)
<1>1. /\ Len(t) = Len(s) + 1 /\ Len(s) \in Nat
      /\ \A n \in 1 .. Len(s) : t[n] = s[n]
      /\ t[Len(s) + 1] = e
  BY AppendProperties
<1> HIDE DEF t
<1>2. \A n \in 0 .. Len(s) : After(t, n) = After(s, n)
  BY <1>1 DEF After
<1>3. \A n \in 1 .. Len(s) : t[n][1] = After(t, n - 1)
  <2>1. \A n \in 1 .. Len(s) : n - 1 \in 0 .. Len(s)
    BY <1>1
  <2>2. QED
    BY <1>1, <1>2, <2>1 DEF Chained
<1>4. t[Len(s) + 1][1] = After(t, Len(s))
  BY <1>1, <1>2
<1>5. Chained(t)
  <2>1. \A n \in 1 .. Len(t) : n \in 1 .. Len(s) \/ (n = Len(s) + 1 /\ n - 1 = Len(s))
    BY <1>1
  <2>2. QED
    BY <1>3, <1>4, <2>1 DEF Chained
<1>6. After(t, Len(t)) = e[2]
  BY <1>1 DEF After
<1>7. QED
  BY <1>5, <1>6 DEF t

\* A step that leaves the status of p, its changes on record and the calls that
\* change it alone.
LEMMA KeepChain ==
  ASSUME NEW p \in Parts, ChainOf(p), status'[p] = status[p],
         history'[p].status = history[p].status,
         \A c \in Calls : \/ call'[c] = call[c]
                          \/ ~Changes(c, p)' /\ ~Changes(c, p)
  PROVE  ChainOf(p)'
<1>1. LastOf(p)' = LastOf(p)
  BY DEF LastOf, After
<1>2. \A c \in Calls : /\ Changes(c, p)' <=> Changes(c, p)
                       /\ Changes(c, p) => call'[c] = call[c]
  BY DEF Changes
<1>3. Chained(history'[p].status)
  BY DEF ChainOf
<1>4. (\A c, d \in Calls : Changes(c, p) /\ Changes(d, p) => c = d)'
  BY <1>2 DEF ChainOf
<1>5. (\A c \in Calls : Changes(c, p) =>
         /\ call[c].from = LastOf(p)
         /\ status[p] = IF call[c].pc = "status" THEN call[c].from ELSE call[c].to)'
  BY <1>1, <1>2 DEF ChainOf
<1>6. ((\A c \in Calls : ~Changes(c, p)) => status[p] = LastOf(p))'
  BY <1>1, <1>2 DEF ChainOf
<1>7. QED
  BY <1>3, <1>4, <1>5, <1>6 DEF ChainOf

\* A step that changes no status, and no history of one, of a part that is there.
LEMMA QuietStep ==
  ASSUME Types, ChainInv, NEW c \in Calls, NEW new, call' = [call EXCEPT ![c] = new],
         new.to = None, call[c].to = None,
         overlapped \subseteq overlapped', crashes' = crashes,
         \A p \in Parts :
           status'[p] = None \/ (/\ status'[p] = status[p]
                                 /\ history'[p].status = history[p].status)
  PROVE  ChainInv'
<1> SUFFICES ASSUME NEW p \in Parts, Alone(p)' PROVE ChainOf(p)'
  BY DEF ChainInv
<1>1. status'[p] = status[p] /\ history'[p].status = history[p].status /\ Alone(p)
  BY DEF Alone
<1>2. \A d \in Calls : \/ call'[d] = call[d]
                       \/ ~Changes(d, p)' /\ ~Changes(d, p)
  BY StateTypes DEF Changes
<1>3. QED
  BY <1>1, <1>2, KeepChain DEF ChainInv

\* A step of the system keeps ChainInv.
LEMMA StepKeepsChains ==
  ASSUME Types, ChainInv, [Next]_vars
  PROVE  ChainInv'
<1> USE StateTypes
<1>0. None \notin Statuses /\ None \notin Parts /\ Idle.to = None /\ Idle.part = None
  BY PartInvoicesAssumption DEF Idle
<1>1. ASSUME NEW c \in Calls, CreatePart(c) PROVE ChainInv'
  <2>1. PICK p \in Parts \ used :
          /\ Enter(c, [Idle EXCEPT !.pc = "record edit", !.part = p])
          /\ status' = [status EXCEPT ![p] = Initial]
          /\ UNCHANGED <<history, overlapped, crashes>>
    BY <1>1 DEF CreatePart
  <2> DEFINE new == [Idle EXCEPT !.pc = "record edit", !.part = p]
  <2>2. new.to = None
    BY DEF Idle
  <2>3. call' = [call EXCEPT ![c] = new] /\ call[c].to = None
    BY <1>0, <2>1 DEF Enter, CallOK
  <2> HIDE DEF new
  <2>4. \A d \in Calls : ~Changes(d, p)' /\ ~Changes(d, p)
    <3>1. \A d \in Calls : call[d].to # None => call[d].part # p
      BY <1>0, <2>1 DEF CallOK, OnStatus
    <3>2. \A d \in Calls : call'[d] = call[d] \/ call'[d].to = None
      BY <2>2, <2>3
    <3>3. QED
      BY <3>1, <3>2 DEF Changes
  <2>5. history'[p] = NoHistory
    BY <2>1 DEF Types
  <2>6. ChainOf(p)'
    <3>1. history'[p].status = <<>>
      BY <2>5 DEF NoHistory
    <3>2. Len(history'[p].status) = 0
      BY <3>1
    <3>3. LastOf(p)' = Initial /\ Chained(history'[p].status)
      BY <3>2 DEF LastOf, After, Chained
    <3>4. status'[p] = Initial
      BY <2>1
    <3>5. QED
      BY <2>4, <3>3, <3>4 DEF ChainOf
  <2>7. ASSUME NEW q \in Parts, q # p, Alone(q)' PROVE ChainOf(q)'
    <3>1. status'[q] = status[q] /\ history'[q] = history[q] /\ Alone(q)
      BY <2>1, <2>7 DEF Alone
    <3>2. \A d \in Calls : \/ call'[d] = call[d]
                           \/ ~Changes(d, q)' /\ ~Changes(d, q)
      BY <2>2, <2>3 DEF Changes
    <3>3. QED
      BY <3>1, <3>2, KeepChain DEF ChainInv
  <2>8. QED
    BY <2>6, <2>7 DEF ChainInv
<1>2. ASSUME NEW c \in Calls, ReadStatus(c) PROVE ChainInv'
  <2>1. PICK p \in Parts, s \in Statuses :
          /\ status[p] # None
          /\ Enter(c, [Idle EXCEPT !.pc = "status", !.part = p, !.from = status[p], !.to = s])
          /\ overlapped' = IF \E d \in Calls : call[d].part = p /\ call[d].to # None
                           THEN overlapped \cup {p} ELSE overlapped
          /\ UNCHANGED <<status, history, crashes>>
    BY <1>2 DEF ReadStatus
  <2> DEFINE new == [Idle EXCEPT !.pc = "status", !.part = p, !.from = status[p], !.to = s]
  <2>2. new.pc = "status" /\ new.part = p /\ new.from = status[p] /\ new.to = s /\ s # None
    BY <1>0 DEF Idle
  <2>3. call' = [call EXCEPT ![c] = new] /\ call[c] = Idle
    BY <2>1 DEF Enter, CallOK
  <2> HIDE DEF new
  <2>4. /\ call'[c] = new /\ \A d \in Calls : d # c => call'[d] = call[d]
        /\ \A q \in Parts : LastOf(q)' = LastOf(q)
    BY <2>1, <2>3 DEF LastOf, After
  <2>5. ASSUME NEW q \in Parts, Alone(q)' PROVE ChainOf(q)'
    <3>1. Alone(q) /\ ChainOf(q)
      BY <2>1, <2>5 DEF Alone, ChainInv
    <3>2. CASE q # p
      <4>1. ~Changes(c, q)' /\ ~Changes(c, q)
        BY <1>0, <2>2, <2>3, <2>4, <3>2 DEF Changes
      <4>2. QED
        BY <2>1, <2>4, <3>1, <4>1, KeepChain
    <3>3. CASE q = p
      <4>1. \A d \in Calls : ~Changes(d, p)
        BY <2>1, <2>5, <3>3 DEF Alone, Changes
      <4>2. \A d \in Calls : Changes(d, p)' => d = c
        BY <2>4, <4>1 DEF Changes
      <4>3. status[p] = LastOf(p)
        BY <3>1, <3>3, <4>1 DEF ChainOf
      <4>4. Chained(history'[p].status)
        BY <2>1, <3>1, <3>3 DEF ChainOf
      <4>5. Changes(c, p)' /\ call'[c].from = LastOf(p)' /\ status'[p] = call'[c].from
            /\ call'[c].pc = "status"
        BY <2>1, <2>2, <2>4, <4>3 DEF Changes
      <4>6. QED
        BY <3>3, <4>2, <4>4, <4>5 DEF ChainOf
    <3>4. QED
      BY <3>2, <3>3
  <2>6. QED
    BY <2>5 DEF ChainInv
<1>3. ASSUME NEW c \in Calls, CommitStatus(c) PROVE ChainInv'
  <2> DEFINE k == call[c]
             new == [k EXCEPT !.pc = "record status"]
  <2>1. /\ k.part \in Parts /\ k.from \in Statuses /\ k.to \in Statuses /\ k.pc = "status"
        /\ k \in CallRow
    BY <1>3 DEF CommitStatus, CallOK, OnStatus
  <2>2. /\ new.pc = "record status" /\ new.part = k.part /\ new.from = k.from /\ new.to = k.to
    BY <2>1 DEF CallRow
  <2>3. /\ call' = [call EXCEPT ![c] = new]
        /\ status' = IF k.from = k.to THEN status ELSE [status EXCEPT ![k.part] = k.to]
        /\ UNCHANGED <<history, overlapped, crashes>> /\ status[k.part] # None
    BY <1>3 DEF CommitStatus, Become
  <2> HIDE DEF new, k
  <2>4. /\ call'[c] = new /\ \A d \in Calls : d # c => call'[d] = call[d]
        /\ \A q \in Parts : LastOf(q)' = LastOf(q)
    BY <2>3 DEF LastOf, After
  <2>5. ASSUME NEW q \in Parts, Alone(q)' PROVE ChainOf(q)'
    <3>1. Alone(q) /\ ChainOf(q)
      BY <2>3, <2>5 DEF Alone, ChainInv
    <3>2. CASE q # k.part
      <4>1. ~Changes(c, q)' /\ ~Changes(c, q)
        BY <2>2, <2>4, <3>2 DEF Changes, k
      <4>2. QED
        BY <2>3, <2>4, <3>1, <3>2, <4>1, KeepChain
    <3>3. CASE q = k.part
      <4>1. Changes(c, q) /\ Changes(c, q)'
        BY <1>0, <2>1, <2>2, <2>4, <3>3 DEF Changes, k
      <4>2. /\ k.from = LastOf(q) /\ status[q] = k.from
            /\ \A d \in Calls : Changes(d, q) => d = c
        BY <2>1, <3>1, <4>1 DEF ChainOf, k
      <4>3. \A d \in Calls : Changes(d, q)' => d = c
        BY <2>4, <4>2 DEF Changes
      <4>4. status'[q] = k.to
        BY <2>3, <3>3, <4>2
      <4>5. Chained(history'[q].status)
        BY <2>3, <3>1 DEF ChainOf
      <4>6. call'[c].pc # "status" /\ call'[c].from = LastOf(q)' /\ status'[q] = call'[c].to
        BY <2>2, <2>4, <4>2, <4>4
      <4>7. QED
        BY <4>1, <4>3, <4>5, <4>6 DEF ChainOf
    <3>4. QED
      BY <3>2, <3>3
  <2>6. QED
    BY <2>5 DEF ChainInv
<1>4. ASSUME NEW c \in Calls, RecordStatus(c) PROVE ChainInv'
  <2> DEFINE k == call[c]
             h == [history[k.part] EXCEPT !.status = Append(@, PreviousAndNew(k))]
  <2>1. /\ k.part \in Parts /\ k.from \in Statuses /\ k.to \in Statuses
        /\ k.pc = "record status" /\ k \in CallRow
    BY <1>4 DEF RecordStatus, CallOK, OnStatus
  <2>2. /\ call' = [call EXCEPT ![c] = Idle] /\ history' = [history EXCEPT ![k.part] = h]
        /\ UNCHANGED <<status, overlapped, crashes>>
    BY <1>4 DEF RecordStatus, Become
  <2>3. h.status = Append(history[k.part].status, <<k.from, k.to>>)
        /\ history[k.part].status \in Seq(Statuses \X Statuses)
    BY <2>1 DEF HistoryOfPart, PreviousAndNew
  <2> HIDE DEF k, h
  <2>4. /\ call'[c] = Idle /\ \A d \in Calls : d # c => call'[d] = call[d]
        /\ history'[k.part] = h
        /\ \A q \in Parts : q # k.part => history'[q] = history[q]
    BY <2>1, <2>2
  <2>5. ASSUME NEW q \in Parts, Alone(q)' PROVE ChainOf(q)'
    <3>1. Alone(q) /\ ChainOf(q)
      BY <2>2, <2>5 DEF Alone, ChainInv
    <3>2. ~Changes(c, q)'
      BY <1>0, <2>4 DEF Changes
    <3>3. CASE q # k.part
      <4>1. ~Changes(c, q)
        BY <3>3 DEF Changes, k
      <4>2. QED
        BY <2>2, <2>4, <3>1, <3>2, <3>3, <4>1, KeepChain
    <3>4. CASE q = k.part
      <4>1. Changes(c, q)
        BY <1>0, <2>1, <3>4 DEF Changes, k
      <4>2. /\ k.from = LastOf(q) /\ status[q] = k.to
            /\ \A d \in Calls : Changes(d, q) => d = c
            /\ Chained(history[q].status)
        BY <2>1, <3>1, <4>1 DEF ChainOf, k
      <4>3. \A d \in Calls : ~Changes(d, q)'
        BY <2>4, <3>2, <4>2 DEF Changes
      <4>4. <<k.from, k.to>> \in Statuses \X Statuses /\ <<k.from, k.to>>[1] = k.from
            /\ <<k.from, k.to>>[2] = k.to
        BY <2>1
      <4>5. Chained(h.status) /\ After(h.status, Len(h.status)) = k.to
        BY <2>3, <3>4, <4>2, <4>4, ChainGrows DEF LastOf
      <4>6. Chained(history'[q].status) /\ LastOf(q)' = k.to
        BY <2>4, <3>4, <4>5 DEF LastOf
      <4>7. status'[q] = k.to
        BY <2>2, <4>2
      <4>8. QED
        BY <4>3, <4>6, <4>7 DEF ChainOf
    <3>5. QED
      BY <3>3, <3>4
  <2>6. QED
    BY <2>5 DEF ChainInv
<1>5. ASSUME NEW c \in Calls, Refused(c) PROVE ChainInv'
  <2>1. /\ call' = [call EXCEPT ![c] = Idle] /\ UNCHANGED <<rows, overlapped, crashes>>
        /\ call[c].to # None => status[call[c].part] = None
    BY <1>5 DEF Refused, Become, CallOK, OnStatus
  <2>2. ASSUME NEW q \in Parts, Alone(q)' PROVE ChainOf(q)'
    <3>1. Alone(q) /\ ChainOf(q)
      BY <2>1, <2>2 DEF Alone, ChainInv
    <3>2. ~Changes(c, q)' /\ ~Changes(c, q)
      BY <1>0, <2>1, <3>1 DEF Changes, Alone
    <3>3. \A d \in Calls : d # c => call'[d] = call[d]
      BY <2>1
    <3>4. QED
      BY <2>1, <3>1, <3>2, <3>3, KeepChain
  <2>3. QED
    BY <2>2 DEF ChainInv
<1>6. ASSUME NEW c \in Calls, Crash(c) PROVE ChainInv'
  <2>1. crashes' = crashes + 1 /\ crashes \in 0 .. MaxCrashes
    BY <1>6 DEF Crash, Types, TypeOK
  <2>2. crashes' # 0
    BY ONLY <2>1
  <2>3. QED
    BY <2>2 DEF ChainInv, Alone
<1>7. ASSUME NEW c \in Calls, DeletePart(c) PROVE ChainInv'
  <2> DEFINE p == call[c].part
  <2>1. /\ p \in Parts /\ call[c].to = None
        /\ call' = [call EXCEPT ![c] = Idle] /\ UNCHANGED <<overlapped, crashes>>
        /\ status' = [status EXCEPT ![p] = None]
        /\ history' = [history EXCEPT ![p] = NoHistory]
    BY <1>7 DEF DeletePart, Become, CallOK, OnStatus
  <2> HIDE DEF p
  <2>2. \A q \in Parts :
          status'[q] = None \/ (status'[q] = status[q] /\ history'[q].status = history[q].status)
    BY <2>1
  <2>3. QED
    BY <1>0, <2>1, <2>2, QuietStep
<1>8. ASSUME NEW c \in Calls,
             \/ UpdatePart(c) \/ RecordEdit(c) \/ RecordPartDeletion(c) \/ UploadFile(c)
             \/ CommitInvoice(c) \/ ReplaceFile(c) \/ CommitUrl(c) \/ RemoveFile(c)
             \/ RecordRemoval(c) \/ DeleteInvoice(c) \/ RecordInvoice(c)
      PROVE  ChainInv'
  <2>1. UNCHANGED <<status, overlapped, crashes>>
    BY <1>8 DEF UpdatePart, RecordEdit, RecordPartDeletion, UploadFile, CommitInvoice,
                ReplaceFile, CommitUrl, RemoveFile, RecordRemoval, DeleteInvoice, RecordInvoice
  <2>2. \A q \in Parts : history'[q].status = history[q].status
    <3>1. \A q \in Parts : \A row : Record(q, row) =>
            \A r \in Parts : history'[r].status = history[r].status
      BY DEF Record, HistoryOfPart
    <3>2. CASE RecordPartDeletion(c)
      BY <3>1, <3>2 DEF RecordPartDeletion
    <3>3. CASE RecordEdit(c) \/ RecordRemoval(c) \/ RecordInvoice(c)
      <4>1. call[c].part \in Parts /\ \E row : Record(call[c].part, row)
        BY <3>3 DEF RecordEdit, RecordRemoval, RecordInvoice, CallOK
      <4>2. QED
        BY <3>1, <4>1
    <3>4. CASE UNCHANGED history
      BY <3>4
    <3>5. QED
      BY <1>8, <3>2, <3>3, <3>4 DEF UpdatePart, UploadFile, CommitInvoice, ReplaceFile,
              CommitUrl, RemoveFile, DeleteInvoice
  <2>3. call[c].to = None
    BY <1>0, <1>8 DEF UpdatePart, RecordEdit, RecordPartDeletion, UploadFile, CommitInvoice,
                ReplaceFile, CommitUrl, RemoveFile, RecordRemoval, DeleteInvoice, RecordInvoice,
                Enter, CallOK, OnStatus
  <2>4. ASSUME NEW new, call' = [call EXCEPT ![c] = new], new.to = None PROVE ChainInv'
    BY <2>1, <2>2, <2>3, <2>4, QuietStep
  <2>5. ASSUME NEW pc, call' = [call EXCEPT ![c] = [call[c] EXCEPT !.pc = pc]] PROVE ChainInv'
    <3> DEFINE new == [call[c] EXCEPT !.pc = pc]
    <3>1. new.to = None
      BY <2>3 DEF CallRow
    <3> HIDE DEF new
    <3>2. QED
      BY <2>4, <2>5, <3>1 DEF new
  <2>6. CASE RecordEdit(c) \/ DeleteInvoice(c) \/ RecordInvoice(c)
    BY <1>0, <2>4, <2>6 DEF RecordEdit, DeleteInvoice, RecordInvoice, Become
  <2>7. CASE CommitInvoice(c) \/ CommitUrl(c) \/ RecordRemoval(c)
    BY <2>5, <2>7 DEF CommitInvoice, CommitUrl, RecordRemoval, Become
  <2>8. ASSUME NEW pc, NEW p, NEW i, NEW url,
               call' = [call EXCEPT ![c] = [Idle EXCEPT !.pc = pc, !.part = p, !.invoice = i,
                                                        !.url = url]]
        PROVE  ChainInv'
    <3> DEFINE new == [Idle EXCEPT !.pc = pc, !.part = p, !.invoice = i, !.url = url]
    <3>1. new.to = None
      BY DEF Idle
    <3> HIDE DEF new
    <3>2. QED
      BY <2>4, <2>8, <3>1 DEF new
  <2>9. ASSUME NEW pc, NEW p,
               call' = [call EXCEPT ![c] = [Idle EXCEPT !.pc = pc, !.part = p]]
        PROVE  ChainInv'
    <3> DEFINE new == [Idle EXCEPT !.pc = pc, !.part = p]
    <3>1. new.to = None
      BY DEF Idle
    <3> HIDE DEF new
    <3>2. QED
      BY <2>4, <2>9, <3>1 DEF new
  <2>10. ASSUME NEW pc, NEW p, NEW i,
               call' = [call EXCEPT ![c] = [Idle EXCEPT !.pc = pc, !.part = p, !.invoice = i]]
        PROVE  ChainInv'
    <3> DEFINE new == [Idle EXCEPT !.pc = pc, !.part = p, !.invoice = i]
    <3>1. new.to = None
      BY DEF Idle
    <3> HIDE DEF new
    <3>2. QED
      BY <2>4, <2>10, <3>1 DEF new
  <2>11. CASE UpdatePart(c) \/ RecordPartDeletion(c)
    BY <2>9, <2>11 DEF UpdatePart, RecordPartDeletion, Enter
  <2>12. CASE UploadFile(c) \/ ReplaceFile(c)
    BY <2>8, <2>12 DEF UploadFile, ReplaceFile, Enter
  <2>13. CASE RemoveFile(c)
    BY <2>10, <2>13 DEF RemoveFile, Enter
  <2>14. QED
    BY <1>8, <2>6, <2>7, <2>11, <2>12, <2>13
<1>9. CASE Tick \/ UNCHANGED vars
  <2>1. UNCHANGED <<rows, call, overlapped, crashes>>
    BY <1>9 DEF Tick, vars
  <2>2. \A p \in Parts : Alone(p)' => Alone(p)
    BY <2>1 DEF Alone
  <2>3. QED
    BY <2>1, <2>2, KeepChain DEF ChainInv
<1>10. QED
  BY <1>1, <1>2, <1>3, <1>4, <1>5, <1>6, <1>7, <1>8, <1>9 DEF Next

\* StatusHistoryChains: the changes of status on record lead from the first status to
\* the present one without a gap.
THEOREM StatusChangesChain == Spec => []StatusHistoryChains
<1>1. Init => ChainInv
  BY DEF Init, ChainInv, Alone
<1>2. Types /\ ChainInv /\ [Next]_vars => ChainInv'
  BY StepKeepsChains
<1>3. Types /\ ChainInv => StatusHistoryChains
  <2> SUFFICES ASSUME Types, ChainInv, NEW p \in Parts, Alone(p)
               PROVE  LET s == history[p].status
                          At(n) == IF n = 0 THEN Initial ELSE s[n][2]
                      IN /\ \A n \in 1 .. Len(s) : s[n][1] = At(n - 1)
                         /\ (\A c \in Calls : call[c].part # p) => status[p] = At(Len(s))
    BY DEF StatusHistoryChains, Alone
  <2>1. ChainOf(p)
    BY DEF ChainInv
  <2>2. Chained(history[p].status)
    BY <2>1 DEF ChainOf
  <2>3. (\A c \in Calls : call[c].part # p) => status[p] = LastOf(p)
    BY <2>1 DEF ChainOf, Changes
  <2>4. QED
    BY <2>2, <2>3 DEF Chained, LastOf, After
<1>4. Types /\ [Next]_vars => Types'
  BY StepKeepsTypes
<1>5. QED
  BY <1>1, <1>2, <1>3, <1>4, InitTypes, PTL DEF Spec
=============================================================================
