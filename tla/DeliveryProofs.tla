---------------------------- MODULE DeliveryProofs ----------------------------
(***************************************************************************)
(* Theorems of ReportDelivery, for any number of jobs, organizations,      *)
(* businesses and attempts.                                                *)
(***************************************************************************)
EXTENDS ReportDelivery, SumTheorems

\* The steps of one job, without the quantifier over ids.
JobStep(j) == GenerateReport(j) \/ ScheduleJob(j) \/ Step(j)

-----------------------------------------------------------------------------
\* Every variable keeps its type; the provider never accepts more than
\* max_attempts messages for a job.
LEMMA AttemptBound ==
    ASSUME TypeOK, DeliveryInv, NEW j \in JobIds, at[j] = "send"
    PROVE  accepted[j] + 1 \in 0..MaxAttempts /\ tries[j] + 1 \in 0..MaxAttempts
<1>1. MaxAttempts \in Nat /\ tries[j] \in 0..MaxAttempts /\ accepted[j] \in 0..MaxAttempts
  BY DeliveryAssumption DEF TypeOK
<1>2. accepted[j] <= tries[j] /\ tries[j] < MaxAttempts
  BY DEF DeliveryInv, JobInv
<1> QED
  BY <1>1, <1>2

\* A row before it has its number, and the row it becomes.
Draft == [job : JobIds \cup {NoJob}, org : Orgs \cup {System},
          business : Businesses \cup {System}, status : {"sent", "failed"}]

LEMMA NumberedTyped ==
    ASSUME TypeOK, NEW row \in Draft
    PROVE  Numbered(row) \in Row
<1>1. IsFiniteSet({r \in ledger : r.job = row.job})
  <2>1. {r \in ledger : r.job = row.job} \subseteq ledger
    OBVIOUS
  <2> QED
    BY <2>1, FS_Subset DEF TypeOK
<1> DEFINE n == Cardinality({r \in ledger : r.job = row.job})
<1>2. n \in Nat
  BY <1>1, FS_CardinalityType
<1> HIDE DEF n
<1>3. n + 1 \in Nat \ {0}
  BY <1>2
<1>4. /\ row.job \in JobIds \cup {NoJob} /\ row.org \in Orgs \cup {System}
      /\ row.business \in Businesses \cup {System} /\ row.status \in {"sent", "failed"}
  BY DEF Draft
<1>5. Numbered(row) = [id |-> n + 1, job |-> row.job, org |-> row.org,
                       business |-> row.business, status |-> row.status]
  BY DEF Numbered, n
<1> QED
  BY <1>3, <1>4, <1>5 DEF Row

LEMMA NumberedKeeps ==
    \A row : /\ Numbered(row).job = row.job /\ Numbered(row).org = row.org
             /\ Numbered(row).business = row.business /\ Numbered(row).status = row.status
BY DEF Numbered

LEMMA LogTyped ==
    ASSUME TypeOK, NEW row \in Draft, LogWhatsapp(row)
    PROVE  ledger' \subseteq Row /\ IsFiniteSet(ledger')
<1>1. Numbered(row) \in Row
  BY NumberedTyped
<1>2. ledger \subseteq Row /\ IsFiniteSet(ledger)
  BY DEF TypeOK
<1>3. IsFiniteSet(ledger \cup {Numbered(row)})
  BY <1>2, FS_AddElement
<1>4. ledger' = ledger \/ ledger' = ledger \cup {Numbered(row)}
  BY DEF LogWhatsapp
<1> QED
  BY <1>1, <1>2, <1>3, <1>4

\* What the log functions write is a row of their table.
LEMMA RowsTyped ==
    ASSUME TypeOK, DeliveryInv, NEW j \in JobIds, source[j] # None
    PROVE  /\ SendRow(j, "sent") \in Draft /\ SendRow(j, "failed") \in Draft
           /\ SendEvent(j, "success") \in Event /\ SendEvent(j, "failed") \in Event
           /\ [job |-> j, org |-> org[j], business |-> business[j],
               type |-> "report", status |-> "success"] \in Event
           /\ [job |-> j, org |-> org[j], business |-> business[j],
               type |-> "error", status |-> "failed"] \in Event
<1>1. business[j] \in Businesses /\ org[j] \in Orgs
  BY DEF TypeOK, DeliveryInv, JobInv
<1> QED
  BY <1>1 DEF SendRow, SendEvent, SendOrg, Draft, Event

\* A job is created for the organization of its business, or for the default one
\* when its business has none.
LEMMA OrderPlaced ==
    ASSUME TypeOK, NEW j \in JobIds, GenerateReport(j) \/ ScheduleJob(j)
    PROVE  \E who \in {"admin", "scheduler"}, b \in Businesses, o \in Orgs :
              /\ Create(j, who, b, o)
              /\ owner[b] = o \/ (o = DefaultOrg /\ owner[b] = None)
<1>1. \A b \in Businesses : owner[b] \in Orgs \cup {None}
  BY DEF TypeOK
<1>2. CASE ScheduleJob(j)
  BY <1>1, <1>2 DEF ScheduleJob
<1>3. CASE GenerateReport(j)
  <2>1. PICK b \in Businesses, context \in Orgs \cup {None} :
          Resolved(context, b) # None /\ Create(j, "admin", b, Resolved(context, b))
    BY <1>3 DEF GenerateReport
  <2> DEFINE o == Resolved(context, b)
  <2>2. o \in Orgs /\ (owner[b] = o \/ (o = DefaultOrg /\ owner[b] = None))
    BY <1>1, <2>1, DeliveryAssumption DEF Resolved
  <2> QED
    BY <2>1, <2>2
<1> QED
  BY <1>2, <1>3

\* A test message writes rows that belong to no job and to no organization.
LEMMA TestRows ==
    ASSUME SendTest
    PROVE  /\ \A row \in ledger' : row \in ledger \/ (row.job = NoJob /\ row.org = System)
           /\ \A event \in timeline' : event \in timeline \/ event.org = System
<1>1. PICK ok \in BOOLEAN :
          /\ LogWhatsapp([job |-> NoJob, org |-> System, business |-> System,
                          status |-> IF ok THEN "sent" ELSE "failed"])
          /\ LogActivity([job |-> NoJob, org |-> System, business |-> System,
                          type |-> "whatsapp",
                          status |-> IF ok THEN "success" ELSE "failed"])
  BY DEF SendTest
<1>2. PICK row : ledger' \subseteq ledger \cup {row} /\ row.job = NoJob /\ row.org = System
  <2> DEFINE draft == [job |-> NoJob, org |-> System, business |-> System,
                       status |-> IF ok THEN "sent" ELSE "failed"]
  <2>1. draft.job = NoJob /\ draft.org = System
    OBVIOUS
  <2>2. LogWhatsapp(draft)
    BY <1>1
  <2> HIDE DEF draft
  <2>3. ledger' \subseteq ledger \cup {Numbered(draft)}
    BY <2>2 DEF LogWhatsapp
  <2> QED
    BY <2>1, <2>3, NumberedKeeps
<1>3. \A event \in timeline' : event \in timeline \/ event.org = System
  BY <1>1 DEF LogActivity
<1> QED
  BY <1>2, <1>3

LEMMA TypeStep == TypeOK /\ DeliveryInv /\ [Next]_vars => TypeOK'
<1> SUFFICES ASSUME TypeOK, DeliveryInv, [Next]_vars PROVE TypeOK'
  OBVIOUS
<1>1. ASSUME NEW j \in JobIds, NEW who \in {"admin", "scheduler"}, NEW b \in Businesses,
             NEW o \in Orgs, Create(j, who, b, o)
      PROVE  TypeOK'
  BY <1>1 DEF Create, TypeOK, Results
<1>2. ASSUME NEW j \in JobIds, Start(j) PROVE TypeOK'
  BY <1>2 DEF Start, orderVars, TypeOK
<1>3. ASSUME NEW j \in JobIds, Computed(j) PROVE TypeOK'
  BY <1>3 DEF Computed, orderVars, TypeOK
<1>4. ASSUME NEW j \in JobIds, ComputeFails(j) PROVE TypeOK'
  BY <1>4 DEF ComputeFails, orderVars, TypeOK
<1>5. ASSUME NEW j \in JobIds, LogReport(j) \/ LogError(j) PROVE TypeOK'
  <2>1. timeline' \subseteq Event
    <3>1. \/ LogActivity([job |-> j, org |-> org[j], business |-> business[j],
                          type |-> "report", status |-> "success"])
          \/ LogActivity([job |-> j, org |-> org[j], business |-> business[j],
                          type |-> "error", status |-> "failed"])
      BY <1>5 DEF LogReport, LogError, LogJob
    <3>2. timeline \subseteq Event
      BY DEF TypeOK
    <3>3. /\ [job |-> j, org |-> org[j], business |-> business[j],
              type |-> "report", status |-> "success"] \in Event
          /\ [job |-> j, org |-> org[j], business |-> business[j],
              type |-> "error", status |-> "failed"] \in Event
      <4>1. source[j] # None
        BY <1>5 DEF LogReport, LogError, LogJob, DeliveryInv, JobInv, None
      <4> QED
        BY <4>1, RowsTyped
    <3> QED
      BY <3>1, <3>2, <3>3, Zenon DEF LogActivity
  <2>2. at' = [at EXCEPT ![j] = "phone"] \/ at' = [at EXCEPT ![j] = "end"]
    BY <1>5 DEF LogReport, LogError, LogJob
  <2>3. UNCHANGED <<orderVars, status, whatsapp, tries, accepted, ledger>>
    BY <1>5 DEF LogReport, LogError, LogJob
  <2> QED
    BY <2>1, <2>2, <2>3 DEF orderVars, TypeOK
<1>6. ASSUME NEW j \in JobIds, NEW r \in Results, Conclude(j, r), timeline' \subseteq Event
      PROVE  TypeOK'
  BY <1>6 DEF Conclude, AfterDelivery, orderVars, TypeOK, Results
<1>7. ASSUME NEW j \in JobIds, DeliveryDisabled(j) \/ NoPhone(j) PROVE TypeOK'
  <2>1. timeline' \subseteq Event
    <3>1. source[j] # None
      BY <1>7 DEF DeliveryDisabled, NoPhone, DeliveryInv, JobInv, None
    <3> QED
      BY <1>7, <3>1, RowsTyped DEF DeliveryDisabled, NoPhone, LogActivity, TypeOK
  <2> QED
    <3>1. Conclude(j, "disabled") \/ Conclude(j, "no phone")
      BY <1>7 DEF DeliveryDisabled, NoPhone
    <3>2. "disabled" \in Results /\ "no phone" \in Results
      BY DEF Results
    <3> QED
      BY <1>6, <2>1, <3>1, <3>2
<1>8. ASSUME NEW j \in JobIds, PhoneFound(j) PROVE TypeOK'
  BY <1>8 DEF PhoneFound, orderVars, TypeOK
<1>9. ASSUME NEW j \in JobIds, Send(j) PROVE TypeOK'
  BY <1>9, AttemptBound DEF Send, orderVars, TypeOK
<1>10. ASSUME NEW j \in JobIds, SendRaises(j) PROVE TypeOK'
  BY <1>10, AttemptBound DEF SendRaises, orderVars, TypeOK
<1>11. ASSUME NEW j \in JobIds, RecordSent(j) \/ RecordFailed(j) PROVE TypeOK'
  <2>1. ledger' \subseteq Row /\ IsFiniteSet(ledger')
    <3>1. source[j] # None
      BY <1>11 DEF RecordSent, RecordFailed, LogDelivery, DeliveryInv, JobInv, None
    <3>2. SendRow(j, "sent") \in Draft /\ SendRow(j, "failed") \in Draft
      BY <3>1, RowsTyped
    <3>3. LogWhatsapp(SendRow(j, "sent")) \/ LogWhatsapp(SendRow(j, "failed"))
      BY <1>11 DEF RecordSent, RecordFailed, LogDelivery
    <3> QED
      BY <3>2, <3>3, LogTyped
  <2>2. at' = [at EXCEPT ![j] = "note"] \/ at' = [at EXCEPT ![j] = "tell"]
    BY <1>11 DEF RecordSent, RecordFailed, LogDelivery
  <2>3. UNCHANGED <<orderVars, status, whatsapp, tries, accepted, timeline>>
    BY <1>11 DEF RecordSent, RecordFailed, LogDelivery
  <2> QED
    BY <2>1, <2>2, <2>3 DEF orderVars, TypeOK
<1>12. ASSUME NEW j \in JobIds, TellSent(j) \/ TellFailed(j) PROVE TypeOK'
  <2>1. timeline' \subseteq Event
    <3>1. source[j] # None
      BY <1>12 DEF TellSent, TellFailed, Told, DeliveryInv, JobInv, None
    <3> QED
      BY <1>12, <3>1, RowsTyped DEF TellSent, TellFailed, Told, LogActivity, TypeOK
  <2> QED
    <3>1. Conclude(j, "sent") \/ Conclude(j, "failed")
      BY <1>12 DEF TellSent, TellFailed, Told
    <3>2. "sent" \in Results /\ "failed" \in Results
      BY DEF Results
    <3> QED
      BY <1>6, <2>1, <3>1, <3>2
<1>13. CASE SendTest
  <2>1. PICK ok \in BOOLEAN :
          /\ LogWhatsapp([job |-> NoJob, org |-> System, business |-> System,
                          status |-> IF ok THEN "sent" ELSE "failed"])
          /\ LogActivity([job |-> NoJob, org |-> System, business |-> System,
                          type |-> "whatsapp",
                          status |-> IF ok THEN "success" ELSE "failed"])
    BY <1>13 DEF SendTest
  <2>2. ledger' \subseteq Row /\ IsFiniteSet(ledger')
    <3>1. PICK o \in {"sent", "failed"} :
            LogWhatsapp([job |-> NoJob, org |-> System, business |-> System, status |-> o])
      BY <2>1
    <3>2. [job |-> NoJob, org |-> System, business |-> System, status |-> o] \in Draft
      BY DEF Draft
    <3> QED
      BY <3>1, <3>2, LogTyped
  <2>3. timeline' \subseteq Event
    <3>1. \E o \in {"success", "failed"} :
            LogActivity([job |-> NoJob, org |-> System, business |-> System,
                         type |-> "whatsapp", status |-> o])
      BY <2>1
    <3>2. timeline \subseteq Event
      BY DEF TypeOK
    <3>3. \A o \in {"success", "failed"} :
            [job |-> NoJob, org |-> System, business |-> System,
             type |-> "whatsapp", status |-> o] \in Event
      BY DEF Event
    <3> QED
      BY <3>1, <3>2, <3>3 DEF LogActivity
  <2> QED
    BY <1>13, <2>2, <2>3 DEF SendTest, jobVars, orderVars, TypeOK
<1>14. CASE Restart
  BY <1>14 DEF Restart, orderVars, TypeOK
<1>15. CASE UNCHANGED vars
  BY <1>15 DEF vars, jobVars, orderVars, TypeOK
<1>16. ASSUME NEW j \in JobIds, GenerateReport(j) \/ ScheduleJob(j) PROVE TypeOK'
  BY <1>1, <1>16, OrderPlaced
<1>17. ASSUME NEW b \in Businesses, Register(b) PROVE TypeOK'
  BY <1>17 DEF Register, TypeOK
<1> QED
  BY <1>2, <1>3, <1>4, <1>5, <1>7, <1>8, <1>9, <1>10, <1>11, <1>12, <1>13, <1>14, <1>15, <1>16,
     <1>17
  DEF Next, Step

-----------------------------------------------------------------------------
(***************************************************************************)
(* A step of a job disturbs that job only: its fields, and rows of its own.*)
(***************************************************************************)
SameFields(j) == /\ source'[j] = source[j] /\ status'[j] = status[j] /\ at'[j] = at[j]
                 /\ tries'[j] = tries[j] /\ accepted'[j] = accepted[j]
                 /\ whatsapp'[j] = whatsapp[j]
                 /\ org'[j] = org[j] /\ business'[j] = business[j]
OnlyJob(j) == /\ \A k \in JobIds \ {j} : SameFields(k)
              /\ owner' = owner /\ legacy \subseteq legacy'
              /\ \A row \in ledger' : row \in ledger \/ row.job = j

LEMMA StepOnlyJob ==
    ASSUME TypeOK, NEW j \in JobIds, JobStep(j)
    PROVE  OnlyJob(j)
<1> USE DEF OnlyJob, SameFields, TypeOK, orderVars
<1>1. ASSUME NEW who, NEW b, NEW o, Create(j, who, b, o) PROVE OnlyJob(j)
  BY <1>1 DEF Create
<1>2. CASE GenerateReport(j) \/ ScheduleJob(j)
  BY <1>1, <1>2 DEF GenerateReport, ScheduleJob
<1>3. CASE Start(j) \/ Computed(j) \/ ComputeFails(j)
  BY <1>3 DEF Start, Computed, ComputeFails
<1>4. CASE LogReport(j) \/ LogError(j)
  BY <1>4 DEF LogReport, LogError, LogJob
<1>5. ASSUME NEW r, Conclude(j, r) PROVE OnlyJob(j)
  BY <1>5 DEF Conclude
<1>6. CASE DeliveryDisabled(j) \/ NoPhone(j) \/ TellSent(j) \/ TellFailed(j)
  BY <1>5, <1>6 DEF DeliveryDisabled, NoPhone, TellSent, TellFailed, Told
<1>7. CASE PhoneFound(j)
  BY <1>7 DEF PhoneFound
<1>8. CASE Send(j)
  BY <1>8 DEF Send
<1>9. CASE SendRaises(j)
  BY <1>9 DEF SendRaises
<1>10. CASE RecordSent(j) \/ RecordFailed(j)
  <2>1. \A row \in ledger' : row \in ledger \/ row.job = j
    <3>1. \E o : LogWhatsapp(SendRow(j, o))
      BY <1>10 DEF RecordSent, RecordFailed, LogDelivery
    <3>2. \A o : Numbered(SendRow(j, o)).job = j
      BY DEF SendRow, Numbered
    <3> QED
      BY <3>1, <3>2 DEF LogWhatsapp
  <2>2. /\ \A k \in JobIds \ {j} : SameFields(k)
        /\ owner' = owner /\ legacy \subseteq legacy'
    BY <1>10 DEF RecordSent, RecordFailed, LogDelivery
  <2> QED
    BY <2>1, <2>2
<1> QED
  BY <1>2, <1>3, <1>4, <1>6, <1>7, <1>8, <1>9, <1>10 DEF JobStep, Step

\* The other jobs keep their invariant.
LEMMA OthersKept ==
    ASSUME DeliveryInv, NEW j \in JobIds, OnlyJob(j), JobInv(j)'
    PROVE  DeliveryInv'
<1> SUFFICES ASSUME NEW k \in JobIds \ {j} PROVE JobInv(k)'
  BY DEF DeliveryInv
<1>1. JobInv(k) /\ SameFields(k)
  BY DEF DeliveryInv, OnlyJob
<1>2. (\A row \in ledger : row.job # k) => \A row \in ledger' : row.job # k
  BY DEF OnlyJob
<1> QED
  BY <1>1, <1>2 DEF JobInv, SameFields

-----------------------------------------------------------------------------
LEMMA DeliveryStep == TypeOK /\ DeliveryInv /\ [Next]_vars => DeliveryInv'
<1> SUFFICES ASSUME TypeOK, DeliveryInv, [Next]_vars PROVE DeliveryInv'
  OBVIOUS
<1>1. ASSUME NEW j \in JobIds, JobStep(j) PROVE JobInv(j)'
  <2> USE DEF Unsent, Unlogged, None, orderVars
  <2>1. JobInv(j)
    BY DEF DeliveryInv
  <2>2. /\ j \in DOMAIN source /\ j \in DOMAIN status /\ j \in DOMAIN at
        /\ j \in DOMAIN tries /\ j \in DOMAIN accepted /\ j \in DOMAIN whatsapp
        /\ source \in [JobIds -> {None, "admin", "scheduler"}]
        /\ org \in [JobIds -> Orgs \cup {None}]
    BY DEF TypeOK
  <2>3. tries[j] \in Nat /\ accepted[j] \in Nat /\ MaxAttempts \in Nat \ {0}
    <3>1. MaxAttempts \in Nat \ {0}
      BY DeliveryAssumption
    <3>2. tries \in [JobIds -> 0..MaxAttempts] /\ accepted \in [JobIds -> 0..MaxAttempts]
      BY DEF TypeOK
    <3>3. tries[j] \in 0..MaxAttempts /\ accepted[j] \in 0..MaxAttempts
      BY <3>2
    <3> QED
      BY <3>1, <3>3
  <2>4. ASSUME NEW who \in {"admin", "scheduler"}, NEW b, NEW o \in Orgs, Create(j, who, b, o)
        PROVE  JobInv(j)'
    BY <2>1, <2>2, <2>4 DEF Create, JobInv
  <2>5. CASE GenerateReport(j) \/ ScheduleJob(j)
    BY <2>4, <2>5, OrderPlaced
  <2>6. CASE Start(j) \/ Computed(j) \/ ComputeFails(j)
    BY <2>1, <2>2, <2>6 DEF Start, Computed, ComputeFails, JobInv
  <2>7. CASE LogReport(j) \/ LogError(j)
    BY <2>1, <2>2, <2>7 DEF LogReport, LogError, LogJob, JobInv
  <2>8. ASSUME NEW r, r # None, Conclude(j, r), at[j] # None PROVE JobInv(j)'
    BY <2>1, <2>2, <2>8 DEF Conclude, AfterDelivery, JobInv
  <2>9. CASE DeliveryDisabled(j) \/ NoPhone(j) \/ TellSent(j) \/ TellFailed(j)
    BY <2>8, <2>9 DEF DeliveryDisabled, NoPhone, TellSent, TellFailed, Told
  <2>10. CASE PhoneFound(j)
    <3>1. /\ at[j] = "phone"
          /\ at' = [at EXCEPT ![j] = "send"] \/ at' = [at EXCEPT ![j] = "gave up"]
          /\ UNCHANGED <<source, org, status, whatsapp, tries, accepted, ledger>>
      BY <2>10 DEF PhoneFound
    <3>2. /\ at'[j] \in {"send", "gave up"} /\ source[j] # None /\ status[j] = "completed"
          /\ org[j] \in Orgs
      BY <2>1, <2>2, <3>1 DEF JobInv
    <3>3. accepted[j] = 0 /\ tries[j] = 0 /\ \A row \in ledger : row.job # j
      BY <2>1, <3>1 DEF JobInv
    <3>4. accepted'[j] <= tries'[j] /\ tries'[j] < MaxAttempts
      <4>1. accepted'[j] = 0 /\ tries'[j] = 0
        BY <3>1, <3>3
      <4> QED
        BY <2>3, <4>1
    <3> QED
      BY <3>1, <3>2, <3>3, <3>4 DEF JobInv
  <2>11. CASE Send(j)
    BY <2>1, <2>2, <2>3, <2>11 DEF Send, JobInv
  <2>12. CASE SendRaises(j)
    <3>1. /\ at[j] = "send"
          /\ accepted'[j] \in {accepted[j], accepted[j] + 1} /\ tries'[j] = tries[j] + 1
          /\ \/ at'[j] = "send" /\ tries[j] + 1 < MaxAttempts
             \/ at'[j] = "gave up"
          /\ UNCHANGED <<source, org, status, whatsapp, ledger>>
      BY <2>2, <2>12 DEF SendRaises
    <3>2. /\ source[j] # None /\ status[j] = "completed" /\ \A row \in ledger : row.job # j
          /\ org[j] \in Orgs
      BY <2>1, <3>1 DEF JobInv
    <3>3. accepted[j] <= tries[j]
      BY <2>1, <3>1 DEF JobInv
    <3>4. /\ accepted'[j] <= tries'[j]
          /\ at'[j] = "send" => tries'[j] < MaxAttempts
      <4>1. /\ accepted'[j] = accepted[j] \/ accepted'[j] = accepted[j] + 1
            /\ tries'[j] = tries[j] + 1
        BY <3>1
      <4>2. at'[j] = "send" => tries'[j] < MaxAttempts
        BY <3>1
      <4>3. accepted'[j] <= tries'[j]
        BY <2>3, <3>3, <4>1
      <4> QED
        BY <4>2, <4>3
    <3> QED
      BY <3>1, <3>2, <3>4 DEF JobInv
  <2>13. CASE RecordSent(j) \/ RecordFailed(j)
    BY <2>1, <2>2, <2>13 DEF RecordSent, RecordFailed, LogDelivery, JobInv
  <2> QED
    BY <1>1, <2>5, <2>6, <2>7, <2>9, <2>10, <2>11, <2>12, <2>13 DEF JobStep, Step
<1>2. ASSUME NEW j \in JobIds, JobStep(j) PROVE DeliveryInv'
  BY <1>1, <1>2, StepOnlyJob, OthersKept
<1>3. CASE SendTest
  <2>1. \A row \in ledger' : row \in ledger \/ row.job = NoJob
    BY <1>3, TestRows
  <2> QED
    <3>1. UNCHANGED <<source, org, status, whatsapp, at, tries, accepted>>
      BY <1>3 DEF SendTest, jobVars, orderVars
    <3> SUFFICES ASSUME NEW j \in JobIds PROVE JobInv(j)'
      BY DEF DeliveryInv
    <3>2. (\A row \in ledger : row.job # j) => \A row \in ledger' : row.job # j
      BY <2>1, NamesAssumption
    <3> QED
      BY <3>1, <3>2 DEF DeliveryInv, JobInv
<1>4. CASE Restart
  BY <1>4 DEF Restart, orderVars, DeliveryInv, JobInv, Unsent, Unlogged, None
<1>5. CASE UNCHANGED vars
  BY <1>5 DEF vars, jobVars, orderVars, DeliveryInv, JobInv
<1>6. CASE \E b \in Businesses : Register(b)
  BY <1>6 DEF Register, DeliveryInv, JobInv
<1> QED
  BY <1>2, <1>3, <1>4, <1>5, <1>6 DEF Next, JobStep

-----------------------------------------------------------------------------
LEMMA Initially == Init => TypeOK /\ DeliveryInv /\ LedgerHonest
BY DeliveryAssumption, FS_EmptySet DEF Init, TypeOK, DeliveryInv, JobInv, LedgerHonest,
   Results, Unsent, Unlogged, None

\* Every variable keeps its type, and the provider never accepts more than
\* max_attempts messages for one job (_send_whatsapp_report).
THEOREM TypeCorrect == Spec => []TypeOK
BY Initially, TypeStep, DeliveryStep, PTL DEF Spec

\* The inductive invariant: where a thread is tells what was sent for its job
\* and that the job's row is not written yet.
THEOREM DeliveryInvariant == Spec => []DeliveryInv
BY Initially, TypeStep, DeliveryStep, PTL DEF Spec

\* A job that has ended and completed says what became of its delivery.
THEOREM ConcludeTheorem == Spec => []JobsConclude
<1>1. DeliveryInv => JobsConclude
  BY DEF DeliveryInv, JobInv, JobsConclude
<1> QED
  BY <1>1, DeliveryInvariant, PTL

-----------------------------------------------------------------------------
(***************************************************************************)
(* The ledger.  A step only adds to what the provider accepted, adds at    *)
(* most one row, and says "sent" only after the provider accepted.         *)
(***************************************************************************)
LedgerGrowth(j) ==
    /\ \A k \in JobIds : accepted[k] > 0 => accepted'[k] > 0
    /\ \/ ledger' = ledger
       \/ \E row : /\ ledger' = ledger \cup {row} /\ row.job = j
                   /\ row.status = "sent" => accepted[j] > 0
                   /\ \A old \in ledger : old.job # j
    /\ \A k \in JobIds : whatsapp'[k] = "sent" => whatsapp[k] = "sent" \/ accepted[k] > 0

LEMMA JobGrowth ==
    ASSUME TypeOK, DeliveryInv, NEW j \in JobIds, JobStep(j)
    PROVE  LedgerGrowth(j)
<1>1. JobInv(j)
  BY DEF DeliveryInv
<1>2. \A k \in JobIds : accepted[k] \in Nat
  <2>1. accepted \in [JobIds -> 0..MaxAttempts]
    BY DEF TypeOK
  <2> QED
    BY <2>1, DeliveryAssumption
<1>3. CASE UNCHANGED <<accepted, ledger, whatsapp>>
  BY <1>3 DEF LedgerGrowth
<1>4. CASE \/ GenerateReport(j) \/ ScheduleJob(j) \/ Start(j) \/ Computed(j) \/ ComputeFails(j)
           \/ LogReport(j) \/ LogError(j) \/ PhoneFound(j)
  <2>1. UNCHANGED <<accepted, ledger, whatsapp>>
    BY <1>4 DEF GenerateReport, ScheduleJob, Create, Start, Computed, ComputeFails,
                LogReport, LogError, LogJob, PhoneFound
  <2> QED
    BY <1>3, <2>1
<1>5. ASSUME NEW r \in Results, Conclude(j, r), r = "sent" => accepted[j] > 0
      PROVE  LedgerGrowth(j)
  <2>1. whatsapp \in [JobIds -> Results]
    BY DEF TypeOK
  <2> QED
    BY <1>5, <2>1 DEF Conclude, LedgerGrowth
<1>6. CASE DeliveryDisabled(j) \/ NoPhone(j) \/ TellFailed(j)
  <2>1. \E r \in {"disabled", "no phone", "failed"} : Conclude(j, r)
    BY <1>6 DEF DeliveryDisabled, NoPhone, TellFailed, Told
  <2> QED
    BY <1>5, <2>1 DEF Results
<1>7. CASE TellSent(j)
  <2>1. Conclude(j, "sent") /\ accepted[j] > 0
    BY <1>1, <1>7 DEF TellSent, Told, JobInv
  <2> QED
    BY <1>5, <2>1 DEF Results
<1>8. CASE Send(j) \/ SendRaises(j)
  <2>1. UNCHANGED <<ledger, whatsapp>>
    BY <1>8 DEF Send, SendRaises
  <2>2. accepted' \in {accepted, [accepted EXCEPT ![j] = @ + 1]}
    BY <1>8 DEF Send, SendRaises
  <2>3. accepted \in [JobIds -> 0..MaxAttempts]
    BY DEF TypeOK
  <2>4. ASSUME NEW k \in JobIds, accepted[k] > 0 PROVE accepted'[k] > 0
    <3>1. accepted'[k] = accepted[k] \/ accepted'[k] = accepted[k] + 1
      BY <2>2, <2>3
    <3> QED
      BY <1>2, <2>4, <3>1
  <2> QED
    BY <2>1, <2>4 DEF LedgerGrowth
<1>9. CASE RecordSent(j) \/ RecordFailed(j)
  <2>1. UNCHANGED <<accepted, whatsapp>>
    BY <1>9 DEF RecordSent, RecordFailed, LogDelivery
  <2>2. \A old \in ledger : old.job # j
    BY <1>1, <1>9 DEF RecordSent, RecordFailed, LogDelivery, JobInv, Unlogged
  <2>3. \E o \in {"sent", "failed"} :
          LogWhatsapp(SendRow(j, o)) /\ (o = "sent" => accepted[j] > 0)
    BY <1>1, <1>9 DEF RecordSent, RecordFailed, LogDelivery, JobInv
  <2>4. \A o : Numbered(SendRow(j, o)).job = j /\ Numbered(SendRow(j, o)).status = o
    BY DEF SendRow, Numbered
  <2> QED
    BY <2>1, <2>2, <2>3, <2>4 DEF LogWhatsapp, LedgerGrowth
<1> QED
  BY <1>4, <1>6, <1>7, <1>8, <1>9 DEF JobStep, Step

LEMMA LedgerStep == TypeOK /\ DeliveryInv /\ LedgerHonest /\ [Next]_vars => LedgerHonest'
<1> SUFFICES ASSUME TypeOK, DeliveryInv, LedgerHonest, [Next]_vars PROVE LedgerHonest'
  OBVIOUS
<1>0. \A row \in ledger : row.job \in JobIds \cup {NoJob}
  BY DEF TypeOK, Row
<1>1. ASSUME NEW j \in JobIds, JobStep(j) PROVE LedgerHonest'
  <2>1. LedgerGrowth(j)
    BY <1>1, JobGrowth
  <2>2. CASE ledger' = ledger
    BY <1>0, <2>1, <2>2 DEF LedgerGrowth, LedgerHonest
  <2>3. ASSUME NEW row, ledger' = ledger \cup {row}, row.job = j,
               row.status = "sent" => accepted[j] > 0, \A old \in ledger : old.job # j
        PROVE  LedgerHonest'
    BY <1>0, <2>1, <2>3 DEF LedgerGrowth, LedgerHonest
  <2> QED
    BY <2>1, <2>2, <2>3 DEF LedgerGrowth
<1>2. CASE SendTest
  <2>1. \A row \in ledger' : row \in ledger \/ row.job = NoJob
    BY <1>2, TestRows
  <2>2. UNCHANGED <<accepted, whatsapp>>
    BY <1>2 DEF SendTest, jobVars
  <2> QED
    BY <2>1, <2>2 DEF LedgerHonest
<1>3. CASE Restart \/ UNCHANGED vars
  BY <1>3 DEF Restart, vars, jobVars, LedgerHonest
<1>4. CASE \E b \in Businesses : Register(b)
  BY <1>4 DEF Register, LedgerHonest
<1> QED
  BY <1>1, <1>2, <1>3, <1>4 DEF Next, JobStep

\* No message is charged that was not accepted and none twice, whatever the
\* interleaving of jobs, lost answers, lost rows and restarts.
THEOREM LedgerTheorem == Spec => []LedgerHonest
BY Initially, TypeStep, DeliveryStep, LedgerStep, PTL DEF Spec

-----------------------------------------------------------------------------
\* A step that sends does so for a completed job, and a job that has sent keeps
\* its status until the process is gone.
LEMMA FailedStep ==
    TypeOK /\ DeliveryInv /\ FailedJobsSendNothing /\ [Next]_vars => FailedJobsSendNothing'
<1> SUFFICES ASSUME TypeOK, DeliveryInv, FailedJobsSendNothing, [Next]_vars
             PROVE  FailedJobsSendNothing'
  OBVIOUS
<1>0. /\ accepted \in [JobIds -> 0..MaxAttempts]
      /\ status \in [JobIds -> {None, "queued", "running", "completed", "failed", "lost"}]
  BY DEF TypeOK
<1>1. ASSUME NEW j \in JobIds, JobStep(j) PROVE FailedJobsSendNothing'
  <2>1. JobInv(j)
    BY DEF DeliveryInv
  <2>2. \A k \in JobIds \ {j} : SameFields(k)
    BY <1>1, StepOnlyJob DEF OnlyJob
  <2>3. SUFFICES accepted'[j] > 0 => \/ status'[j] = "completed"
                                    \/ /\ status'[j] = status[j]
                                       /\ accepted'[j] = accepted[j]
    BY <2>2, <2>3 DEF SameFields, FailedJobsSendNothing
  <2>4. CASE Send(j) \/ SendRaises(j)
    <3>1. at[j] = "send" /\ status' = status
      BY <2>4 DEF Send, SendRaises
    <3>2. status[j] = "completed"
      BY <2>1, <3>1 DEF JobInv
    <3> QED
      BY <3>1, <3>2
  <2>5. CASE GenerateReport(j) \/ ScheduleJob(j) \/ Start(j) \/ Computed(j) \/ ComputeFails(j)
    <3>1. accepted' = accepted /\ at[j] \in Unsent
      BY <2>1, <2>5 DEF GenerateReport, ScheduleJob, Create, Start, Computed, ComputeFails,
                        JobInv, Unsent
    <3>2. accepted[j] = 0
      BY <2>1, <3>1 DEF JobInv
    <3> QED
      BY <3>1, <3>2
  <2>6. CASE \/ LogReport(j) \/ LogError(j) \/ DeliveryDisabled(j) \/ NoPhone(j) \/ PhoneFound(j)
             \/ RecordSent(j) \/ RecordFailed(j) \/ TellSent(j) \/ TellFailed(j)
    BY <2>6 DEF LogReport, LogError, LogJob, DeliveryDisabled, NoPhone, PhoneFound, RecordSent,
                RecordFailed, LogDelivery, TellSent, TellFailed, Told, Conclude
  <2> QED
    BY <1>1, <2>4, <2>5, <2>6 DEF JobStep, Step
<1>2. CASE Restart
  <2>1. \A j \in JobIds : source[j] = None => accepted[j] = 0
    BY DEF DeliveryInv, JobInv, Unsent
  <2> QED
    BY <1>2, <2>1 DEF Restart, FailedJobsSendNothing
<1>3. CASE SendTest \/ UNCHANGED vars
  BY <1>3 DEF SendTest, vars, jobVars, FailedJobsSendNothing
<1>4. CASE \E b \in Businesses : Register(b)
  BY <1>4 DEF Register, FailedJobsSendNothing
<1> QED
  BY <1>1, <1>2, <1>3, <1>4 DEF Next, JobStep

\* A message leaves only for a report that was computed.
THEOREM FailedJobsTheorem == Spec => []FailedJobsSendNothing
<1>1. Init => FailedJobsSendNothing
  BY DEF Init, FailedJobsSendNothing
<1> QED
  BY <1>1, Initially, TypeStep, DeliveryStep, FailedStep, PTL DEF Spec

-----------------------------------------------------------------------------
(***************************************************************************)
(* Who a row or a job is about.                                            *)
(***************************************************************************)
OwnRow(row) == row.org \in Orgs => row.business \in Businesses /\ owner[row.business] = row.org
OwnEvent(event) == event.org \in Orgs =>
                       event.business \in Businesses /\ Mine(event.org, event.business, event.job)

\* Why the rows are an organization's own: the guard has compared the job's
\* organization with the business, and a request that has found a phone has found it
\* in a business of its organization.
Placed(j) ==
    source[j] # None =>
        /\ Mine(org[j], business[j], j)
        /\ source[j] = "admin" /\ at[j] \in {"send", "sent", "gave up"} =>
               owner[business[j]] = org[j]

TenantInv == /\ \A j \in JobIds : Placed(j)
             /\ \A row \in ledger : OwnRow(row)
             /\ \A event \in timeline : OwnEvent(event)

\* A business that has an owner keeps it, and a job that began with a business of
\* nobody stays such a job.
Settled == /\ \A b \in Businesses : owner[b] # None => owner'[b] = owner[b]
           /\ legacy \subseteq legacy'

LEMMA SettledStep == TypeOK /\ [Next]_vars => Settled
<1> SUFFICES ASSUME TypeOK, [Next]_vars PROVE Settled
  OBVIOUS
<1>1. ASSUME NEW j \in JobIds, JobStep(j) PROVE Settled
  BY <1>1, StepOnlyJob DEF OnlyJob, Settled
<1>2. ASSUME NEW b \in Businesses, Register(b) PROVE Settled
  BY <1>2 DEF Register, Settled, TypeOK
<1>3. CASE SendTest \/ Restart \/ UNCHANGED vars
  BY <1>3 DEF SendTest, Restart, vars, jobVars, orderVars, Settled
<1> QED
  BY <1>1, <1>2, <1>3 DEF Next, JobStep

LEMMA RowsKept ==
    ASSUME TypeOK, TenantInv, Settled
    PROVE  /\ \A row \in ledger : OwnRow(row)'
           /\ \A event \in timeline : OwnEvent(event)'
           /\ \A j : \A o \in Orgs, b \in Businesses : Mine(o, b, j) => Mine(o, b, j)'
<1>1. None \notin Orgs
  BY NamesAssumption
<1>2. \A j : \A o \in Orgs, b \in Businesses : Mine(o, b, j) => Mine(o, b, j)'
  BY <1>1 DEF Mine, Settled
<1>3. \A row \in ledger : OwnRow(row)'
  BY <1>1 DEF TenantInv, OwnRow, Settled
<1>4. \A event \in timeline : OwnEvent(event)'
  BY <1>2 DEF TenantInv, OwnEvent
<1> QED
  BY <1>2, <1>3, <1>4

\* The job that takes a step is placed afterwards.
LEMMA PlacedStep ==
    ASSUME TypeOK, DeliveryInv, NEW j \in JobIds, Placed(j), JobStep(j)
    PROVE  Placed(j)'
<1> USE DEF None
<1>1. /\ j \in DOMAIN source /\ j \in DOMAIN at /\ j \in DOMAIN org /\ j \in DOMAIN business
  BY DEF TypeOK
<1>2. owner' = owner /\ legacy \subseteq legacy'
  BY StepOnlyJob DEF OnlyJob
<1>3. source[j] = None => at[j] = None
  BY DEF DeliveryInv, JobInv
<1>4. CASE GenerateReport(j) \/ ScheduleJob(j)
  <2>1. PICK who \in {"admin", "scheduler"}, b \in Businesses, o \in Orgs :
              /\ Create(j, who, b, o)
              /\ owner[b] = o \/ (o = DefaultOrg /\ owner[b] = None)
    BY <1>4, OrderPlaced
  <2>2. org'[j] = o /\ business'[j] = b /\ at'[j] = "start"
    BY <1>1, <2>1 DEF Create
  <2>3. owner[b] = None => j \in legacy'
    BY <2>1 DEF Create
  <2> QED
    BY <1>2, <2>1, <2>2, <2>3 DEF Placed, Mine
<1>5. ASSUME UNCHANGED orderVars, source[j] # None,
             \/ at'[j] \notin {"send", "sent", "gave up"}
             \/ at[j] \in {"send", "sent", "gave up"}
             \/ source[j] = "admin" => owner[business[j]] = org[j]
      PROVE  Placed(j)'
  BY <1>5 DEF orderVars, Placed, Mine
<1>6. CASE \/ Start(j) \/ Computed(j) \/ ComputeFails(j) \/ LogReport(j) \/ LogError(j)
           \/ RecordSent(j) \/ RecordFailed(j)
  BY <1>1, <1>3, <1>5, <1>6 DEF Start, Computed, ComputeFails, LogReport, LogError, LogJob,
                                RecordSent, RecordFailed, LogDelivery
<1>7. CASE DeliveryDisabled(j) \/ NoPhone(j) \/ TellSent(j) \/ TellFailed(j)
  <2>1. UNCHANGED orderVars /\ at'[j] = AfterDelivery(j) /\ at[j] # None
    BY <1>1, <1>7 DEF DeliveryDisabled, NoPhone, TellSent, TellFailed, Told, Conclude
  <2> QED
    BY <1>3, <1>5, <2>1 DEF AfterDelivery
<1>8. CASE PhoneFound(j) \/ Send(j) \/ SendRaises(j)
  BY <1>1, <1>3, <1>5, <1>8 DEF PhoneFound, Send, SendRaises
<1> QED
  BY <1>4, <1>6, <1>7, <1>8 DEF JobStep, Step

\* What a job writes is about a business of the organization it writes with.
LEMMA RowsOwned ==
    ASSUME TypeOK, TenantInv, NEW j \in JobIds, source[j] # None
    PROVE  /\ at[j] \in {"sent", "gave up"} => \A o : OwnRow(Numbered(SendRow(j, o)))
           /\ \A o : OwnEvent(SendEvent(j, o))
           /\ \A type, o : OwnEvent([job |-> j, org |-> org[j],
                                     business |-> business[j], type |-> type, status |-> o])
<1>1. business[j] \in Businesses
  BY DEF TypeOK
<1>2. Placed(j)
  BY DEF TenantInv
<1>3. SendOrg(j) \in Orgs => source[j] = "admin" /\ SendOrg(j) = org[j]
  BY DeliveryAssumption DEF SendOrg
<1> QED
  BY <1>1, <1>2, <1>3 DEF Placed, OwnRow, OwnEvent, Numbered, SendRow, SendEvent

LEMMA TenantStep ==
    TypeOK /\ DeliveryInv /\ TenantInv /\ [Next]_vars => TenantInv'
<1> SUFFICES ASSUME TypeOK, DeliveryInv, TenantInv, [Next]_vars PROVE TenantInv'
  OBVIOUS
<1>1. Settled
  BY SettledStep
<1>2. /\ \A row \in ledger : OwnRow(row)'
      /\ \A event \in timeline : OwnEvent(event)'
      /\ \A j : \A o \in Orgs, b \in Businesses : Mine(o, b, j) => Mine(o, b, j)'
  BY <1>1, RowsKept
<1>3. ASSUME NEW j \in JobIds, JobStep(j) PROVE TenantInv'
  <2>1. \A k \in JobIds : Placed(k)'
    <3>1. Placed(j)'
      BY <1>3, PlacedStep DEF TenantInv
    <3>2. ASSUME NEW k \in JobIds \ {j} PROVE Placed(k)'
      <4>1. SameFields(k) /\ owner' = owner /\ legacy \subseteq legacy'
        BY <1>3, StepOnlyJob DEF OnlyJob
      <4>2. Placed(k)
        BY DEF TenantInv
      <4> QED
        BY <4>1, <4>2 DEF SameFields, Placed, Mine
    <3> QED
      BY <3>1, <3>2
  <2>2. ASSUME NEW row, OwnRow(row) PROVE OwnRow(row)'
    BY <1>3, <2>2, StepOnlyJob DEF OnlyJob, OwnRow
  <2>3. ASSUME NEW event, OwnEvent(event) PROVE OwnEvent(event)'
    BY <1>3, <2>3, StepOnlyJob DEF OnlyJob, OwnEvent, Mine
  <2>4. at[j] # None => source[j] # None
    BY DEF DeliveryInv, JobInv
  <2>5. CASE UNCHANGED <<ledger, timeline>>
    BY <1>2, <2>1, <2>5 DEF TenantInv
  <2>6. CASE \/ GenerateReport(j) \/ ScheduleJob(j) \/ Start(j) \/ Computed(j) \/ ComputeFails(j)
             \/ DeliveryDisabled(j) \/ PhoneFound(j) \/ Send(j) \/ SendRaises(j)
    <3>1. UNCHANGED <<ledger, timeline>>
      BY <2>6 DEF GenerateReport, ScheduleJob, Create, Start, Computed, ComputeFails,
                  DeliveryDisabled, Conclude, PhoneFound, Send, SendRaises
    <3> QED
      BY <2>5, <3>1
  <2>7. ASSUME NEW event, OwnEvent(event), timeline' \subseteq timeline \cup {event},
               ledger' = ledger
        PROVE  TenantInv'
    BY <1>2, <2>1, <2>3, <2>7 DEF TenantInv
  <2>8. CASE LogReport(j) \/ LogError(j)
    <3>1. PICK type, o : LogActivity([job |-> j, org |-> org[j],
                                      business |-> business[j], type |-> type, status |-> o])
      BY <2>8 DEF LogReport, LogError, LogJob
    <3>2. ledger' = ledger /\ source[j] # None
      BY <2>4, <2>8 DEF LogReport, LogError, LogJob, None
    <3> DEFINE written == [job |-> j, org |-> org[j],
                           business |-> business[j], type |-> type, status |-> o]
    <3>3. timeline' \subseteq timeline \cup {written}
      BY <3>1 DEF LogActivity
    <3>4. OwnEvent(written)
      BY <3>2, RowsOwned
    <3> HIDE DEF written
    <3>5. PICK event : OwnEvent(event) /\ timeline' \subseteq timeline \cup {event}
      BY <3>3, <3>4
    <3> QED
      BY <2>7, <3>2, <3>5
  <2>9. CASE NoPhone(j) \/ TellSent(j) \/ TellFailed(j)
    <3>1. PICK o : timeline' \subseteq timeline \cup {SendEvent(j, o)}
      BY <2>9 DEF NoPhone, TellSent, TellFailed, Told, LogActivity
    <3>2. ledger' = ledger /\ source[j] # None
      BY <2>4, <2>9 DEF NoPhone, TellSent, TellFailed, Told, Conclude, None
    <3>3. OwnEvent(SendEvent(j, o))
      BY <3>2, RowsOwned
    <3>4. PICK event : OwnEvent(event) /\ timeline' \subseteq timeline \cup {event}
      BY <3>1, <3>3
    <3> QED
      BY <2>7, <3>2, <3>4
  <2>10. CASE RecordSent(j) \/ RecordFailed(j)
    <3>1. PICK o : ledger' \subseteq ledger \cup {Numbered(SendRow(j, o))}
      BY <2>10 DEF RecordSent, RecordFailed, LogDelivery, LogWhatsapp
    <3>2. timeline' = timeline /\ at[j] \in {"sent", "gave up"} /\ source[j] # None
      BY <2>4, <2>10 DEF RecordSent, RecordFailed, LogDelivery, None
    <3>3. OwnRow(Numbered(SendRow(j, o)))
      BY <3>2, RowsOwned
    <3>4. PICK row : OwnRow(row) /\ ledger' \subseteq ledger \cup {row}
      BY <3>1, <3>3
    <3> QED
      BY <1>2, <2>1, <2>2, <3>2, <3>4 DEF TenantInv
  <2> QED
    BY <1>3, <2>6, <2>8, <2>9, <2>10 DEF JobStep, Step
<1>4. CASE SendTest
  <2>1. /\ \A row \in ledger' : row \in ledger \/ row.org = System
        /\ \A event \in timeline' : event \in timeline \/ event.org = System
    BY <1>4, TestRows
  <2>2. UNCHANGED jobVars /\ System \notin Orgs
    BY <1>4, DeliveryAssumption DEF SendTest
  <2>3. \A j \in JobIds : Placed(j)'
    BY <2>2 DEF TenantInv, Placed, Mine, jobVars, orderVars
  <2> QED
    BY <1>2, <2>1, <2>2, <2>3 DEF TenantInv, OwnRow, OwnEvent
<1>5. CASE Restart
  <2>1. UNCHANGED <<orderVars, ledger, timeline>> /\ \A j \in JobIds : at'[j] \in {None, "end"}
    BY <1>5 DEF Restart
  <2>2. \A j \in JobIds : Placed(j)'
    BY <2>1 DEF TenantInv, Placed, Mine, orderVars, None
  <2> QED
    BY <1>2, <2>1, <2>2 DEF TenantInv
<1>6. CASE UNCHANGED vars
  BY <1>6 DEF vars, jobVars, orderVars, TenantInv, Placed, Mine, OwnRow, OwnEvent
<1>7. ASSUME NEW b \in Businesses, Register(b) PROVE TenantInv'
  <2>1. UNCHANGED <<source, org, business, at, ledger, timeline>>
    BY <1>7 DEF Register
  <2>2. ASSUME NEW j \in JobIds PROVE Placed(j)'
    <3>1. Placed(j) /\ business[j] \in Businesses /\ (source[j] # None => org[j] \in Orgs)
      BY DEF TenantInv, TypeOK, DeliveryInv, JobInv
    <3>2. source[j] # None => Mine(org[j], business[j], j)'
      BY <1>2, <2>1, <3>1 DEF Placed, Mine
    <3>3. owner[business[j]] = org[j] /\ org[j] \in Orgs => owner'[business[j]] = org[j]
      BY <1>1, <3>1, NamesAssumption DEF Settled
    <3> QED
      BY <2>1, <3>1, <3>2, <3>3 DEF Placed
  <2> QED
    BY <1>2, <2>1, <2>2 DEF TenantInv
<1> QED
  BY <1>3, <1>4, <1>5, <1>6, <1>7 DEF Next, JobStep

\* Every job is placed and every row is about a business of its organization, as
\* far as that organization is not the default one.
THEOREM TenantInvariant == Spec => []TenantInv
<1>1. Init => TenantInv
  BY DEF Init, TenantInv, Placed
<1> QED
  BY <1>1, Initially, TypeStep, DeliveryStep, TenantStep, PTL DEF Spec

\* What an organization is charged for, and what it reads of its jobs, is about its
\* own businesses, whatever context a report was asked for in.
THEOREM TenantTheorem == Spec => []TenantView
<1>1. TypeOK /\ TenantInv => TenantView
  <2> SUFFICES ASSUME TypeOK, TenantInv PROVE TenantView
    OBVIOUS
  <2>1. ASSUME NEW o \in Orgs, NEW j \in JobIds, CanRead(o, j) PROVE Mine(o, business[j], j)
    <3>1. org[j] = o /\ source[j] = "admin"
      BY <2>1, NamesAssumption DEF CanRead, JobOrg
    <3> QED
      BY <3>1 DEF TenantInv, Placed, None
  <2> QED
    BY <2>1 DEF TenantView, TenantInv, OwnRow, OwnEvent
<1> QED
  BY <1>1, TypeCorrect, TenantInvariant, PTL

-----------------------------------------------------------------------------
(***************************************************************************)
(* The two statistics of one ledger.                                       *)
(***************************************************************************)

\* The messages of some businesses of an organization are those of each of them,
\* added up.
SentFor(o, some) == {row \in Billable({r \in ledger : r.org = o}) : row.business \in some}

LEMMA SentAddsUp ==
    ASSUME TypeOK, NEW o \in Orgs
    PROVE  Cardinality(SentFor(o, BusinessesOf(o))) =
               SumFunctionOnSet([b \in Businesses |-> SuccessCount(o, b)], BusinessesOf(o))
<1> DEFINE F == [b \in Businesses |-> SuccessCount(o, b)]
           Bad == {s \in SUBSET BusinessesOf(o) : Cardinality(SentFor(o, s)) # SumFunctionOnSet(F, s)}
<1>1. SUFFICES ASSUME Bad # {} PROVE FALSE
  OBVIOUS
<1>2. \A s \in Bad : IsFiniteSet(s)
  BY FS_Subset, DeliveryAssumption DEF BusinessesOf
<1>3. PICK s \in Bad : \A t \in Bad : Cardinality(s) <= Cardinality(t)
  BY <1>1, <1>2, LeastSet
<1>4. s # {}
  <2>1. SentFor(o, {}) = {}
    BY DEF SentFor
  <2> QED
    BY <2>1, SumEmpty, FS_EmptySet
<1> DEFINE b == Picked(s)
           rest == s \ {b}
<1>5. b \in s /\ rest \notin Bad
  BY <1>2, <1>3, <1>4, PickedSmaller
<1>6. SumFunctionOnSet(F, s) = F[b] + SumFunctionOnSet(F, rest)
  BY <1>2, <1>4, SumPicked
<1>7. SumFunctionOnSet(F, rest) = Cardinality(SentFor(o, rest))
  BY <1>5
<1> HIDE DEF b
<1>8. F[b] = Cardinality(SentFor(o, {b}))
  <2>1. b \in Businesses
    BY <1>5 DEF BusinessesOf
  <2>2. SentFor(o, {b}) = Billable(RowsOf(o, b))
    BY DEF SentFor, Billable, RowsOf
  <2> QED
    BY <2>1, <2>2 DEF SuccessCount
<1>9. \A some : IsFiniteSet(SentFor(o, some))
  <2>1. \A some : SentFor(o, some) \subseteq ledger
    BY DEF SentFor, Billable
  <2> QED
    BY <2>1, FS_Subset DEF TypeOK
<1>10. Cardinality(SentFor(o, s)) = Cardinality(SentFor(o, {b})) + Cardinality(SentFor(o, rest))
  <2>1. SentFor(o, s) = SentFor(o, {b}) \cup SentFor(o, rest)
    BY <1>5 DEF SentFor
  <2>2. SentFor(o, {b}) \cap SentFor(o, rest) = {}
    BY DEF SentFor
  <2> HIDE DEF rest
  <2>3. ASSUME NEW u, NEW v, IsFiniteSet(u), IsFiniteSet(v), u \cap v = {}
        PROVE  Cardinality(u \cup v) = Cardinality(u) + Cardinality(v)
    <3>1. /\ Cardinality(u) \in Nat /\ Cardinality(v) \in Nat
          /\ Cardinality(u \cap v) = 0
      BY <2>3, FS_CardinalityType, FS_EmptySet
    <3>2. Cardinality(u \cup v) = Cardinality(u) + Cardinality(v) - Cardinality(u \cap v)
      BY <2>3, FS_Union
    <3> QED
      BY <3>1, <3>2
  <2> QED
    BY <1>9, <2>1, <2>2, <2>3
<1> HIDE DEF rest, F
<1>11. Cardinality(SentFor(o, s)) = SumFunctionOnSet(F, s)
  BY <1>6, <1>7, <1>8, <1>10
<1> QED
  BY <1>11 DEF F

\* The messages an organization pays for are those its businesses see delivered
\* (costs and whatsapp of routes/analytics.py), for any rows that best-effort
\* logging has left.
THEOREM StatsTheorem == Spec => []StatsAgree
<1>1. TypeOK /\ TenantInv => StatsAgree
  <2> SUFFICES ASSUME TypeOK, TenantInv, NEW o \in Orgs
               PROVE  MessagesSent(o) =
                          SumFunctionOnSet([b \in Businesses |-> SuccessCount(o, b)],
                                           BusinessesOf(o))
    BY DEF StatsAgree
  <2>1. \A row \in ledger : row.org = o => row.business \in BusinessesOf(o)
    BY DEF TenantInv, OwnRow, BusinessesOf
  <2>2. Billable({row \in ledger : row.org = o}) = SentFor(o, BusinessesOf(o))
    BY <2>1 DEF SentFor, Billable
  <2> QED
    BY <2>2, SentAddsUp DEF MessagesSent
<1> QED
  BY <1>1, TypeCorrect, TenantInvariant, PTL
=============================================================================
