-------------------------- MODULE EnrollmentProofs --------------------------
(***************************************************************************)
(* Theorems about Enrollment for any campaigns, installs, claims and       *)
(* machines.                                                               *)
(***************************************************************************)
EXTENDS Enrollment, FiniteSetTheorems, TLAPS

-----------------------------------------------------------------------------
(* The inductive invariant *)

\* A claim is bound to the install and the campaign it was issued for, and was
\* handed out by a request exactly for Setup, whose request row then exists.
ClaimBound ==
  \A k \in Claims : claim[k] # Nil =>
    /\ campaign[claim[k].campaign] # Nil
    /\ claim[k].request <=> Kind[claim[k].inst] = "setup"
    /\ claim[k].request => request[claim[k].inst] # Nil

\* Who presents campaign c and claim k for install i may do so.
Presents(i, c, k) ==
  /\ c \in Campaigns /\ campaign[c] # Nil
  /\ k = Nil <=> Kind[i] = "material"
  /\ k # Nil => claim[k] # Nil /\ claim[k].inst = i /\ claim[k].campaign = c

\* What a client presents: a client with a claim owns it, a Setup run stands
\* where its request lets it, and only a systemd host starts twice.
ClientBound ==
  \A i \in Installs :
    LET p == proc[i]
    IN  /\ p.pc \in {"claimed", "calling"} => Presents(i, p.campaign, p.claim)
        /\ p.pc = "calling" => p.start \in 1 .. MaxStarts /\ p.attempt \in 1 .. RetryAttempts
        /\ p.pc \in {"asking", "polling", "approved", "claimed", "verifying"} => Kind[i] = "setup"
        /\ p.pc \in {"asking", "polling", "approved", "claimed"} => p.start = 0
        /\ Kind[i] # "systemd" /\ p.pc = "idle" => p.start = 0
        /\ Kind[i] = "material" => p.claim = Nil

\* Every call on its way carries what its client presented.
CallBound == \A call \in calls : Presents(call.inst, call.campaign, call.claim)

\* The request row of a Setup run exists while it runs after asking, and a pending one
\* has not reached the claim.
RequestBound ==
  \A i \in Installs :
    /\ request[i] # Nil => Kind[i] = "setup" /\ proc[i].pc \notin {"idle", "asking"}
    /\ Kind[i] = "setup" /\ Running(i) /\ proc[i].pc # "asking" => request[i] # Nil
    /\ request[i] # Nil /\ request[i].status \in {"auto_approved", "waiting_approval", "approved"}
       => request[i].campaign # Nil
    /\ proc[i].pc \in {"polling", "approved"} =>
         request[i].status \in (MayBeDenied \ {"claim_issued"}) \cup Refused

\* A device of a Setup run is one whose request was registered.
DeviceBound ==
  \A i \in Installs : device[i] # Nil =>
    /\ campaign[device[i].campaign] # Nil
    /\ Kind[i] = "setup" =>
         /\ request[i] # Nil
         /\ request[i].status \in {"device_registered", "waiting_wss", "completed"}

\* A start presents one campaign and one claim in all its attempts, and a
\* device's receipt is the start that created it.
StartBound ==
  /\ \A call \in calls :
       LET p == proc[call.inst]
       IN  /\ call.start <= p.start
           /\ call.start = p.start => call.campaign = p.campaign /\ call.claim = p.claim
  /\ \A a, b \in calls : a.inst = b.inst /\ a.start = b.start =>
       a.campaign = b.campaign /\ a.claim = b.claim
  /\ \A i \in Installs : device[i] # Nil /\ device[i].receipt # Nil =>
       /\ device[i].receipt <= proc[i].start
       /\ device[i].receipt = proc[i].start =>
            device[i].campaign = proc[i].campaign /\ device[i].claim = proc[i].claim
       /\ \A call \in calls : call.inst = i /\ call.start = device[i].receipt =>
            device[i].campaign = call.campaign /\ device[i].claim = call.claim

Bound == TypeOK /\ ClaimBound /\ ClientBound /\ CallBound /\ RequestBound /\ DeviceBound

Clean(f) == f.credential = Nil /\ f.identity = Nil

Rest == {"idle", "over", "denied", "done"}

\* Install i wrote one of the files on machine m.
Owner(m, i) == file[m].credential = <<i, 0>> \/ file[m].identity = i

\* Two installs of which one runs, and the other runs too or left a file, met.
RunBound ==
  \A i, j \in Installs :
    /\ i # j /\ Machine[i] = Machine[j]
    /\ proc[j].pc \notin Rest
    /\ proc[i].pc \notin Rest \/ Owner(Machine[i], i)
    => Met(i, j)

\* What the client of install i at pc has written is in the files f.
Mine(i, pc, f) ==
  /\ pc \in {"half", "written", "verifying", "done"} => f.credential = <<i, 0>>
  /\ pc \in {"written", "verifying", "done"} => f.identity = i

\* A client with an answer has a device, and finds its files or met another.
PairBound ==
  \A i \in Installs :
    /\ proc[i].pc \in {"got", "half", "written", "verifying", "done"} => device[i] # Nil
    /\ Mine(i, proc[i].pc, file[Machine[i]]) \/ \E j \in Others(i) : Met(i, j)

\* A file is one of the machine's installs', with a device; two owners met.
FileBound ==
  \A m \in Machines, i \in Installs :
    /\ Owner(m, i) => Machine[i] = m /\ device[i] # Nil
    /\ \A j \in Installs : file[m].credential = <<i, 0>> /\ file[m].identity = j
                          => i = j \/ Met(i, j)

-----------------------------------------------------------------------------
(* Types *)

\* The status and the campaign a new request gets.
LEMMA SelectionType ==
  ASSUME TypeOK, NEW m
  PROVE  LET s == evaluate_campaign_selection(m)
         IN  /\ s.status \in {"denied", "review_required", "waiting_approval", "auto_approved"}
             /\ s.campaign \in Campaigns \cup {Nil}
             /\ s.status \in {"waiting_approval", "auto_approved"} => s.campaign \in Campaigns
  <1> DEFINE eligible == {c \in Campaigns : Allows(c, "windows")}
             one == CHOOSE c \in eligible : TRUE
  <1>1. eligible # {} => one \in Campaigns
    OBVIOUS
  <1> HIDE DEF one
  <1>2. evaluate_campaign_selection(m) =
          IF eligible = {} THEN [status |-> "denied", campaign |-> Nil]
          ELSE IF Cardinality(eligible) # 1
               THEN [status |-> "review_required", campaign |-> Nil]
          ELSE [status |-> IF Conflict(m) THEN "review_required"
                           ELSE IF campaign[one].mode = "manual" THEN "waiting_approval"
                           ELSE "auto_approved",
                campaign |-> one]
    BY Zenon DEF evaluate_campaign_selection, one
  <1> QED BY <1>1, <1>2, EnrollmentAssumption

LEMMA AfterStatusType ==
  ASSUME NEW s \in Statuses, NEW answered \in BOOLEAN
  PROVE  /\ AfterStatus(s, answered) \in {"over", "polling", "approved"}
         /\ AfterStatus(s, answered) = "polling" => s \in {"waiting_approval", "review_required"}
         /\ AfterStatus(s, answered) = "approved" => s \in {"auto_approved", "approved"}
  BY DEF AfterStatus, Statuses

\* What the /enroll transaction creates rests on a campaign with room, an
\* unused claim and, for a request's claim, on a request that is not decided.
LEMMA CreatedWhen ==
  ASSUME NEW call, EnrollOutcome(call) = "created"
  PROVE  /\ device[call.inst] = Nil
         /\ Allows(call.campaign, PlatformOf(call.inst))
         /\ call.claim # Nil => claim[call.claim].device = Nil
         /\ RequestReady(call)
         /\ Admitted(call)
  BY DEF EnrollOutcome

\* Every step of Next, one disjunct per action.
LEMMA NextSteps ==
  ASSUME Next
  PROVE  \/ \E c \in Campaigns, max \in 1 .. MaxUses, platform \in {"windows", "linux"},
               mode \in {"auto", "manual"} : create_campaign(c, platform, mode, max)
         \/ \E c \in Campaigns, max \in 1 .. MaxUses : update_campaign(c, max)
         \/ \E c \in Campaigns : revoke_campaign(c) \/ CampaignExpires(c)
         \/ \E i \in Installs, k \in Claims, c \in Campaigns :
              issue_provisioning_install_claim(i, k, c)
         \/ \E i \in Installs, answered \in BOOLEAN :
              \/ create_enrollment_request(i, answered)
              \/ enrollment_request_status(i, answered)
              \/ \E k \in Claims : handoff_enrollment_request_claim(i, k, answered)
              \/ \E ready \in BOOLEAN : verify_enrollment_completion(i, ready, answered)
         \/ \E call \in calls, answered \in BOOLEAN : enroll_agent(call, answered)
         \/ \E k \in Claims : ClaimExpires(k)
         \/ \E i \in Installs :
              \/ approve_request(i) \/ deny_request(i) \/ RequestExpires(i)
              \/ acknowledge_enrollment_delivery(i) \/ cleanup_expired_retry_envelopes(i)
              \/ rotate_device_credential(i) \/ activate_device_credential(i)
              \/ EnvelopeExpires(i)
              \/ StartSetup(i)
              \/ ProvisionClaim(i)
              \/ \E c \in Campaigns : ProvisionMaterial(i, c)
              \/ \E k \in Claims : bootstrap_enrollment(i, k)
              \/ Timeout(i)
              \/ WriteCredential(i) \/ WriteIdentity(i) \/ WriteFails(i) \/ ReadBack(i)
              \/ Interrupted(i)
  BY Zenon DEF Next, Administration, Server, Deadlines, Clients

\* The effects of the /enroll transaction, outcome by outcome.
LEMMA CreatedDoes ==
  ASSUME NEW call, EnrollEffect(call, "created")
  PROVE  /\ campaign' = [campaign EXCEPT ![call.campaign].uses = @ + 1]
         /\ claim' = Consumed(call.claim, call.inst)
         /\ request' = IF call.claim = Nil \/ ~claim[call.claim].request THEN request
                       ELSE [request EXCEPT ![call.inst].status = "device_registered"]
         /\ device' = [device EXCEPT ![call.inst] =
              [campaign |-> call.campaign, claim |-> call.claim, receipt |-> call.start,
               late |-> FALSE, token |-> 0, pending |-> Nil]]
  BY Zenon DEF EnrollEffect

LEMMA DestroyedDoes ==
  ASSUME NEW call, EnrollEffect(call, "destroyed")
  PROVE  /\ device' = [device EXCEPT ![call.inst].receipt = Nil]
         /\ UNCHANGED <<campaign, request, claim>>
  <1>1. "destroyed" # "created"
    OBVIOUS
  <1> QED BY <1>1, Zenon DEF EnrollEffect

LEMMA OthersDo ==
  ASSUME NEW call, NEW outcome \in {"denied", "error", "again"}, EnrollEffect(call, outcome)
  PROVE  UNCHANGED server
  <1>1. outcome # "created" /\ outcome # "destroyed"
    OBVIOUS
  <1> QED BY <1>1, Zenon DEF EnrollEffect

LEMMA OutcomeType ==
  ASSUME NEW call
  PROVE  EnrollOutcome(call) \in {"denied", "error", "again", "created", "destroyed"}
  BY DEF EnrollOutcome

LEMMA DestroyedWhen ==
  ASSUME NEW call, EnrollOutcome(call) = "destroyed"
  PROVE  device[call.inst] # Nil /\ device[call.inst].late
  BY DEF EnrollOutcome

\* A client has its answer only for a device that exists after the step.
LEMMA AgainWhen ==
  ASSUME NEW call, EnrollOutcome(call) = "again"
  PROVE  device[call.inst] # Nil
  BY DEF EnrollOutcome

LEMMA AfterEnrollIs ==
  ASSUME NEW p, NEW outcome \in {"denied", "error", "again", "created", "destroyed"}
  PROVE  AfterEnroll(p, outcome) =
           IF outcome \in {"created", "again"} THEN [p EXCEPT !.pc = "got"]
           ELSE IF outcome \in {"denied", "destroyed"} THEN [p EXCEPT !.pc = "denied"]
           ELSE p
  <1>1. CASE outcome \in {"created", "again"}
    <2> QED BY <1>1, Zenon DEF AfterEnroll
  <1>2. CASE outcome \in {"denied", "destroyed"}
    <2>1. outcome \notin {"created", "again"}
      BY <1>2
    <2> QED BY <1>2, <2>1, Zenon DEF AfterEnroll
  <1>3. CASE outcome = "error"
    <2>1. outcome \notin {"created", "again"} /\ outcome \notin {"denied", "destroyed"}
      BY <1>3
    <2> QED BY <2>1, Zenon DEF AfterEnroll
  <1> QED BY <1>1, <1>2, <1>3

\* A call that is taken from the server's hands, field by field.
LEMMA EnrollDoes ==
  ASSUME TypeOK, NEW call \in calls, NEW answered \in BOOLEAN, enroll_agent(call, answered)
  PROVE  /\ call.inst \in Installs
         /\ proc' \in [Installs -> Process]
         /\ \A j \in Installs : j # call.inst => proc'[j] = proc[j]
         /\ LET p == proc[call.inst]
                q == proc'[call.inst]
            IN  /\ q.start = p.start /\ q.attempt = p.attempt
                /\ q.campaign = p.campaign /\ q.claim = p.claim /\ q.beside = p.beside
                /\ \/ q.pc = p.pc
                   \/ p.pc = "calling" /\ q.pc = "got" /\ EnrollOutcome(call) \in {"created", "again"}
                   \/ /\ p.pc = "calling" /\ q.pc = "denied" /\ p.start = call.start
                      /\ EnrollOutcome(call) \in {"denied", "destroyed"}
         /\ calls' = calls \ {call} /\ file' = file
  <1> DEFINE i == call.inst
             o == EnrollOutcome(call)
  <1>1. i \in Installs /\ proc[i] \in Process
    BY DEF TypeOK, EnrollCall
  <1>2. o \in {"denied", "error", "again", "created", "destroyed"}
    BY OutcomeType
  <1>3. calls' = calls \ {call} /\ file' = file
    BY DEF enroll_agent
  <1>4. CASE answered
    <2>1. proc' = [proc EXCEPT ![i] = AfterEnroll(proc[i], o)] /\ Awaits(call)
      BY <1>4, Zenon DEF enroll_agent
    <2>2. AfterEnroll(proc[i], o) =
           IF o \in {"created", "again"} THEN [proc[i] EXCEPT !.pc = "got"]
           ELSE IF o \in {"denied", "destroyed"} THEN [proc[i] EXCEPT !.pc = "denied"]
           ELSE proc[i]
      BY <1>2, AfterEnrollIs
    <2> HIDE DEF o
    <2>3. AfterEnroll(proc[i], o) \in Process
      BY <2>2, <1>1 DEF Process
    <2>4. proc'[i] = AfterEnroll(proc[i], o) /\ \A j \in Installs : j # i => proc'[j] = proc[j]
      BY <2>1, <1>1 DEF TypeOK
    <2>5. proc' \in [Installs -> Process]
      BY <2>1, <2>3 DEF TypeOK
    <2> QED BY <1>1, <1>2, <1>3, <2>1, <2>2, <2>4, <2>5 DEF Awaits, Process, o
  <1>5. CASE ~answered
    <2>1. proc' = proc
      BY <1>5, Zenon DEF enroll_agent
    <2> QED BY <1>1, <1>3, <2>1 DEF TypeOK
  <1> QED BY <1>4, <1>5

-----------------------------------------------------------------------------
(* Rows and records *)

PCs == {"idle", "asking", "polling", "approved", "claimed", "calling", "got", "half",
        "written", "verifying", "denied", "over", "done"}

LEMMA ProcessFields ==
  ASSUME NEW p \in Process
  PROVE  /\ p.start \in 0 .. MaxStarts /\ p.attempt \in 0 .. RetryAttempts /\ p.pc \in PCs
         /\ p.campaign \in Campaigns \cup {Nil} /\ p.claim \in Claims \cup {Nil}
  BY DEF Process, PCs

LEMMA ProcessAt ==
  ASSUME NEW p \in Process, NEW pc \in PCs
  PROVE  /\ [p EXCEPT !.pc = pc] \in Process
         /\ [p EXCEPT !.pc = pc].pc = pc
         /\ [p EXCEPT !.pc = pc].start = p.start
         /\ [p EXCEPT !.pc = pc].attempt = p.attempt
         /\ [p EXCEPT !.pc = pc].campaign = p.campaign
         /\ [p EXCEPT !.pc = pc].claim = p.claim
         /\ [p EXCEPT !.pc = pc].beside = p.beside
  BY DEF Process, PCs

LEMMA FreshProcess ==
  ASSUME NEW p \in Process, p.start < MaxStarts
  PROVE  /\ Fresh(p) \in Process
         /\ Fresh(p).pc = "calling" /\ Fresh(p).attempt = 1
         /\ Fresh(p).start = p.start + 1
         /\ Fresh(p).campaign = p.campaign /\ Fresh(p).claim = p.claim
         /\ Fresh(p).beside = p.beside
  <1>1. p.start + 1 \in 0 .. MaxStarts /\ 1 \in 0 .. RetryAttempts
    BY EnrollmentAssumption, ProcessFields
  <1>2. [p EXCEPT !.pc = "calling"] \in Process
    BY ProcessAt DEF PCs
  <1> DEFINE s == p.start + 1
  <1>3. s \in 0 .. MaxStarts
    BY <1>1
  <1>4. Fresh(p) = [p EXCEPT !.pc = "calling", !.start = s, !.attempt = 1]
    BY DEF Fresh
  <1> HIDE DEF s
  <1>5. [p EXCEPT !.pc = "calling", !.start = s, !.attempt = 1] \in Process
    BY <1>1, <1>3 DEF Process
  <1> QED BY <1>4, <1>5 DEF Process, s

LEMMA CallFields ==
  ASSUME NEW i \in Installs, NEW p \in Process, p.campaign \in Campaigns,
         p.start \in 1 .. MaxStarts, p.attempt \in 1 .. RetryAttempts
  PROVE  /\ Call(i, p) \in EnrollCall
         /\ Call(i, p).inst = i /\ Call(i, p).start = p.start
         /\ Call(i, p).campaign = p.campaign /\ Call(i, p).claim = p.claim
  BY DEF Process, EnrollCall, Call

LEMMA CampaignRows ==
  ASSUME NEW r \in CampaignRow, NEW max \in 1 .. MaxUses
  PROVE  /\ [r EXCEPT !.max = max, !.expired = FALSE] \in CampaignRow
         /\ [r EXCEPT !.revoked = TRUE] \in CampaignRow
         /\ [r EXCEPT !.expired = TRUE] \in CampaignRow
         /\ r.uses < r.max => [r EXCEPT !.uses = @ + 1] \in CampaignRow
  <1>1. [r EXCEPT !.max = max, !.expired = FALSE] \in CampaignRow
    BY DEF CampaignRow
  <1>2. [r EXCEPT !.revoked = TRUE] \in CampaignRow /\ [r EXCEPT !.expired = TRUE] \in CampaignRow
    BY DEF CampaignRow
  <1>3. ASSUME r.uses < r.max PROVE [r EXCEPT !.uses = r.uses + 1] \in CampaignRow
    <2> DEFINE u == r.uses + 1
    <2>1. u \in 0 .. MaxUses
      BY <1>3, EnrollmentAssumption DEF CampaignRow
    <2> HIDE DEF u
    <2>2. [r EXCEPT !.uses = u] \in CampaignRow
      BY <2>1 DEF CampaignRow
    <2> QED BY <2>2 DEF u
  <1> QED BY <1>1, <1>2, <1>3

LEMMA RequestRows ==
  ASSUME NEW r \in RequestRow, NEW s \in Statuses
  PROVE  /\ [r EXCEPT !.status = s] \in RequestRow
         /\ [r EXCEPT !.late = TRUE] \in RequestRow
  BY DEF RequestRow

LEMMA ClaimRows ==
  ASSUME NEW r \in ClaimRow
  PROVE  /\ [r EXCEPT !.late = TRUE] \in ClaimRow
         /\ \A i \in Installs : [r EXCEPT !.device = i] \in ClaimRow
  BY DEF ClaimRow

LEMMA DeviceRows ==
  ASSUME NEW r \in DeviceRow
  PROVE  /\ [r EXCEPT !.receipt = Nil] \in DeviceRow
         /\ [r EXCEPT !.late = TRUE] \in DeviceRow
         /\ r.token < MaxRotations => [r EXCEPT !.pending = r.token + 1] \in DeviceRow
         /\ r.pending # Nil => [r EXCEPT !.token = r.pending, !.pending = Nil] \in DeviceRow
  <1>1. [r EXCEPT !.receipt = Nil] \in DeviceRow /\ [r EXCEPT !.late = TRUE] \in DeviceRow
    BY DEF DeviceRow
  <1>2. ASSUME r.token < MaxRotations PROVE [r EXCEPT !.pending = r.token + 1] \in DeviceRow
    <2> DEFINE t == r.token + 1
    <2>1. t \in 0 .. MaxRotations
      BY <1>2, EnrollmentAssumption DEF DeviceRow
    <2> HIDE DEF t
    <2>2. [r EXCEPT !.pending = t] \in DeviceRow
      BY <2>1 DEF DeviceRow
    <2> QED BY <2>2 DEF t
  <1>3. ASSUME r.pending # Nil PROVE [r EXCEPT !.token = r.pending, !.pending = Nil] \in DeviceRow
    BY <1>3 DEF DeviceRow
  <1> QED BY <1>1, <1>2, <1>3

FileRow == [credential : Credential \cup {Nil}, identity : Installs \cup {Nil}]

LEMMA FileRows ==
  ASSUME NEW f \in FileRow, NEW i \in Installs
  PROVE  /\ [f EXCEPT !.credential = <<i, 0>>] \in FileRow
         /\ [f EXCEPT !.identity = i] \in FileRow
         /\ [f EXCEPT !.credential = IF @ = <<i, 0>> THEN Nil ELSE @,
                      !.identity = IF @ = i THEN Nil ELSE @] \in FileRow
  <1>1. <<i, 0>> \in Credential
    BY DEF Credential
  <1> DEFINE c == IF f.credential = <<i, 0>> THEN Nil ELSE f.credential
             d == IF f.identity = i THEN Nil ELSE f.identity
  <1>2. c \in Credential \cup {Nil} /\ d \in Installs \cup {Nil}
    BY DEF FileRow
  <1> HIDE DEF c, d
  <1>3. [f EXCEPT !.credential = c, !.identity = d] \in FileRow
    BY <1>2 DEF FileRow
  <1>4. [f EXCEPT !.credential = <<i, 0>>] \in FileRow /\ [f EXCEPT !.identity = i] \in FileRow
    BY <1>1 DEF FileRow
  <1> QED BY <1>3, <1>4, Zenon DEF c, d

-----------------------------------------------------------------------------
(* Types *)

\* A step that sets a client's pc, or sends a call, keeps the types.
LEMMA ProcTyped ==
  ASSUME TypeOK, NEW i \in Installs, NEW pc \in PCs
  PROVE  [proc EXCEPT ![i].pc = pc] \in [Installs -> Process]
  <1>1. proc[i] \in Process
    BY DEF TypeOK
  <1>2. [proc[i] EXCEPT !.pc = pc] \in Process
    BY <1>1, ProcessAt
  <1> QED BY <1>2, Zenon DEF TypeOK

LEMMA SendTyped ==
  ASSUME TypeOK, NEW i \in Installs, NEW p \in Process, Send(i, p), UNCHANGED <<server, file>>,
         p.start \in 1 .. MaxStarts, p.attempt \in 1 .. RetryAttempts, p.campaign \in Campaigns
  PROVE  TypeOK'
  <1>1. Call(i, p) \in EnrollCall
    BY CallFields
  <1> QED BY <1>1 DEF Send, server, TypeOK

LEMMA DeviceTyped ==
  ASSUME TypeOK, NEW i \in Installs, NEW d \in DeviceRow, device' = [device EXCEPT ![i] = d],
         UNCHANGED <<campaign, request, claim, calls, proc, file>>
  PROVE  TypeOK'
  BY DEF TypeOK

LEMMA AdministrationType ==
  ASSUME Bound, NEW c \in Campaigns, NEW max \in 1 .. MaxUses,
         \/ \E platform \in {"windows", "linux"}, mode \in {"auto", "manual"} :
              create_campaign(c, platform, mode, max)
         \/ update_campaign(c, max) \/ revoke_campaign(c) \/ CampaignExpires(c)
         \/ \E i \in Installs, k \in Claims : issue_provisioning_install_claim(i, k, c)
  PROVE  TypeOK'
  <1> USE DEF Bound
  <1>1. ASSUME NEW platform \in {"windows", "linux"}, NEW mode \in {"auto", "manual"},
               create_campaign(c, platform, mode, max)
        PROVE  TypeOK'
    <2>1. [platform |-> platform, mode |-> mode, max |-> max, uses |-> 0,
           revoked |-> FALSE, expired |-> FALSE] \in CampaignRow
      BY EnrollmentAssumption DEF CampaignRow
    <2> QED BY <1>1, <2>1 DEF create_campaign, TypeOK
  <1>2. ASSUME NEW r \in CampaignRow, campaign' = [campaign EXCEPT ![c] = r],
               UNCHANGED <<request, device, calls, proc, file>>, claim' = claim \/ CampaignExpires(c)
        PROVE  TypeOK'
    <2>1. claim' \in [Claims -> ClaimRow \cup {Nil}]
      BY <1>2, ClaimRows DEF CampaignExpires, TypeOK
    <2> QED BY <1>2, <2>1 DEF TypeOK
  <1>3. CASE update_campaign(c, max) \/ revoke_campaign(c) \/ CampaignExpires(c)
    <2>1. campaign[c] \in CampaignRow
      BY <1>3 DEF update_campaign, revoke_campaign, CampaignExpires, TypeOK
    <2>2. \E r \in CampaignRow : campaign' = [campaign EXCEPT ![c] = r]
      <3>1. CASE update_campaign(c, max)
        <4>1. campaign' = [campaign EXCEPT ![c] = [campaign[c] EXCEPT !.max = max, !.expired = FALSE]]
          BY <3>1, <2>1 DEF update_campaign, TypeOK, CampaignRow
        <4> QED BY <2>1, <4>1, CampaignRows, Zenon
      <3>2. CASE revoke_campaign(c)
        BY <2>1, <3>2, CampaignRows, Zenon DEF revoke_campaign
      <3>3. CASE CampaignExpires(c)
        BY <2>1, <3>3, CampaignRows, Zenon DEF CampaignExpires
      <3> QED BY <1>3, <3>1, <3>2, <3>3
    <2> QED BY <1>2, <1>3, <2>2 DEF update_campaign, revoke_campaign, CampaignExpires
  <1>4. ASSUME NEW i \in Installs, NEW k \in Claims, issue_provisioning_install_claim(i, k, c)
        PROVE  TypeOK'
    <2>1. NewClaim(i, c, FALSE) \in ClaimRow
      BY DEF NewClaim, ClaimRow
    <2> QED BY <1>4, <2>1 DEF issue_provisioning_install_claim, TypeOK
  <1> QED BY <1>1, <1>3, <1>4

LEMMA RequestType ==
  ASSUME Bound, NEW i \in Installs,
         \/ \E answered \in BOOLEAN :
              \/ create_enrollment_request(i, answered)
              \/ enrollment_request_status(i, answered)
              \/ \E k \in Claims : handoff_enrollment_request_claim(i, k, answered)
              \/ \E ready \in BOOLEAN : verify_enrollment_completion(i, ready, answered)
         \/ approve_request(i) \/ deny_request(i) \/ RequestExpires(i)
  PROVE  TypeOK'
  <1> USE DEF Bound
  <1> DEFINE r == request[i]
  <1>0. proc[i] \in Process /\ (r # Nil => r \in RequestRow)
    BY DEF TypeOK
  <1>1. ASSUME NEW answered \in BOOLEAN, create_enrollment_request(i, answered) PROVE TypeOK'
    <2> DEFINE s == evaluate_campaign_selection(Machine[i])
    <2>1. /\ s.status \in Statuses /\ s.campaign \in Campaigns \cup {Nil}
          /\ AfterStatus(s.status, answered) \in PCs
      BY SelectionType, AfterStatusType DEF Statuses, PCs
    <2> HIDE DEF s
    <2>3. /\ request' = [request EXCEPT ![i] =
                 [status |-> s.status, campaign |-> s.campaign, late |-> FALSE]]
          /\ proc' = [proc EXCEPT ![i].pc = AfterStatus(s.status, answered)]
          /\ UNCHANGED <<campaign, claim, device, calls, file>>
      BY <1>1, Zenon DEF create_enrollment_request, s
    <2>4. [status |-> s.status, campaign |-> s.campaign, late |-> FALSE] \in RequestRow
      BY <2>1 DEF RequestRow
    <2>5. proc' \in [Installs -> Process]
      BY <2>1, <2>3, ProcTyped, Zenon
    <2> QED BY <2>3, <2>4, <2>5 DEF TypeOK
  <1>2. ASSUME NEW s \in Statuses, r \in RequestRow, request' = [request EXCEPT ![i].status = s]
        PROVE  request' \in [Installs -> RequestRow \cup {Nil}]
    <2>1. [r EXCEPT !.status = s] \in RequestRow
      BY <1>2, RequestRows
    <2> QED BY <1>2, <2>1, Zenon DEF TypeOK
  <1>3. ASSUME NEW answered \in BOOLEAN, enrollment_request_status(i, answered) PROVE TypeOK'
    <2> DEFINE st == IF r.late /\ r.status \notin Refused THEN "expired" ELSE r.status
    <2>1. r \in RequestRow
      BY <1>0, <1>3 DEF enrollment_request_status, RequestBound, ClientBound, Running
    <2>2. st \in Statuses
      BY <2>1 DEF RequestRow, Statuses
    <2>3. AfterStatus(st, answered) \in PCs
      BY <2>2, AfterStatusType DEF PCs
    <2> HIDE DEF st
    <2>4. /\ request' = [request EXCEPT ![i].status = st]
          /\ proc' = [proc EXCEPT ![i].pc = AfterStatus(st, answered)]
          /\ UNCHANGED <<campaign, claim, device, calls, file>>
      BY <1>3, Zenon DEF enrollment_request_status, st
    <2>5. request' \in [Installs -> RequestRow \cup {Nil}]
      BY <1>2, <2>1, <2>2, <2>4, Zenon
    <2>6. proc' \in [Installs -> Process]
      BY <2>3, <2>4, ProcTyped, Zenon
    <2> QED BY <2>4, <2>5, <2>6 DEF TypeOK
  <1>4. ASSUME NEW k \in Claims, NEW answered \in BOOLEAN,
               handoff_enrollment_request_claim(i, k, answered)
        PROVE  TypeOK'
    <2>1. r \in RequestRow
      BY <1>0, <1>4 DEF handoff_enrollment_request_claim, RequestBound, ClientBound, Running
    <2>2. r.status \in {"auto_approved", "approved"} => r.campaign \in Campaigns
      <3>1. r # Nil
        BY <2>1, NilAssumption
      <3> QED BY <2>1, <3>1 DEF RequestBound, RequestRow
    <2>3. request' \in [Installs -> RequestRow \cup {Nil}]
      <3>1. request' = request \/ \E s \in Statuses : request' = [request EXCEPT ![i].status = s]
        <4>1. r.status \in Statuses
          BY <2>1 DEF RequestRow
        <4> QED BY <1>4, <4>1 DEF handoff_enrollment_request_claim, Statuses
      <3> QED BY <1>2, <2>1, <3>1, SMTT(30) DEF TypeOK
    <2>4. claim' \in [Claims -> ClaimRow \cup {Nil}]
      <3>1. claim' = claim \/ (/\ claim' = [claim EXCEPT ![k] = NewClaim(i, r.campaign, TRUE)]
                               /\ r.campaign \in Campaigns)
        BY <1>4, <2>2, Zenon DEF handoff_enrollment_request_claim
      <3>2. r.campaign \in Campaigns => NewClaim(i, r.campaign, TRUE) \in ClaimRow
        BY DEF NewClaim, ClaimRow
      <3> QED BY <3>1, <3>2 DEF TypeOK
    <2>5. proc' \in [Installs -> Process]
      <3>1. \/ proc' = [proc EXCEPT ![i].pc = "over"]
            \/ /\ r.campaign \in Campaigns
               /\ proc' = [proc EXCEPT ![i] = [proc[i] EXCEPT !.pc = "claimed", !.claim = k,
                                                              !.campaign = r.campaign]]
        BY <1>4, <2>2, Zenon DEF handoff_enrollment_request_claim
      <3>2. r.campaign \in Campaigns =>
              [proc[i] EXCEPT !.pc = "claimed", !.claim = k, !.campaign = r.campaign] \in Process
        BY <1>0 DEF Process
      <3>3. [proc EXCEPT ![i].pc = "over"] \in [Installs -> Process]
        BY ProcTyped DEF PCs
      <3> QED BY <3>1, <3>2, <3>3, Zenon DEF TypeOK
    <2> QED BY <1>4, <2>3, <2>4, <2>5 DEF handoff_enrollment_request_claim, TypeOK
  <1>5. ASSUME NEW ready \in BOOLEAN, NEW answered \in BOOLEAN,
               verify_enrollment_completion(i, ready, answered)
        PROVE  TypeOK'
    <2>1. r \in RequestRow
      BY <1>0, <1>5 DEF verify_enrollment_completion, RequestBound, ClientBound, Running
    <2>2. \E s \in Statuses : request' = [request EXCEPT ![i].status = s]
      <3>1. r.status \in Statuses
        BY <2>1 DEF RequestRow
      <3> QED BY <1>5, <3>1 DEF verify_enrollment_completion, Statuses
    <2>3. \E pc \in PCs : proc' = [proc EXCEPT ![i].pc = pc]
      <3>1. proc[i].pc \in PCs
        BY <1>0, ProcessFields
      <3> QED BY <1>5, <3>1 DEF verify_enrollment_completion, PCs
    <2>4. proc' \in [Installs -> Process]
      BY <2>3, ProcTyped, Zenon
    <2> QED BY <1>2, <1>5, <2>1, <2>2, <2>4 DEF verify_enrollment_completion, TypeOK
  <1>6. CASE approve_request(i) \/ deny_request(i)
    <2>1. r \in RequestRow
      BY <1>0, <1>6 DEF approve_request, deny_request
    <2>2. \E s \in Statuses : request' = [request EXCEPT ![i].status = s]
      BY <1>6 DEF approve_request, deny_request, Statuses
    <2> QED BY <1>2, <1>6, <2>1, <2>2 DEF approve_request, deny_request, TypeOK
  <1>7. CASE RequestExpires(i)
    <2>1. [r EXCEPT !.late = TRUE] \in RequestRow
      BY <1>0, <1>7, RequestRows DEF RequestExpires, Statuses
    <2>2. request' \in [Installs -> RequestRow \cup {Nil}]
      BY <1>7, <2>1, Zenon DEF RequestExpires, TypeOK
    <2>3. claim' \in [Claims -> ClaimRow \cup {Nil}]
      BY <1>7, ClaimRows DEF RequestExpires, TypeOK
    <2> QED BY <1>7, <2>2, <2>3 DEF RequestExpires, TypeOK
  <1> QED BY <1>1, <1>3, <1>4, <1>5, <1>6, <1>7

LEMMA EnrollType ==
  ASSUME Bound, NEW call \in calls, NEW answered \in BOOLEAN, enroll_agent(call, answered)
  PROVE  TypeOK'
  <1> USE DEF Bound
  <1> DEFINE i == call.inst
             k == call.claim
             c == call.campaign
  <1>1. /\ i \in Installs /\ proc' \in [Installs -> Process]
        /\ calls' \subseteq calls /\ file' = file
    BY EnrollDoes
  <1>2. EnrollEffect(call, EnrollOutcome(call))
    BY Zenon DEF enroll_agent
  <1>3. call \in EnrollCall /\ c \in Campaigns /\ k \in Claims \cup {Nil}
    BY DEF TypeOK, EnrollCall
  <1>4. CASE EnrollOutcome(call) = "created"
    <2>1. campaign[c] \in CampaignRow /\ campaign[c].uses < campaign[c].max
      BY <1>3, <1>4, CreatedWhen DEF Allows, Matches, TypeOK
    <2>2. campaign' \in [Campaigns -> CampaignRow \cup {Nil}]
      <3>1. campaign' = [campaign EXCEPT ![c] = [campaign[c] EXCEPT !.uses = @ + 1]]
        BY <1>2, <1>4, CreatedDoes, Zenon
      <3>2. [campaign[c] EXCEPT !.uses = @ + 1] \in CampaignRow
        <4>1. MaxUses \in 1 .. MaxUses
          BY EnrollmentAssumption
        <4> QED BY <2>1, <4>1, CampaignRows, Zenon
      <3> QED BY <3>1, <3>2, Zenon DEF TypeOK
    <2>3. k # Nil => claim[k] \in ClaimRow
      BY <1>3 DEF CallBound, Presents, TypeOK
    <2>4. claim' \in [Claims -> ClaimRow \cup {Nil}]
      <3>1. claim' = IF k = Nil THEN claim ELSE [claim EXCEPT ![k] = [claim[k] EXCEPT !.device = i]]
        BY <1>2, <1>4, CreatedDoes, Zenon DEF Consumed
      <3>2. k # Nil => [claim[k] EXCEPT !.device = i] \in ClaimRow
        BY <1>1, <2>3, ClaimRows, Zenon
      <3> QED BY <1>3, <3>1, <3>2, Zenon DEF TypeOK
    <2>5. k # Nil /\ claim[k].request => request[i] \in RequestRow
      <3>1. k # Nil => claim[k] # Nil /\ claim[k].inst = i
        BY DEF CallBound, Presents
      <3> QED BY <1>1, <1>3, <3>1 DEF ClaimBound, TypeOK
    <2>6. request' \in [Installs -> RequestRow \cup {Nil}]
      <3>1. k # Nil /\ claim[k].request => [request[i] EXCEPT !.status = "device_registered"] \in RequestRow
        BY <2>5, RequestRows DEF Statuses
      <3>2. request' = request \/ (/\ k # Nil /\ claim[k].request
                                   /\ request' = [request EXCEPT ![i] =
                                        [request[i] EXCEPT !.status = "device_registered"]])
        BY <1>2, <1>4, CreatedDoes, Zenon
      <3> QED BY <3>1, <3>2, <1>1, Zenon DEF TypeOK
    <2>7. device' \in [Installs -> DeviceRow \cup {Nil}]
      <3>1. [campaign |-> c, claim |-> k, receipt |-> call.start,
             late |-> FALSE, token |-> 0, pending |-> Nil] \in DeviceRow
        BY <1>3, EnrollmentAssumption DEF EnrollCall, DeviceRow
      <3>2. device' = [device EXCEPT ![i] = [campaign |-> c, claim |-> k, receipt |-> call.start,
                         late |-> FALSE, token |-> 0, pending |-> Nil]]
        BY <1>2, <1>4, CreatedDoes, Zenon
      <3> QED BY <1>1, <3>1, <3>2 DEF TypeOK
    <2> QED BY <1>1, <2>2, <2>4, <2>6, <2>7 DEF TypeOK
  <1>5. CASE EnrollOutcome(call) = "destroyed"
    <2>1. [device[i] EXCEPT !.receipt = Nil] \in DeviceRow
      BY <1>1, <1>5, DestroyedWhen, DeviceRows, Zenon DEF TypeOK
    <2>2. /\ device' = [device EXCEPT ![i] = [device[i] EXCEPT !.receipt = Nil]]
          /\ UNCHANGED <<campaign, request, claim>>
      BY <1>2, <1>5, DestroyedDoes, Zenon
    <2>3. device' \in [Installs -> DeviceRow \cup {Nil}]
      BY <1>1, <2>1, <2>2, Zenon DEF TypeOK
    <2> QED BY <1>1, <2>2, <2>3 DEF TypeOK
  <1>6. CASE EnrollOutcome(call) \in {"denied", "error", "again"}
    BY <1>1, <1>2, <1>6, OthersDo DEF server, TypeOK
  <1> QED BY <1>4, <1>5, <1>6, OutcomeType

LEMMA DeviceType ==
  ASSUME Bound, NEW i \in Installs,
         \/ acknowledge_enrollment_delivery(i) \/ cleanup_expired_retry_envelopes(i)
         \/ rotate_device_credential(i) \/ activate_device_credential(i) \/ EnvelopeExpires(i)
  PROVE  TypeOK'
  <1> USE DEF Bound
  <1> DEFINE d == device[i]
  <1>1. d \in DeviceRow
    BY DEF acknowledge_enrollment_delivery, cleanup_expired_retry_envelopes,
           rotate_device_credential, activate_device_credential, EnvelopeExpires, TypeOK
  <1>2. CASE acknowledge_enrollment_delivery(i) \/ cleanup_expired_retry_envelopes(i)
    <2>1. device' = [device EXCEPT ![i] = [d EXCEPT !.receipt = Nil]]
      BY <1>2, Zenon DEF acknowledge_enrollment_delivery, cleanup_expired_retry_envelopes
    <2> QED BY <1>1, <1>2, <2>1, DeviceRows, DeviceTyped
            DEF acknowledge_enrollment_delivery, cleanup_expired_retry_envelopes
  <1>3. CASE rotate_device_credential(i)
    <2>1. device' = [device EXCEPT ![i] = [d EXCEPT !.pending = d.token + 1]]
      BY <1>3, Zenon DEF rotate_device_credential
    <2> QED BY <1>1, <1>3, <2>1, DeviceRows, DeviceTyped DEF rotate_device_credential
  <1>4. CASE activate_device_credential(i)
    <2>1. device' = [device EXCEPT ![i] = [d EXCEPT !.token = d.pending, !.pending = Nil]]
      BY <1>1, <1>4 DEF activate_device_credential, DeviceRow, TypeOK
    <2>2. [d EXCEPT !.token = d.pending, !.pending = Nil] \in DeviceRow
      BY <1>1, <1>4, DeviceRows, Zenon DEF activate_device_credential
    <2> QED BY <1>4, <2>1, <2>2, DeviceTyped, Zenon DEF activate_device_credential
  <1>5. CASE EnvelopeExpires(i)
    <2>1. device' = [device EXCEPT ![i] = [d EXCEPT !.late = TRUE]]
      BY <1>5, Zenon DEF EnvelopeExpires
    <2> QED BY <1>1, <1>5, <2>1, DeviceRows, DeviceTyped DEF EnvelopeExpires
  <1> QED BY <1>2, <1>3, <1>4, <1>5

LEMMA ClientType ==
  ASSUME Bound, NEW i \in Installs,
         \/ StartSetup(i)
         \/ ProvisionClaim(i)
         \/ \E c \in Campaigns : ProvisionMaterial(i, c)
         \/ \E k \in Claims : bootstrap_enrollment(i, k)
         \/ Timeout(i)
         \/ WriteCredential(i) \/ WriteIdentity(i) \/ WriteFails(i) \/ ReadBack(i)
         \/ Interrupted(i)
  PROVE  TypeOK'
  <1> USE DEF Bound
  <1>0. /\ proc[i] \in Process /\ Machine[i] \in Machines /\ file[Machine[i]] \in FileRow
        /\ file \in [Machines -> FileRow]
    BY EnrollmentAssumption DEF TypeOK, FileRow
  <1>1. ASSUME NEW p \in Process, p.campaign \in Campaigns, p.start < MaxStarts,
               Send(i, Fresh(p)), UNCHANGED <<server, file>>
        PROVE  TypeOK'
    <2>1. p.start + 1 \in 1 .. MaxStarts /\ 1 \in 1 .. RetryAttempts
      BY <1>1, EnrollmentAssumption, ProcessFields
    <2> QED BY <1>1, <2>1, FreshProcess, SendTyped
  <1>2. CASE ProvisionClaim(i)
    <2>1. proc[i].start < MaxStarts /\ proc[i].campaign \in Campaigns
      BY <1>2, EnrollmentAssumption DEF ProvisionClaim, ClientBound, Presents
    <2> QED BY <1>0, <1>1, <1>2, <2>1 DEF ProvisionClaim
  <1>3. ASSUME NEW c \in Campaigns, ProvisionMaterial(i, c) PROVE TypeOK'
    <2> DEFINE p == [proc[i] EXCEPT !.campaign = c, !.beside = proc[i].beside \cup Others(i)]
    <2>1. proc[i].start < MaxStarts
      <3>1. Kind[i] = "material" /\ proc[i].pc = "idle"
        BY <1>3, Zenon DEF ProvisionMaterial
      <3> QED BY <3>1, EnrollmentAssumption DEF ClientBound
    <2>2. p \in Process /\ p.start = proc[i].start /\ p.campaign = c
      <3> DEFINE b == proc[i].beside \cup Others(i)
      <3>1. b \in SUBSET Installs
        BY <1>0 DEF Others, Process
      <3> HIDE DEF b
      <3>2. LET q == [proc[i] EXCEPT !.campaign = c, !.beside = b]
            IN  /\ q \in Process /\ q.start = proc[i].start /\ q.campaign = c
                /\ q.claim = proc[i].claim /\ q.beside = b
        BY <1>0, <3>1 DEF Process
      <3> QED BY <3>2, Zenon DEF b
    <2> HIDE DEF p
    <2>3. Send(i, Fresh(p)) /\ UNCHANGED <<server, file>>
      BY <1>3, Zenon DEF ProvisionMaterial, p
    <2> QED BY <1>1, <2>1, <2>2, <2>3
  <1>4. ASSUME NEW k \in Claims, bootstrap_enrollment(i, k) PROVE TypeOK'
    <2> DEFINE p == [proc[i] EXCEPT !.claim = k, !.campaign = claim[k].campaign]
    <2>1. proc[i].start < MaxStarts /\ claim[k].campaign \in Campaigns
      BY <1>4 DEF bootstrap_enrollment, TypeOK, ClaimRow
    <2>2. p \in Process /\ p.start = proc[i].start /\ p.campaign = claim[k].campaign
      BY <1>0, <2>1 DEF Process
    <2> HIDE DEF p
    <2>3. CASE Files(Machine[i]) = "clean"
      <3>1. Send(i, Fresh(p)) /\ UNCHANGED <<server, file>>
        BY <1>4, <2>3, Zenon DEF bootstrap_enrollment, p
      <3> QED BY <1>1, <2>1, <2>2, <3>1
    <2>4. CASE Files(Machine[i]) # "clean"
      <3>1. \E pc \in PCs : proc' = [proc EXCEPT ![i].pc = pc]
        BY <1>4, <2>4 DEF bootstrap_enrollment, PCs
      <3>2. proc' \in [Installs -> Process]
        BY <3>1, ProcTyped, Zenon
      <3> QED BY <1>4, <2>4, <3>2, Zenon DEF bootstrap_enrollment, server, TypeOK
    <2> QED BY <2>3, <2>4
  <1>5. CASE Timeout(i)
    <2>1. /\ proc[i].start \in 1 .. MaxStarts /\ proc[i].campaign \in Campaigns
          /\ proc[i].attempt \in 1 .. RetryAttempts
      BY <1>5 DEF Timeout, ClientBound, Presents
    <2>2. CASE MayRetry(i)
      <3> DEFINE n == proc[i].attempt + 1
                 p == [proc[i] EXCEPT !.attempt = n]
      <3>1. n \in 1 .. RetryAttempts
        BY <2>1, <2>2, EnrollmentAssumption DEF MayRetry
      <3>2. Send(i, p) /\ UNCHANGED <<server, file>>
        BY <1>5, <2>2, Zenon DEF Timeout
      <3> HIDE DEF n
      <3>3. p \in Process /\ p.start = proc[i].start /\ p.campaign = proc[i].campaign /\ p.attempt = n
        BY <1>0, <3>1 DEF Process
      <3> HIDE DEF p
      <3> QED BY <2>1, <3>1, <3>2, <3>3, SendTyped
    <2>3. CASE ~MayRetry(i)
      <3>1. \E pc \in PCs : proc' = [proc EXCEPT ![i].pc = pc]
        BY <1>5, <2>3 DEF Timeout, PCs
      <3>2. proc' \in [Installs -> Process]
        BY <3>1, ProcTyped, Zenon
      <3> QED BY <1>5, <2>3, <3>2, Zenon DEF Timeout, server, TypeOK
    <2> QED BY <2>2, <2>3
  <1>6. CASE WriteCredential(i) \/ WriteIdentity(i) \/ WriteFails(i) \/ ReadBack(i) \/ Interrupted(i)
    <2>1. \E pc \in PCs : proc' = [proc EXCEPT ![i].pc = pc]
      BY <1>6 DEF WriteCredential, WriteIdentity, WriteFails, ReadBack, Interrupted, PCs
    <2>2. proc' \in [Installs -> Process]
      BY <2>1, ProcTyped, Zenon
    <2>3. Discard(i) => \E f \in FileRow : file' = [file EXCEPT ![Machine[i]] = f]
      <3> DEFINE f == file[Machine[i]]
                 g == [f EXCEPT !.credential = IF @ = <<i, 0>> THEN Nil ELSE @,
                                !.identity = IF @ = i THEN Nil ELSE @]
      <3>1. g \in FileRow
        BY <1>0, FileRows, Zenon
      <3>2. Discard(i) => file' = [file EXCEPT ![Machine[i]] = g]
        BY <1>0 DEF Discard, FileRow
      <3> QED BY <3>1, <3>2, Zenon
    <2>4. file' = file \/ \E f \in FileRow : file' = [file EXCEPT ![Machine[i]] = f]
      <3>1. CASE WriteCredential(i) \/ WriteIdentity(i)
        BY <1>0, <3>1, FileRows, Zenon DEF WriteCredential, WriteIdentity
      <3>2. CASE WriteFails(i) \/ ReadBack(i) \/ Interrupted(i)
        BY <2>3, <3>2, Zenon DEF WriteFails, ReadBack, Interrupted
      <3> QED BY <1>6, <3>1, <3>2
    <2>5. file' \in [Machines -> FileRow]
      BY <1>0, <2>4, Zenon
    <2>6. UNCHANGED <<server, calls>>
      BY <1>6, Zenon DEF WriteCredential, WriteIdentity, WriteFails, ReadBack, Interrupted
    <2> QED BY <2>2, <2>5, <2>6 DEF server, TypeOK, FileRow
  <1>7. CASE StartSetup(i)
    <2> DEFINE pc == IF Files(Machine[i]) = "clean" THEN "asking" ELSE "over"
               js == {j \in Others(i) : Running(j)}
    <2>1. proc' = [proc EXCEPT ![i] = [proc[i] EXCEPT !.pc = pc, !.beside = proc[i].beside \cup js]]
      BY <1>7, Zenon DEF StartSetup
    <2> DEFINE b == proc[i].beside \cup js
    <2>2. b \in SUBSET Installs /\ pc \in PCs
      BY <1>0 DEF Others, PCs, Process
    <2> HIDE DEF pc, b
    <2>3. [proc[i] EXCEPT !.pc = pc, !.beside = b] \in Process
      BY <1>0, <2>2 DEF Process, PCs
    <2>4. proc' \in [Installs -> Process]
      BY <2>1, <2>3, Zenon DEF TypeOK, b
    <2> QED BY <1>7, <2>4, Zenon DEF StartSetup, server, TypeOK
  <1> QED BY <1>2, <1>3, <1>4, <1>5, <1>6, <1>7

\* Every step keeps the types.
LEMMA NextType ==
  ASSUME Bound, [Next]_vars
  PROVE  TypeOK'
  <1>1. CASE UNCHANGED vars
    BY <1>1 DEF vars, Bound, TypeOK
  <1>2. ASSUME NEW k \in Claims, ClaimExpires(k) PROVE TypeOK'
    <2>1. [claim[k] EXCEPT !.late = TRUE] \in ClaimRow
      BY <1>2, ClaimRows DEF ClaimExpires, Bound, TypeOK
    <2> QED BY <1>2, <2>1, Zenon DEF ClaimExpires, Bound, TypeOK
  <1>3. \A c \in Campaigns : revoke_campaign(c) \/ CampaignExpires(c) => TypeOK'
    <2>1. MaxUses \in 1 .. MaxUses
      BY EnrollmentAssumption
    <2> QED BY <2>1, AdministrationType, Zenon
  <1>4. \A c \in Campaigns, i \in Installs, k \in Claims :
          issue_provisioning_install_claim(i, k, c) => TypeOK'
    <2>1. MaxUses \in 1 .. MaxUses
      BY EnrollmentAssumption
    <2> QED BY <2>1, AdministrationType, Zenon
  <1> QED BY <1>1, <1>2, <1>3, <1>4, NextSteps, AdministrationType, RequestType, EnrollType,
             DeviceType, ClientType, Zenon

-----------------------------------------------------------------------------
(* What a step keeps *)

\* No row is deleted, and a claim stays bound to its install and campaign.
Kept ==
  /\ \A c \in Campaigns : campaign[c] # Nil => campaign'[c] # Nil
  /\ \A i \in Installs : request[i] # Nil => request'[i] # Nil
  /\ \A k \in Claims : claim[k] # Nil =>
       /\ claim'[k] # Nil /\ claim'[k].inst = claim[k].inst
       /\ claim'[k].campaign = claim[k].campaign /\ claim'[k].request = claim[k].request

\* The claims are the old ones, some of them late or consumed.
SameClaims ==
  \A k \in Claims :
    /\ claim'[k] = Nil <=> claim[k] = Nil
    /\ claim[k] # Nil =>
         /\ claim'[k].inst = claim[k].inst /\ claim'[k].campaign = claim[k].campaign
         /\ claim'[k].request = claim[k].request

LEMMA Absent ==
  /\ Nil \notin CampaignRow /\ Nil \notin RequestRow /\ Nil \notin ClaimRow
  /\ Nil \notin DeviceRow /\ Nil \notin Credential
  BY NilAssumption, Zenon

LEMMA LateClaim ==
  ASSUME NEW r \in ClaimRow
  PROVE  LET q == [r EXCEPT !.late = TRUE]
         IN  q \in ClaimRow /\ q.inst = r.inst /\ q.campaign = r.campaign /\ q.request = r.request
             /\ q.device = r.device
  BY DEF ClaimRow

LEMMA ConsumedClaim ==
  ASSUME NEW r \in ClaimRow, NEW i \in Installs
  PROVE  LET q == [r EXCEPT !.device = i]
         IN  q \in ClaimRow /\ q.inst = r.inst /\ q.campaign = r.campaign /\ q.request = r.request
             /\ q.device = i
  BY DEF ClaimRow

LEMMA DeadlineClaims ==
  ASSUME TypeOK,
         \/ \E k \in Claims : ClaimExpires(k)
         \/ \E c \in Campaigns : CampaignExpires(c)
         \/ \E i \in Installs : RequestExpires(i)
  PROVE  SameClaims /\ \A k \in Claims : claim[k] # Nil => claim'[k].device = claim[k].device
  <1>1. \A k \in Claims : claim[k] = Nil \/ claim[k] \in ClaimRow
    BY DEF TypeOK
  <1>2. ASSUME NEW k \in Claims
        PROVE  claim'[k] = claim[k] \/ (claim[k] # Nil /\ claim'[k] = [claim[k] EXCEPT !.late = TRUE])
    <2>1. CASE \E h \in Claims : ClaimExpires(h)
      <3>1. PICK h \in Claims : ClaimExpires(h)
        BY <2>1
      <3> QED BY <1>2, <3>1, Zenon DEF ClaimExpires, TypeOK
    <2>2. CASE \E c \in Campaigns : CampaignExpires(c)
      BY <2>2, Zenon DEF CampaignExpires
    <2>3. CASE \E i \in Installs : RequestExpires(i)
      BY <2>3, Zenon DEF RequestExpires
    <2> QED BY <2>1, <2>2, <2>3
  <1>3. ASSUME NEW k \in Claims, claim[k] # Nil
        PROVE  /\ claim'[k] # Nil /\ claim'[k].inst = claim[k].inst
               /\ claim'[k].campaign = claim[k].campaign /\ claim'[k].request = claim[k].request
               /\ claim'[k].device = claim[k].device
    <2>1. CASE claim'[k] = claim[k]
      BY <1>3, <2>1
    <2>2. CASE claim'[k] = [claim[k] EXCEPT !.late = TRUE]
      BY <1>1, <1>3, <2>2, LateClaim, Absent, Zenon
    <2> QED BY <1>2, <2>1, <2>2
  <1>4. ASSUME NEW k \in Claims, claim[k] = Nil PROVE claim'[k] = Nil
    BY <1>2, <1>4
  <1> QED BY <1>3, <1>4, Zenon DEF SameClaims

\* A transaction that enrolls consumes its claim.
LEMMA EnrollClaims ==
  ASSUME Bound, NEW call \in calls, NEW answered \in BOOLEAN, enroll_agent(call, answered)
  PROVE  SameClaims
  <1>1. EnrollEffect(call, EnrollOutcome(call)) /\ call.inst \in Installs
    BY EnrollDoes, Zenon DEF enroll_agent, Bound
  <1>2. CASE EnrollOutcome(call) = "created"
    <2> DEFINE k == call.claim
    <2>1. claim' = IF k = Nil THEN claim ELSE [claim EXCEPT ![k] = [claim[k] EXCEPT !.device = call.inst]]
      BY <1>1, <1>2, CreatedDoes, Zenon DEF Consumed
    <2>2. CASE k = Nil
      BY <2>1, <2>2 DEF SameClaims
    <2>3. CASE k # Nil
      <3>1. k \in Claims /\ claim[k] # Nil /\ claim[k] \in ClaimRow
        BY <2>3 DEF Bound, TypeOK, EnrollCall, CallBound, Presents
      <3> DEFINE r == [claim[k] EXCEPT !.device = call.inst]
      <3>2. /\ r # Nil /\ r.inst = claim[k].inst
            /\ r.campaign = claim[k].campaign /\ r.request = claim[k].request
        BY <1>1, <3>1, ConsumedClaim, Absent, ZenonT(30)
      <3> HIDE DEF r
      <3>3. claim' = [claim EXCEPT ![k] = r]
        BY <2>1, <2>3 DEF r
      <3> QED BY <3>1, <3>2, <3>3 DEF SameClaims, Bound, TypeOK
    <2> QED BY <2>2, <2>3
  <1>3. CASE EnrollOutcome(call) \in {"denied", "error", "again", "destroyed"}
    <2>1. claim' = claim
      BY <1>1, <1>3, OthersDo, DestroyedDoes DEF server
    <2> QED BY <2>1 DEF SameClaims
  <1> QED BY <1>2, <1>3, OutcomeType

\* A claim appears only for a host the provisioning service installs, or for a
\* Setup run whose request is approved, with a campaign that has room.
Issued ==
  \A k \in Claims : claim[k] = Nil /\ claim'[k] # Nil =>
    /\ claim'[k] \in ClaimRow
    /\ campaign[claim'[k].campaign] # Nil
    /\ claim'[k].request <=> Kind[claim'[k].inst] = "setup"
    /\ claim'[k].request => request[claim'[k].inst] # Nil
    /\ claim'[k].device = Nil

LEMMA NewClaims ==
  ASSUME Bound, NEW i \in Installs, NEW k \in Claims, NEW c \in Campaigns, NEW b \in BOOLEAN,
         claim[k] = Nil, claim' = [claim EXCEPT ![k] = NewClaim(i, c, b)],
         campaign[c] # Nil, b <=> Kind[i] = "setup", b => request[i] # Nil
  PROVE  /\ Issued
         /\ \A j \in Claims : j # k => claim'[j] = claim[j]
         /\ claim'[k] \in ClaimRow /\ claim'[k] # Nil
         /\ claim'[k].inst = i /\ claim'[k].campaign = c /\ claim'[k].request = b
  <1> DEFINE r == NewClaim(i, c, b)
  <1>1. /\ r \in ClaimRow /\ r.inst = i /\ r.campaign = c /\ r.request = b /\ r.device = Nil
    BY DEF NewClaim, ClaimRow
  <1>2. claim'[k] = r /\ \A j \in Claims : j # k => claim'[j] = claim[j]
    BY DEF Bound, TypeOK
  <1> HIDE DEF r
  <1>3. r # Nil
    BY <1>1, Absent
  <1> QED BY <1>1, <1>2, <1>3 DEF Issued

LEMMA ClaimStep ==
  ASSUME Bound, Next
  PROVE  /\ Issued
         /\ \A k \in Claims : claim[k] # Nil =>
              /\ claim'[k] # Nil /\ claim'[k].inst = claim[k].inst
              /\ claim'[k].campaign = claim[k].campaign /\ claim'[k].request = claim[k].request
  <1> DEFINE G == Issued /\ \A k \in Claims : claim[k] # Nil =>
                    /\ claim'[k] # Nil /\ claim'[k].inst = claim[k].inst
                    /\ claim'[k].campaign = claim[k].campaign
                    /\ claim'[k].request = claim[k].request
  <1>1. ASSUME SameClaims PROVE G
    BY <1>1, Zenon DEF SameClaims, Issued
  <1>2. ASSUME claim' = claim PROVE G
    BY <1>2, Zenon DEF Issued
  <1>3. ASSUME NEW i \in Installs, NEW k \in Claims, NEW c \in Campaigns,
               issue_provisioning_install_claim(i, k, c)
        PROVE  G
    <2>1. /\ claim[k] = Nil /\ claim' = [claim EXCEPT ![k] = NewClaim(i, c, FALSE)]
          /\ campaign[c] # Nil /\ Kind[i] # "setup"
      BY <1>3 DEF issue_provisioning_install_claim, Allows, Matches
    <2>2. Issued /\ \A j \in Claims : j # k => claim'[j] = claim[j]
      <3>1. PICK b \in BOOLEAN : b = FALSE
        OBVIOUS
      <3>2. claim' = [claim EXCEPT ![k] = NewClaim(i, c, b)]
        BY <2>1, <3>1
      <3> QED BY <2>1, <3>1, <3>2, NewClaims
    <2> QED BY <2>1, <2>2, Zenon
  <1>4. ASSUME NEW i \in Installs, NEW k \in Claims, NEW answered \in BOOLEAN,
               handoff_enrollment_request_claim(i, k, answered)
        PROVE  G
    <2>1. /\ request[i] # Nil /\ request[i] \in RequestRow /\ claim[k] = Nil /\ Kind[i] = "setup"
      BY <1>4 DEF handoff_enrollment_request_claim, Bound, TypeOK, RequestBound, ClientBound, Running
    <2>2. CASE claim' # claim
      <3> DEFINE c == request[i].campaign
      <3>1. /\ claim' = [claim EXCEPT ![k] = NewClaim(i, c, TRUE)]
            /\ Allows(c, "windows") /\ request[i].status \in {"auto_approved", "approved"}
        BY <1>4, <2>2 DEF handoff_enrollment_request_claim
      <3>2. c \in Campaigns
        BY <2>1, <3>1 DEF Bound, RequestBound, RequestRow
      <3>3. campaign[c] # Nil
        BY <3>1 DEF Allows, Matches
      <3> HIDE DEF c
      <3>4. Issued /\ \A j \in Claims : j # k => claim'[j] = claim[j]
        <4>1. PICK b \in BOOLEAN : b = TRUE
          OBVIOUS
        <4>2. claim' = [claim EXCEPT ![k] = NewClaim(i, c, b)]
          BY <3>1, <4>1
        <4>3. b <=> Kind[i] = "setup"
          BY <2>1, <4>1
        <4>4. request[i] # Nil /\ claim[k] = Nil
          BY <2>1
        <4> QED BY <3>2, <3>3, <4>2, <4>3, <4>4, NewClaims
      <3> QED BY <2>1, <3>4, Zenon
    <2> QED BY <1>2, <2>2
  <1>5. ASSUME NEW call \in calls, NEW answered \in BOOLEAN, enroll_agent(call, answered) PROVE G
    BY <1>1, <1>5, EnrollClaims
  <1>6. ASSUME \/ \E k \in Claims : ClaimExpires(k)
               \/ \E c \in Campaigns : CampaignExpires(c)
               \/ \E i \in Installs : RequestExpires(i)
        PROVE  G
    BY <1>1, <1>6, DeadlineClaims DEF Bound
  <1>7. ASSUME \/ \E c \in Campaigns, max \in 1 .. MaxUses, platform \in {"windows", "linux"},
                    mode \in {"auto", "manual"} : create_campaign(c, platform, mode, max)
               \/ \E c \in Campaigns, max \in 1 .. MaxUses : update_campaign(c, max)
               \/ \E c \in Campaigns : revoke_campaign(c)
               \/ \E i \in Installs, answered \in BOOLEAN :
                    \/ create_enrollment_request(i, answered)
                    \/ enrollment_request_status(i, answered)
                    \/ \E ready \in BOOLEAN : verify_enrollment_completion(i, ready, answered)
               \/ \E i \in Installs :
                    \/ approve_request(i) \/ deny_request(i)
                    \/ acknowledge_enrollment_delivery(i) \/ cleanup_expired_retry_envelopes(i)
                    \/ rotate_device_credential(i) \/ activate_device_credential(i)
                    \/ EnvelopeExpires(i)
                    \/ StartSetup(i)
                    \/ ProvisionClaim(i)
                    \/ \E c \in Campaigns : ProvisionMaterial(i, c)
                    \/ \E k \in Claims : bootstrap_enrollment(i, k)
                    \/ Timeout(i)
                    \/ WriteCredential(i) \/ WriteIdentity(i) \/ WriteFails(i) \/ ReadBack(i)
                    \/ Interrupted(i)
        PROVE  G
    <2>1. claim' = claim
      BY <1>7, Zenon
         DEF create_campaign, update_campaign, revoke_campaign, create_enrollment_request,
             enrollment_request_status, verify_enrollment_completion, approve_request, deny_request,
             acknowledge_enrollment_delivery, cleanup_expired_retry_envelopes,
             rotate_device_credential, activate_device_credential, EnvelopeExpires,
             StartSetup, ProvisionClaim, ProvisionMaterial, bootstrap_enrollment, Timeout, WriteCredential,
             WriteIdentity, WriteFails, ReadBack, Interrupted, server
    <2> QED BY <1>2, <2>1
  <1> HIDE DEF G
  <1>8. G
    BY <1>3, <1>4, <1>5, <1>6, <1>7, NextSteps, Zenon
  <1> QED BY <1>8 DEF G


LEMMA RequestAt ==
  ASSUME NEW r \in RequestRow, NEW s \in Statuses
  PROVE  LET q == [r EXCEPT !.status = s]
         IN  q \in RequestRow /\ q.status = s /\ q.campaign = r.campaign /\ q.late = r.late
  BY DEF RequestRow

LEMMA RequestLate ==
  ASSUME NEW r \in RequestRow
  PROVE  LET q == [r EXCEPT !.late = TRUE]
         IN  q \in RequestRow /\ q.status = r.status /\ q.campaign = r.campaign
  BY DEF RequestRow
\* How the rows of devices and campaigns may change in one step.
Keeps(d, e) == /\ d # Nil /\ e # Nil /\ e.campaign = d.campaign /\ e.claim = d.claim
               /\ e.receipt \in {d.receipt, Nil}

\* The transaction of this call enrolls its install.
Enrolls(call) ==
  LET i == call.inst
      k == call.claim
      c == call.campaign
  IN  /\ i \in Installs /\ device[i] = Nil /\ device'[i] # Nil
      /\ device'[i].campaign = c /\ device'[i].claim = k /\ device'[i].receipt = call.start
      /\ \A j \in Installs : j # i => device'[j] = device[j]
      /\ RequestReady(call)
      /\ k # Nil => k \in Claims /\ claim[k].device = Nil /\ claim'[k].device = i
      /\ \A h \in Claims : h # k => claim'[h] = claim[h]
      /\ c \in Campaigns /\ campaign[c] # Nil /\ campaign'[c] # Nil
      /\ campaign[c].uses < campaign[c].max
      /\ campaign'[c].uses = campaign[c].uses + 1 /\ campaign'[c].max = campaign[c].max
      /\ \A b \in Campaigns : b # c => campaign'[b] = campaign[b]
      /\ calls' = calls \ {call}
      /\ k # Nil /\ claim[k].request => request'[i].status = "device_registered" /\ request'[i] # Nil
      /\ \A j \in Installs : j # i => request'[j] = request[j]

\* Any other step.
Settles(c) ==
  \/ campaign'[c] = campaign[c]
  \/ campaign[c] = Nil /\ campaign'[c] # Nil /\ campaign'[c].uses = 0 /\ campaign'[c].max \in 1 .. MaxUses
  \/ /\ campaign[c] # Nil /\ campaign'[c] # Nil /\ campaign'[c].uses = campaign[c].uses
     /\ campaign'[c].max = campaign[c].max \/ campaign'[c].max >= campaign[c].uses

Rests ==
  /\ \A i \in Installs : device'[i] = device[i] \/ Keeps(device[i], device'[i])
  /\ \A c \in Campaigns : Settles(c)
  /\ \A k \in Claims : claim[k] # Nil => claim'[k].device = claim[k].device

LEMMA DeviceKeeps ==
  ASSUME NEW d \in DeviceRow
  PROVE  /\ Keeps(d, [d EXCEPT !.receipt = Nil])
         /\ Keeps(d, [d EXCEPT !.late = TRUE])
         /\ d.token < MaxRotations => Keeps(d, [d EXCEPT !.pending = d.token + 1])
         /\ d.pending # Nil => Keeps(d, [d EXCEPT !.token = d.pending, !.pending = Nil])
  <1>1. d # Nil
    BY Absent
  <1>2. /\ [d EXCEPT !.receipt = Nil] \in DeviceRow
        /\ [d EXCEPT !.late = TRUE] \in DeviceRow
        /\ d.token < MaxRotations => [d EXCEPT !.pending = d.token + 1] \in DeviceRow
        /\ d.pending # Nil => [d EXCEPT !.token = d.pending, !.pending = Nil] \in DeviceRow
    BY DeviceRows
  <1>3. Keeps(d, [d EXCEPT !.receipt = Nil])
    <2>1. [d EXCEPT !.receipt = Nil] # Nil
      BY <1>2, Absent
    <2> QED BY <1>1, <2>1 DEF Keeps, DeviceRow
  <1>4. Keeps(d, [d EXCEPT !.late = TRUE])
    <2>1. [d EXCEPT !.late = TRUE] # Nil
      BY <1>2, Absent
    <2> QED BY <1>1, <2>1 DEF Keeps, DeviceRow
  <1>5. ASSUME d.token < MaxRotations PROVE Keeps(d, [d EXCEPT !.pending = d.token + 1])
    <2> DEFINE t == d.token + 1
    <2>1. [d EXCEPT !.pending = t] # Nil
      BY <1>2, <1>5, Absent
    <2> HIDE DEF t
    <2>2. Keeps(d, [d EXCEPT !.pending = t])
      BY <1>1, <2>1 DEF Keeps, DeviceRow
    <2> QED BY <2>2 DEF t
  <1>6. ASSUME d.pending # Nil PROVE Keeps(d, [d EXCEPT !.token = d.pending, !.pending = Nil])
    <2>1. [d EXCEPT !.token = d.pending, !.pending = Nil] # Nil
      BY <1>2, <1>6, Absent
    <2> QED BY <1>1, <2>1 DEF Keeps, DeviceRow
  <1> QED BY <1>3, <1>4, <1>5, <1>6

LEMMA DeviceRests ==
  ASSUME Bound, NEW i \in Installs,
         \/ acknowledge_enrollment_delivery(i) \/ cleanup_expired_retry_envelopes(i)
         \/ rotate_device_credential(i) \/ activate_device_credential(i) \/ EnvelopeExpires(i)
  PROVE  Rests
  <1> DEFINE d == device[i]
  <1>1. d \in DeviceRow /\ device \in [Installs -> DeviceRow \cup {Nil}]
    BY DEF acknowledge_enrollment_delivery, cleanup_expired_retry_envelopes,
           rotate_device_credential, activate_device_credential, EnvelopeExpires, Bound, TypeOK
  <1>2. campaign' = campaign /\ claim' = claim
    BY Zenon DEF acknowledge_enrollment_delivery, cleanup_expired_retry_envelopes,
           rotate_device_credential, activate_device_credential, EnvelopeExpires
  <1>3. ASSUME NEW e, device' = [device EXCEPT ![i] = e], Keeps(d, e) PROVE Rests
    <2>1. device'[i] = e /\ \A j \in Installs : j # i => device'[j] = device[j]
      BY <1>1, <1>3, Zenon
    <2> QED BY <1>2, <1>3, <2>1, Zenon DEF Rests, Settles
  <1>4. CASE acknowledge_enrollment_delivery(i) \/ cleanup_expired_retry_envelopes(i)
    <2>1. device' = [device EXCEPT ![i] = [d EXCEPT !.receipt = Nil]]
      BY <1>4, Zenon DEF acknowledge_enrollment_delivery, cleanup_expired_retry_envelopes
    <2> QED BY <1>1, <1>3, <2>1, DeviceKeeps, Zenon
  <1>5. CASE rotate_device_credential(i)
    <2>1. device' = [device EXCEPT ![i] = [d EXCEPT !.pending = d.token + 1]] /\ d.token < MaxRotations
      BY <1>5, Zenon DEF rotate_device_credential
    <2> QED BY <1>1, <1>3, <2>1, DeviceKeeps, Zenon
  <1>6. CASE activate_device_credential(i)
    <2>1. device' = [device EXCEPT ![i] = [d EXCEPT !.token = d.pending, !.pending = Nil]]
      BY <1>1, <1>6 DEF activate_device_credential, DeviceRow, Bound, TypeOK
    <2>2. d.pending # Nil
      BY <1>6 DEF activate_device_credential
    <2> QED BY <1>1, <1>3, <2>1, <2>2, DeviceKeeps, Zenon
  <1>7. CASE EnvelopeExpires(i)
    <2>1. device' = [device EXCEPT ![i] = [d EXCEPT !.late = TRUE]]
      BY <1>7, Zenon DEF EnvelopeExpires
    <2> QED BY <1>1, <1>3, <2>1, DeviceKeeps, Zenon
  <1> QED BY <1>4, <1>5, <1>6, <1>7

LEMMA CampaignRests ==
  ASSUME Bound, NEW c \in Campaigns,
         \/ \E max \in 1 .. MaxUses :
              \/ update_campaign(c, max)
              \/ \E platform \in {"windows", "linux"}, mode \in {"auto", "manual"} :
                   create_campaign(c, platform, mode, max)
         \/ revoke_campaign(c) \/ CampaignExpires(c)
  PROVE  Rests
  <1>1. device' = device /\ campaign \in [Campaigns -> CampaignRow \cup {Nil}]
    BY DEF update_campaign, create_campaign, revoke_campaign, CampaignExpires, Bound, TypeOK
  <1>2. \A k \in Claims : claim[k] # Nil => claim'[k].device = claim[k].device
    <2>1. CASE CampaignExpires(c)
      BY <2>1, DeadlineClaims DEF Bound
    <2>2. CASE ~CampaignExpires(c)
      <3>1. claim' = claim
        BY <2>2, Zenon DEF update_campaign, create_campaign, revoke_campaign
      <3> QED BY <3>1
    <2> QED BY <2>1, <2>2
  <1>3. ASSUME NEW r \in CampaignRow, campaign' = [campaign EXCEPT ![c] = r],
               \/ campaign[c] = Nil /\ r.uses = 0
               \/ campaign[c] # Nil /\ r.uses = campaign[c].uses
                  /\ (r.max = campaign[c].max \/ r.max >= campaign[c].uses)
        PROVE  Rests
    <2>1. campaign'[c] = r /\ \A b \in Campaigns : b # c => campaign'[b] = campaign[b]
      BY <1>1, <1>3
    <2>2. r # Nil /\ r.max \in 1 .. MaxUses
      BY Absent DEF CampaignRow
    <2>3. Settles(c)
      BY <1>3, <2>1, <2>2 DEF Settles
    <2> QED BY <1>1, <1>2, <2>1, <2>3, Zenon DEF Rests, Settles
  <1>4. ASSUME NEW max \in 1 .. MaxUses, NEW platform \in {"windows", "linux"},
               NEW mode \in {"auto", "manual"}, create_campaign(c, platform, mode, max)
        PROVE  Rests
    <2> DEFINE r == [platform |-> platform, mode |-> mode, max |-> max, uses |-> 0,
                     revoked |-> FALSE, expired |-> FALSE]
    <2>1. r \in CampaignRow /\ r.uses = 0
      BY EnrollmentAssumption DEF CampaignRow
    <2>2. campaign' = [campaign EXCEPT ![c] = r] /\ campaign[c] = Nil
      BY <1>4, Zenon DEF create_campaign
    <2> HIDE DEF r
    <2> QED BY <1>3, <2>1, <2>2, Zenon
  <1>5. ASSUME campaign[c] \in CampaignRow, NEW max \in 1 .. MaxUses, update_campaign(c, max)
        PROVE  Rests
    <2> DEFINE r == [campaign[c] EXCEPT !.max = max, !.expired = FALSE]
    <2>1. r \in CampaignRow /\ r.uses = campaign[c].uses /\ r.max = max
      BY <1>5 DEF CampaignRow
    <2>2. campaign' = [campaign EXCEPT ![c] = r]
      BY <1>1, <1>5 DEF update_campaign, CampaignRow
    <2> HIDE DEF r
    <2>3. r.max >= campaign[c].uses /\ campaign[c] # Nil
      BY <1>5, <2>1 DEF update_campaign
    <2> QED BY <1>3, <2>1, <2>2, <2>3, Zenon
  <1>6. ASSUME campaign[c] \in CampaignRow, revoke_campaign(c) \/ CampaignExpires(c) PROVE Rests
    <2>1. PICK r \in CampaignRow :
            campaign' = [campaign EXCEPT ![c] = r] /\ r.uses = campaign[c].uses /\ r.max = campaign[c].max
      <3>1. /\ [campaign[c] EXCEPT !.revoked = TRUE] \in CampaignRow
            /\ [campaign[c] EXCEPT !.revoked = TRUE].uses = campaign[c].uses
            /\ [campaign[c] EXCEPT !.revoked = TRUE].max = campaign[c].max
        BY <1>6 DEF CampaignRow
      <3>2. /\ [campaign[c] EXCEPT !.expired = TRUE] \in CampaignRow
            /\ [campaign[c] EXCEPT !.expired = TRUE].uses = campaign[c].uses
            /\ [campaign[c] EXCEPT !.expired = TRUE].max = campaign[c].max
        BY <1>6 DEF CampaignRow
      <3> QED BY <1>6, <3>1, <3>2, Zenon DEF revoke_campaign, CampaignExpires
    <2>2. campaign[c] # Nil
      BY <1>6 DEF revoke_campaign, CampaignExpires
    <2> QED BY <1>3, <2>1, <2>2, Zenon
  <1>7. campaign[c] # Nil => campaign[c] \in CampaignRow
    BY <1>1
  <1> QED BY <1>4, <1>5, <1>6, <1>7, Zenon DEF update_campaign, revoke_campaign, CampaignExpires

LEMMA EnrollStep ==
  ASSUME Bound, NEW call \in calls, NEW answered \in BOOLEAN, enroll_agent(call, answered)
  PROVE  IF EnrollOutcome(call) = "created" THEN Enrolls(call)
         ELSE Rests /\ request' = request /\ claim' = claim /\ campaign' = campaign
  <1> DEFINE i == call.inst
             k == call.claim
             c == call.campaign
  <1>1. i \in Installs /\ calls' = calls \ {call} /\ EnrollEffect(call, EnrollOutcome(call))
    BY EnrollDoes, Zenon DEF enroll_agent, Bound
  <1>2. /\ call \in EnrollCall /\ c \in Campaigns /\ k \in Claims \cup {Nil}
        /\ Presents(i, c, k)
    BY DEF TypeOK, EnrollCall, Bound, CallBound
  <1>3. CASE EnrollOutcome(call) = "created"
    <2> DEFINE d == [campaign |-> c, claim |-> k, receipt |-> call.start,
                     late |-> FALSE, token |-> 0, pending |-> Nil]
    <2>1. d \in DeviceRow /\ d.campaign = c /\ d.claim = k /\ d.receipt = call.start
      BY <1>2, EnrollmentAssumption DEF EnrollCall, DeviceRow
    <2>2. device' = [device EXCEPT ![i] = d]
      BY <1>1, <1>3, CreatedDoes, Zenon
    <2> HIDE DEF d
    <2>3. /\ device'[i] # Nil /\ device'[i].campaign = c /\ device'[i].claim = k
          /\ device'[i].receipt = call.start
          /\ \A j \in Installs : j # i => device'[j] = device[j]
      <3>1. device'[i] = d /\ \A j \in Installs : j # i => device'[j] = device[j]
        BY <1>1, <2>2 DEF Bound, TypeOK
      <3> QED BY <2>1, <3>1, Absent, Zenon
    <2>4. campaign[c] \in CampaignRow /\ campaign[c] # Nil /\ campaign[c].uses < campaign[c].max
      BY <1>2, <1>3, CreatedWhen DEF Allows, Matches, Bound, TypeOK
    <2>5. /\ campaign'[c] # Nil /\ campaign'[c].uses = campaign[c].uses + 1
          /\ campaign'[c].max = campaign[c].max
          /\ \A b \in Campaigns : b # c => campaign'[b] = campaign[b]
      <3> DEFINE r == [campaign[c] EXCEPT !.uses = @ + 1]
      <3>1. campaign' = [campaign EXCEPT ![c] = r]
        BY <1>1, <1>3, CreatedDoes, Zenon
      <3>2. r \in CampaignRow
        <4>1. MaxUses \in 1 .. MaxUses
          BY EnrollmentAssumption
        <4> QED BY <2>4, <4>1, CampaignRows, Zenon
      <3>3. r.uses = campaign[c].uses + 1 /\ r.max = campaign[c].max
        BY <2>4 DEF CampaignRow
      <3> HIDE DEF r
      <3>4. campaign'[c] = r /\ \A b \in Campaigns : b # c => campaign'[b] = campaign[b]
        BY <1>2, <3>1 DEF Bound, TypeOK
      <3> QED BY <3>2, <3>3, <3>4, Absent, Zenon
    <2>6. /\ k # Nil => k \in Claims /\ claim[k].device = Nil /\ claim'[k].device = i
          /\ \A h \in Claims : h # k => claim'[h] = claim[h]
      <3>1. claim' = IF k = Nil THEN claim ELSE [claim EXCEPT ![k] = [claim[k] EXCEPT !.device = i]]
        BY <1>1, <1>3, CreatedDoes, Zenon DEF Consumed
      <3>2. CASE k = Nil
        BY <3>1, <3>2
      <3>3. CASE k # Nil
        <4>1. k \in Claims /\ claim[k] \in ClaimRow /\ claim[k].device = Nil
          BY <1>2, <1>3, <3>3, CreatedWhen DEF Presents, Bound, TypeOK
        <4> DEFINE r == [claim[k] EXCEPT !.device = i]
        <4>2. r.device = i
          BY <1>1, <4>1, ConsumedClaim, Zenon
        <4> HIDE DEF r
        <4>3. claim' = [claim EXCEPT ![k] = r]
          BY <3>1, <3>3 DEF r
        <4>4. claim'[k] = r /\ \A h \in Claims : h # k => claim'[h] = claim[h]
          BY <4>1, <4>3 DEF Bound, TypeOK
        <4> QED BY <4>1, <4>2, <4>4
      <3> QED BY <3>2, <3>3
    <2>7. /\ k # Nil /\ claim[k].request => request'[i].status = "device_registered" /\ request'[i] # Nil
          /\ \A j \in Installs : j # i => request'[j] = request[j]
      <3> DEFINE r == [request[i] EXCEPT !.status = "device_registered"]
      <3>1. \/ request' = request /\ (k = Nil \/ ~claim[k].request)
            \/ k # Nil /\ claim[k].request /\ request' = [request EXCEPT ![i] = r]
        BY <1>1, <1>3, CreatedDoes, Zenon
      <3>2. k # Nil /\ claim[k].request => request[i] \in RequestRow
        BY <1>1, <1>2 DEF Presents, Bound, ClaimBound, TypeOK
      <3>3. k # Nil /\ claim[k].request => r \in RequestRow /\ r.status = "device_registered"
        BY <3>2, RequestAt DEF Statuses
      <3> HIDE DEF r
      <3>4. request' = [request EXCEPT ![i] = r] =>
              request'[i] = r /\ \A j \in Installs : j # i => request'[j] = request[j]
        BY <1>1 DEF Bound, TypeOK
      <3> QED BY <3>1, <3>3, <3>4, Absent, Zenon
    <2>8. device[i] = Nil /\ RequestReady(call)
      BY <1>3, CreatedWhen
    <2> QED BY <1>1, <1>2, <1>3, <2>3, <2>4, <2>5, <2>6, <2>7, <2>8, Zenon DEF Enrolls
  <1>4. CASE EnrollOutcome(call) = "destroyed"
    <2>1. /\ device' = [device EXCEPT ![i] = [device[i] EXCEPT !.receipt = Nil]]
          /\ request' = request /\ claim' = claim /\ campaign' = campaign
      BY <1>1, <1>4, DestroyedDoes, Zenon
    <2>2. Keeps(device[i], [device[i] EXCEPT !.receipt = Nil])
      BY <1>1, <1>4, DestroyedWhen, DeviceKeeps, Zenon DEF Bound, TypeOK
    <2>3. /\ device'[i] = [device[i] EXCEPT !.receipt = Nil]
          /\ \A j \in Installs : j # i => device'[j] = device[j]
      BY <1>1, <2>1, Zenon DEF Bound, TypeOK
    <2>4. Rests
      BY <2>1, <2>2, <2>3, Zenon DEF Rests, Settles
    <2>5. EnrollOutcome(call) # "created"
      BY <1>4
    <2> QED BY <2>1, <2>4, <2>5, Zenon
  <1>5. CASE EnrollOutcome(call) \in {"denied", "error", "again"}
    <2>1. campaign' = campaign /\ request' = request /\ claim' = claim /\ device' = device
      BY <1>1, <1>5, OthersDo DEF server
    <2>2. Rests
      BY <2>1, Zenon DEF Rests, Settles
    <2>3. EnrollOutcome(call) # "created"
      BY <1>5
    <2> QED BY <2>1, <2>2, <2>3, Zenon
  <1> QED BY <1>3, <1>4, <1>5, OutcomeType

\* How a client may move in one step.
Same(p, q) == q.start = p.start /\ q.campaign = p.campaign /\ q.claim = p.claim

\* A client remembers whom it met, and one that starts meets those that run
\* and, unless it finds no file, everyone.
Looks(i, p, q) ==
  /\ p.beside \subseteq q.beside
  /\ p.pc \in Rest /\ q.pc \notin Rest /\ Kind[i] # "systemd" =>
       /\ {j \in Others(i) : Running(j)} \subseteq q.beside
       /\ Clean(file[Machine[i]]) \/ Others(i) \subseteq q.beside

Walks(i, p, q) ==
  /\ Same(p, q) /\ q.pc \notin {"claimed", "calling"}
  /\ q.pc = "idle" => Kind[i] = "systemd"
  /\ q.pc = "asking" => Kind[i] = "setup" /\ p.pc = "idle"
  /\ q.pc \in {"polling", "approved"} =>
       /\ Kind[i] = "setup" /\ request'[i] # Nil
       /\ p.pc \in {"asking", "polling"}
  /\ q.pc = "verifying" => Kind[i] = "setup" /\ p.pc \in {"written", "verifying"}
  /\ q.pc = "done" => \/ p.pc \in {"written", "verifying"}
                      \/ p.pc = "idle" /\ Kind[i] = "systemd" /\ Files(Machine[i]) = "valid"
  /\ q.pc = "got" => p.pc = "calling" /\ device'[i] # Nil
  /\ q.pc = "half" => p.pc = "got"
  /\ q.pc = "written" => p.pc = "half"
  /\ q.pc = "denied" => \/ p.pc # "calling"
                        \/ \E call \in calls : /\ call.inst = i /\ call.start = p.start
                                              /\ EnrollOutcome(call) \in {"denied", "destroyed"}

\* Presents, of the rows the step leaves.
PresentsNext(i, c, k) ==
  /\ c \in Campaigns /\ campaign'[c] # Nil
  /\ k = Nil <=> Kind[i] = "material"
  /\ k # Nil => claim'[k] # Nil /\ claim'[k].inst = i /\ claim'[k].campaign = c

TakesClaim(i, p, q) ==
  /\ p.pc = "approved" /\ q.pc = "claimed" /\ q.start = p.start
  /\ PresentsNext(i, q.campaign, q.claim)

PlacesCall(i, p, q) ==
  /\ q.pc = "calling" /\ q.start \in 1 .. MaxStarts /\ q.attempt \in 1 .. RetryAttempts
  /\ Presents(i, q.campaign, q.claim)
  /\ \/ p.pc = "calling" /\ Same(p, q)
     \/ /\ q.start = p.start + 1
        /\ \/ p.pc = "claimed"
           \/ p.pc = "idle" /\ Kind[i] # "setup"

Moves(i) == /\ Looks(i, proc[i], proc'[i])
            /\ \/ proc'[i] = proc[i]
               \/ Walks(i, proc[i], proc'[i])
               \/ TakesClaim(i, proc[i], proc'[i])
               \/ PlacesCall(i, proc[i], proc'[i])

LEMMA StaysLooks == \A i, p : Looks(i, p, p)
  BY DEF Looks

\* A new call is the one its client now waits for.
NewCalls ==
  \A call \in calls' : call \in calls \/
    /\ call.inst \in Installs
    /\ LET q == proc'[call.inst]
       IN  /\ proc[call.inst] # q /\ q.pc = "calling"
           /\ call.start = q.start /\ call.campaign = q.campaign /\ call.claim = q.claim

\* A step that only sets the pc of one client.
LEMMA WalkStep ==
  ASSUME Bound, NEW i \in Installs, NEW pc \in PCs, proc' = [proc EXCEPT ![i].pc = pc],
         pc \notin {"asking", "claimed", "calling", "got"},
         pc = "idle" => Kind[i] = "systemd",
         pc \in {"polling", "approved"} =>
           /\ Kind[i] = "setup" /\ request'[i] # Nil
           /\ proc[i].pc \in {"asking", "polling"},
         pc = "verifying" => Kind[i] = "setup" /\ proc[i].pc \in {"written", "verifying"},
         pc = "done" => \/ proc[i].pc \in {"written", "verifying"}
                        \/ /\ proc[i].pc = "idle" /\ Kind[i] = "systemd"
                           /\ Files(Machine[i]) = "valid",
         pc = "half" => proc[i].pc = "got",
         pc = "written" => proc[i].pc = "half",
         pc = "denied" => proc[i].pc = "idle"
  PROVE  /\ \A j \in Installs : Moves(j)
         /\ \A j \in Installs : j # i => proc'[j] = proc[j]
         /\ proc'[i].pc = pc /\ proc'[i].start = proc[i].start
         /\ Walks(i, proc[i], proc'[i])
  <1>1. proc[i] \in Process /\ proc \in [Installs -> Process]
    BY DEF Bound, TypeOK
  <1>2. proc'[i] = [proc[i] EXCEPT !.pc = pc] /\ \A j \in Installs : j # i => proc'[j] = proc[j]
    BY <1>1, Zenon
  <1>3. proc'[i].pc = pc /\ Same(proc[i], proc'[i]) /\ proc'[i].beside = proc[i].beside
    BY <1>1, <1>2, ProcessAt, Zenon DEF Same
  <1>4. Walks(i, proc[i], proc'[i])
    BY <1>3 DEF Walks
  <1>5. Looks(i, proc[i], proc'[i])
    <2>1. pc \notin Rest => proc[i].pc \notin Rest
      BY DEF Rest, PCs
    <2> QED BY <1>3, <2>1 DEF Looks
  <1> QED BY <1>2, <1>3, <1>4, <1>5, StaysLooks, Zenon DEF Moves, Same

\* A step that sends the call of a client.
LEMMA SendStep ==
  ASSUME Bound, NEW i \in Installs, NEW p \in Process, Send(i, p), p # proc[i],
         p.campaign \in Campaigns, PlacesCall(i, proc[i], p), Looks(i, proc[i], p)
  PROVE  /\ \A j \in Installs : Moves(j)
         /\ \A j \in Installs : j # i => proc'[j] = proc[j]
         /\ proc'[i] = p
         /\ NewCalls
  <1>1. proc'[i] = p /\ \A j \in Installs : j # i => proc'[j] = proc[j]
    BY DEF Send, Bound, TypeOK
  <1>2. /\ Call(i, p).inst = i /\ Call(i, p).start = p.start
        /\ Call(i, p).campaign = p.campaign /\ Call(i, p).claim = p.claim
    BY CallFields DEF PlacesCall
  <1>3. NewCalls
    <2> SUFFICES ASSUME NEW call \in calls', call \notin calls
                 PROVE  /\ call.inst \in Installs
                        /\ proc[call.inst] # proc'[call.inst]
                        /\ proc'[call.inst].pc = "calling"
                        /\ call.start = proc'[call.inst].start
                        /\ call.campaign = proc'[call.inst].campaign
                        /\ call.claim = proc'[call.inst].claim
      BY Zenon DEF NewCalls
    <2>1. call = Call(i, p)
      BY DEF Send
    <2> QED BY <1>1, <1>2, <2>1, Zenon DEF PlacesCall
  <1> QED BY <1>1, <1>3, StaysLooks, Zenon DEF Moves

LEMMA SetupMoves ==
  ASSUME Bound, NEW i \in Installs, NEW answered \in BOOLEAN,
         \/ create_enrollment_request(i, answered)
         \/ enrollment_request_status(i, answered)
         \/ \E k \in Claims : handoff_enrollment_request_claim(i, k, answered)
         \/ \E ready \in BOOLEAN : verify_enrollment_completion(i, ready, answered)
  PROVE  (\A j \in Installs : Moves(j)) /\ NewCalls /\ \A j \in Installs : j # i => proc'[j] = proc[j]
  <1>0. calls' = calls /\ NewCalls
    <2>1. calls' = calls
      BY Zenon DEF create_enrollment_request, enrollment_request_status,
                   handoff_enrollment_request_claim, verify_enrollment_completion
    <2> QED BY <2>1, Zenon DEF NewCalls
  <1>1. proc[i] \in Process /\ proc[i].pc \in PCs
    BY ProcessFields DEF Bound, TypeOK
  <1>2. CASE create_enrollment_request(i, answered)
    <2> DEFINE s == evaluate_campaign_selection(Machine[i]).status
    <2>1. s \in Statuses /\ evaluate_campaign_selection(Machine[i]).campaign \in Campaigns \cup {Nil}
      BY SelectionType DEF Statuses, Bound
    <2>2. AfterStatus(s, answered) \in {"over", "polling", "approved"}
      BY <2>1, AfterStatusType
    <2> DEFINE r == [status |-> s, campaign |-> evaluate_campaign_selection(Machine[i]).campaign,
                     late |-> FALSE]
    <2>3. /\ proc' = [proc EXCEPT ![i].pc = AfterStatus(s, answered)]
          /\ request' = [request EXCEPT ![i] = r]
          /\ proc[i].pc = "asking"
      BY <1>2, Zenon DEF create_enrollment_request
    <2>31. r # Nil
      <3> DEFINE c == evaluate_campaign_selection(Machine[i]).campaign
      <3> HIDE DEF s, c
      <3>1. [status |-> s, campaign |-> c, late |-> FALSE] \in RequestRow
        BY <2>1 DEF RequestRow, c
      <3> QED BY <3>1, Absent, Zenon DEF c
    <2> HIDE DEF s, r
    <2>32. request'[i] # Nil
      BY <2>3, <2>31 DEF Bound, TypeOK
    <2>4. PICK pc \in {"over", "polling", "approved"} : proc' = [proc EXCEPT ![i].pc = pc]
      BY <2>2, <2>3, Zenon
    <2>5. Kind[i] = "setup"
      BY <2>3 DEF ClientBound, Bound
    <2>6. pc \in PCs
      BY DEF PCs
    <2> QED BY <1>0, <2>3, <2>32, <2>4, <2>5, <2>6, WalkStep
  <1>3. CASE enrollment_request_status(i, answered)
    <2> DEFINE st == IF request[i].late /\ request[i].status \notin Refused
                     THEN "expired" ELSE request[i].status
    <2>1. st \in Statuses
      BY <1>3 DEF enrollment_request_status, RequestBound, ClientBound, Running, Bound, TypeOK,
                  RequestRow, Statuses
    <2>2. AfterStatus(st, answered) \in {"over", "polling", "approved"}
      BY <2>1, AfterStatusType
    <2>3. /\ proc' = [proc EXCEPT ![i].pc = AfterStatus(st, answered)]
          /\ request' = [request EXCEPT ![i] = [request[i] EXCEPT !.status = st]]
      BY <1>3, Zenon DEF enrollment_request_status
    <2>31. request[i] \in RequestRow
      BY <1>3 DEF enrollment_request_status, RequestBound, ClientBound, Running, Bound, TypeOK
    <2> HIDE DEF st
    <2>32. [request[i] EXCEPT !.status = st] # Nil
      BY <2>1, <2>31, Absent DEF RequestRow
    <2>33. request'[i] # Nil
      BY <2>3, <2>32, Zenon DEF Bound, TypeOK
    <2>4. PICK pc \in {"over", "polling", "approved"} : proc' = [proc EXCEPT ![i].pc = pc]
      BY <2>2, <2>3, Zenon
    <2>5. Kind[i] = "setup" /\ proc[i].pc = "polling"
      BY <1>3 DEF enrollment_request_status, ClientBound, Bound
    <2>6. pc \in PCs
      BY DEF PCs
    <2> QED BY <1>0, <2>33, <2>4, <2>5, <2>6, WalkStep
  <1>4. ASSUME NEW k \in Claims, handoff_enrollment_request_claim(i, k, answered)
        PROVE  (\A j \in Installs : Moves(j)) /\ \A j \in Installs : j # i => proc'[j] = proc[j]
    <2> DEFINE c == request[i].campaign
               q == [proc[i] EXCEPT !.pc = "claimed", !.claim = k, !.campaign = c]
    <2>1. CASE proc' = [proc EXCEPT ![i].pc = "over"]
      <3>1. "over" \in PCs
        BY DEF PCs
      <3> QED BY <2>1, <3>1, WalkStep
    <2>2. CASE proc' # [proc EXCEPT ![i].pc = "over"]
      <3>1. /\ proc' = [proc EXCEPT ![i] = q]
            /\ claim' = [claim EXCEPT ![k] = NewClaim(i, c, TRUE)]
            /\ claim[k] = Nil /\ campaign' = campaign /\ proc[i].pc = "approved"
            /\ Allows(c, "windows") /\ request[i].status \in {"auto_approved", "approved"}
        BY <1>4, <2>2, Zenon DEF handoff_enrollment_request_claim
      <3>2. request[i] # Nil /\ request[i] \in RequestRow /\ Kind[i] = "setup"
        BY <3>1 DEF Bound, TypeOK, RequestBound, ClientBound, Running
      <3>3. c \in Campaigns /\ campaign[c] # Nil
        BY <3>1, <3>2 DEF Bound, RequestBound, RequestRow, Allows, Matches
      <3> HIDE DEF c
      <3>4. /\ q.pc = "claimed" /\ q.start = proc[i].start /\ q.campaign = c /\ q.claim = k
            /\ q.beside = proc[i].beside
        BY <1>1 DEF Process
      <3> HIDE DEF q
      <3>5. claim'[k] # Nil /\ claim'[k].inst = i /\ claim'[k].campaign = c
        <4>1. /\ NewClaim(i, c, TRUE) \in ClaimRow /\ NewClaim(i, c, TRUE).inst = i
              /\ NewClaim(i, c, TRUE).campaign = c
          BY <3>3 DEF NewClaim, ClaimRow
        <4>2. claim'[k] = NewClaim(i, c, TRUE)
          BY <3>1 DEF Bound, TypeOK
        <4> QED BY <4>1, <4>2, Absent, Zenon
      <3>6. k # Nil
        BY EnrollmentAssumption
      <3>7. PresentsNext(i, q.campaign, q.claim)
        BY <3>1, <3>2, <3>3, <3>4, <3>5, <3>6 DEF PresentsNext
      <3>8. proc'[i] = q /\ \A j \in Installs : j # i => proc'[j] = proc[j]
        BY <3>1 DEF Bound, TypeOK
      <3>9. TakesClaim(i, proc[i], proc'[i])
        BY <3>1, <3>4, <3>7, <3>8 DEF TakesClaim
      <3>10. Looks(i, proc[i], proc'[i])
        BY <3>1, <3>4, <3>8 DEF Looks, Rest
      <3> QED BY <3>8, <3>9, <3>10, StaysLooks, Zenon DEF Moves
    <2> QED BY <2>1, <2>2
  <1>5. ASSUME NEW ready \in BOOLEAN, verify_enrollment_completion(i, ready, answered)
        PROVE  (\A j \in Installs : Moves(j)) /\ \A j \in Installs : j # i => proc'[j] = proc[j]
    <2>1. proc[i].pc = "verifying" /\ Kind[i] = "setup"
      BY <1>5 DEF verify_enrollment_completion, ClientBound, Bound
    <2>2. PICK pc \in {"over", "done", "verifying"} : proc' = [proc EXCEPT ![i].pc = pc]
      BY <1>5, <2>1 DEF verify_enrollment_completion
    <2>3. pc \in PCs
      BY DEF PCs
    <2> QED BY <2>1, <2>2, <2>3, WalkStep
  <1> QED BY <1>0, <1>2, <1>3, <1>4, <1>5, Zenon

LEMMA EnrollMoves ==
  ASSUME Bound, NEW call \in calls, NEW answered \in BOOLEAN, enroll_agent(call, answered)
  PROVE  (\A j \in Installs : Moves(j)) /\ NewCalls
  <1> DEFINE i == call.inst
  <1>1. Moves(i)
    <2>1. proc'[i] \in Process /\ proc[i] \in Process
      BY EnrollDoes DEF Bound, TypeOK
    <2>2. CASE proc'[i].pc # proc[i].pc
      <3>1. EnrollOutcome(call) \in {"created", "again"} => device'[i] # Nil
        <4>1. CASE EnrollOutcome(call) = "created"
          BY <4>1, EnrollStep DEF Enrolls
        <4>2. CASE EnrollOutcome(call) = "again"
          <5>1. EnrollEffect(call, "again") /\ device[i] # Nil
            BY <4>2, AgainWhen, Zenon DEF enroll_agent
          <5>2. device' = device
            BY <5>1, OthersDo DEF server
          <5> QED BY <5>1, <5>2
        <4> QED BY <4>1, <4>2
      <3> QED BY <2>2, <3>1, EnrollDoes DEF Moves, Walks, Same, Bound, Looks, Rest
    <2>3. CASE proc'[i].pc = proc[i].pc
      <3>1. proc'[i] = proc[i]
        BY <2>1, <2>3, EnrollDoes DEF Process, Bound
      <3> QED BY <3>1, StaysLooks DEF Moves
    <2> QED BY <2>2, <2>3
  <1>2. ASSUME NEW j \in Installs, j # i PROVE Moves(j)
    BY <1>2, EnrollDoes, StaysLooks, Zenon DEF Moves, Bound
  <1>3. NewCalls
    BY EnrollDoes DEF NewCalls, Bound
  <1> QED BY <1>1, <1>2, <1>3

LEMMA ClientMoves ==
  ASSUME Bound, NEW i \in Installs,
         \/ StartSetup(i)
         \/ ProvisionClaim(i)
         \/ \E c \in Campaigns : ProvisionMaterial(i, c)
         \/ \E k \in Claims : bootstrap_enrollment(i, k)
         \/ Timeout(i)
         \/ WriteCredential(i) \/ WriteIdentity(i) \/ WriteFails(i) \/ ReadBack(i)
         \/ Interrupted(i)
  PROVE  (\A j \in Installs : Moves(j)) /\ NewCalls /\ \A j \in Installs : j # i => proc'[j] = proc[j]
  <1> DEFINE G == (\A j \in Installs : Moves(j)) /\ NewCalls
                  /\ \A j \in Installs : j # i => proc'[j] = proc[j]
  <1>0. proc[i] \in Process /\ Kind[i] \in {"setup", "material", "systemd"}
    BY EnrollmentAssumption DEF Bound, TypeOK
  <1>1. ASSUME NEW p \in Process, p.campaign \in Campaigns, p.start < MaxStarts,
               p.start = proc[i].start, Send(i, Fresh(p)), Presents(i, p.campaign, p.claim),
               proc[i].beside \subseteq p.beside,
               \/ proc[i].pc = "claimed"
               \/ proc[i].pc = "idle" /\ Kind[i] = "systemd"
               \/ proc[i].pc = "idle" /\ Kind[i] = "material" /\ Others(i) \subseteq p.beside
        PROVE  G
    <2> DEFINE f == Fresh(p)
    <2>1. f \in Process /\ f.pc = "calling" /\ f.attempt = 1 /\ f.start = p.start + 1
          /\ f.campaign = p.campaign /\ f.claim = p.claim /\ f.beside = p.beside
      BY <1>1, FreshProcess
    <2>2. p.start + 1 \in 1 .. MaxStarts /\ 1 \in 1 .. RetryAttempts
      BY <1>1, EnrollmentAssumption, ProcessFields
    <2> HIDE DEF f
    <2>3. PlacesCall(i, proc[i], f)
      BY <1>1, <2>1, <2>2 DEF PlacesCall
    <2>4. f # proc[i]
      BY <1>1, <2>1
    <2>5. Send(i, f)
      BY <1>1 DEF f
    <2>6. Looks(i, proc[i], f)
      BY <1>1, <2>1 DEF Looks, Rest
    <2> QED BY <1>1, <2>1, <2>3, <2>4, <2>5, <2>6, SendStep
  <1>2. CASE ProvisionClaim(i)
    <2>1. /\ proc[i].start < MaxStarts /\ proc[i].campaign \in Campaigns /\ proc[i].pc = "claimed"
          /\ Presents(i, proc[i].campaign, proc[i].claim)
      BY <1>2, EnrollmentAssumption DEF ProvisionClaim, ClientBound, Presents, Bound
    <2> QED BY <1>0, <1>1, <1>2, <2>1 DEF ProvisionClaim
  <1>3. ASSUME NEW c \in Campaigns, ProvisionMaterial(i, c) PROVE G
    <2> DEFINE p == [proc[i] EXCEPT !.campaign = c, !.beside = proc[i].beside \cup Others(i)]
    <2>1. proc[i].start < MaxStarts /\ Kind[i] = "material" /\ proc[i].pc = "idle" /\ campaign[c] # Nil
      <3>1. Kind[i] = "material" /\ proc[i].pc = "idle" /\ campaign[c] # Nil
        BY <1>3, Zenon DEF ProvisionMaterial
      <3> QED BY <3>1, EnrollmentAssumption DEF ClientBound, Bound
    <2>2. /\ p \in Process /\ p.start = proc[i].start /\ p.campaign = c /\ p.claim = proc[i].claim
          /\ p.beside = proc[i].beside \cup Others(i)
      <3> DEFINE b == proc[i].beside \cup Others(i)
      <3>1. b \in SUBSET Installs
        BY <1>0 DEF Others, Process
      <3> HIDE DEF b
      <3>2. LET q == [proc[i] EXCEPT !.campaign = c, !.beside = b]
            IN  /\ q \in Process /\ q.start = proc[i].start /\ q.campaign = c
                /\ q.claim = proc[i].claim /\ q.beside = b
        BY <1>0, <3>1 DEF Process
      <3> QED BY <3>2, Zenon DEF b
    <2> HIDE DEF p
    <2>3. Send(i, Fresh(p))
      BY <1>3, Zenon DEF ProvisionMaterial, p
    <2>4. Presents(i, p.campaign, p.claim)
      BY <2>1, <2>2 DEF Presents, ClientBound, Bound
    <2> QED BY <1>1, <2>1, <2>2, <2>3, <2>4
  <1>4. ASSUME NEW k \in Claims, bootstrap_enrollment(i, k) PROVE G
    <2> DEFINE p == [proc[i] EXCEPT !.claim = k, !.campaign = claim[k].campaign]
    <2>1. /\ proc[i].start < MaxStarts /\ claim[k].campaign \in Campaigns
          /\ Kind[i] = "systemd" /\ proc[i].pc = "idle" /\ claim[k] # Nil /\ claim[k].inst = i
      BY <1>4 DEF bootstrap_enrollment, TypeOK, ClaimRow, Bound
    <2>2. /\ p \in Process /\ p.start = proc[i].start /\ p.campaign = claim[k].campaign /\ p.claim = k
          /\ p.beside = proc[i].beside
      BY <1>0, <2>1 DEF Process
    <2> HIDE DEF p
    <2>3. CASE Files(Machine[i]) = "clean"
      <3>1. Send(i, Fresh(p))
        BY <1>4, <2>3, Zenon DEF bootstrap_enrollment, p
      <3>2. Presents(i, p.campaign, p.claim)
        BY <2>1, <2>2, EnrollmentAssumption DEF Presents, ClaimBound, Bound
      <3> QED BY <1>1, <2>1, <2>2, <2>3, <3>1, <3>2
    <2>4. CASE Files(Machine[i]) # "clean"
      <3>1. PICK pc \in {"done", "denied"} : /\ proc' = [proc EXCEPT ![i].pc = pc]
                                             /\ pc = "done" => Files(Machine[i]) = "valid"
        BY <1>4, <2>4 DEF bootstrap_enrollment
      <3>2. calls' = calls /\ pc \in PCs
        BY <1>4, <2>4 DEF bootstrap_enrollment, PCs
      <3> QED BY <2>1, <3>1, <3>2, WalkStep DEF NewCalls
    <2> QED BY <2>3, <2>4
  <1>5. CASE Timeout(i)
    <2>1. /\ proc[i].start \in 1 .. MaxStarts /\ proc[i].campaign \in Campaigns
          /\ proc[i].attempt \in 1 .. RetryAttempts /\ proc[i].pc = "calling"
          /\ Presents(i, proc[i].campaign, proc[i].claim)
      BY <1>5 DEF Timeout, ClientBound, Presents, Bound
    <2>2. CASE MayRetry(i)
      <3> DEFINE n == proc[i].attempt + 1
                 p == [proc[i] EXCEPT !.attempt = n]
      <3>1. n \in 1 .. RetryAttempts /\ n # proc[i].attempt
        BY <2>1, <2>2, EnrollmentAssumption DEF MayRetry
      <3>2. Send(i, p)
        BY <1>5, <2>2, Zenon DEF Timeout
      <3> HIDE DEF n
      <3>3. /\ p \in Process /\ p.start = proc[i].start /\ p.campaign = proc[i].campaign
            /\ p.attempt = n /\ p.claim = proc[i].claim /\ p.pc = proc[i].pc
            /\ p.beside = proc[i].beside
        BY <1>0, <3>1, EnrollmentAssumption DEF Process
      <3> HIDE DEF p
      <3>4. PlacesCall(i, proc[i], p) /\ p # proc[i] /\ Looks(i, proc[i], p)
        BY <2>1, <3>1, <3>3 DEF PlacesCall, Same, Looks
      <3> QED BY <2>1, <3>2, <3>3, <3>4, SendStep
    <2>3. CASE ~MayRetry(i)
      <3>1. PICK pc \in {"idle", "over"} : /\ proc' = [proc EXCEPT ![i].pc = pc]
                                           /\ pc = "idle" => Kind[i] = "systemd"
        BY <1>5, <2>3 DEF Timeout
      <3>2. calls' = calls /\ pc \in PCs
        BY <1>5, <2>3 DEF Timeout, PCs
      <3> QED BY <3>1, <3>2, WalkStep DEF NewCalls
    <2> QED BY <2>2, <2>3
  <1>6. CASE WriteCredential(i) \/ WriteIdentity(i) \/ WriteFails(i) \/ ReadBack(i) \/ Interrupted(i)
    <2>1. PICK pc \in {"half", "written", "idle", "over", "verifying", "done"} :
            /\ proc' = [proc EXCEPT ![i].pc = pc]
            /\ pc = "idle" => Kind[i] = "systemd"
            /\ pc = "verifying" => Kind[i] = "setup" /\ proc[i].pc \in {"written", "verifying"}
            /\ pc = "done" => proc[i].pc = "written"
            /\ pc = "half" => proc[i].pc = "got"
            /\ pc = "written" => proc[i].pc = "half"
      BY <1>6 DEF WriteCredential, WriteIdentity, WriteFails, ReadBack, Interrupted
    <2>2. calls' = calls /\ pc \in PCs
      BY <1>6 DEF WriteCredential, WriteIdentity, WriteFails, ReadBack, Interrupted, PCs
    <2> QED BY <2>1, <2>2, WalkStep DEF NewCalls
  <1>7. CASE StartSetup(i)
    <2> DEFINE pc == IF Files(Machine[i]) = "clean" THEN "asking" ELSE "over"
               js == {j \in Others(i) : Running(j)}
               q == [proc[i] EXCEPT !.pc = pc, !.beside = proc[i].beside \cup js]
    <2>1. /\ proc' = [proc EXCEPT ![i] = q] /\ calls' = calls
          /\ Kind[i] = "setup" /\ proc[i].pc = "idle"
      BY <1>7, Zenon DEF StartSetup
    <2>2. js \in SUBSET Installs /\ pc \in {"asking", "over"}
      BY DEF Others
    <2>3. pc = "asking" => Clean(file[Machine[i]])
      BY DEF Files, Clean
    <2> HIDE DEF pc
    <2>4. q.pc = pc /\ q.start = proc[i].start /\ q.campaign = proc[i].campaign
          /\ q.claim = proc[i].claim /\ q.beside = proc[i].beside \cup js
      <3> DEFINE b == proc[i].beside \cup js
      <3>1. pc \in PCs /\ b \in SUBSET Installs
        BY <1>0, <2>2 DEF PCs, Process
      <3> HIDE DEF js, b
      <3>2. LET r == [proc[i] EXCEPT !.pc = pc, !.beside = b]
            IN  /\ r.pc = pc /\ r.start = proc[i].start /\ r.campaign = proc[i].campaign
                /\ r.claim = proc[i].claim /\ r.beside = b
        BY <1>0, <3>1 DEF Process, PCs
      <3> QED BY <3>2, Zenon DEF b
    <2> HIDE DEF q
    <2>5. proc'[i] = q /\ \A j \in Installs : j # i => proc'[j] = proc[j]
      BY <2>1 DEF Bound, TypeOK
    <2>6. Walks(i, proc[i], q)
      BY <2>1, <2>2, <2>4 DEF Walks, Same
    <2>7. Looks(i, proc[i], q)
      BY <2>2, <2>3, <2>4 DEF Looks, Rest
    <2>8. NewCalls
      BY <2>1 DEF NewCalls
    <2> QED BY <2>5, <2>6, <2>7, <2>8, StaysLooks, Zenon DEF Moves
  <1> QED BY <1>2, <1>3, <1>4, <1>5, <1>6, <1>7

LEMMA ProcStep ==
  ASSUME Bound, Next
  PROVE  (\A j \in Installs : Moves(j)) /\ NewCalls
  <1>1. ASSUME \/ \E c \in Campaigns, max \in 1 .. MaxUses, platform \in {"windows", "linux"},
                    mode \in {"auto", "manual"} : create_campaign(c, platform, mode, max)
               \/ \E c \in Campaigns, max \in 1 .. MaxUses : update_campaign(c, max)
               \/ \E c \in Campaigns : revoke_campaign(c) \/ CampaignExpires(c)
               \/ \E i \in Installs, k \in Claims, c \in Campaigns :
                    issue_provisioning_install_claim(i, k, c)
               \/ \E k \in Claims : ClaimExpires(k)
               \/ \E i \in Installs :
                    \/ approve_request(i) \/ deny_request(i) \/ RequestExpires(i)
                    \/ acknowledge_enrollment_delivery(i) \/ cleanup_expired_retry_envelopes(i)
                    \/ rotate_device_credential(i) \/ activate_device_credential(i)
                    \/ EnvelopeExpires(i)
        PROVE  (\A j \in Installs : Moves(j)) /\ NewCalls
    <2>1. proc' = proc /\ calls' = calls
      BY <1>1, Zenon
         DEF create_campaign, update_campaign, revoke_campaign, CampaignExpires,
             issue_provisioning_install_claim, ClaimExpires, approve_request, deny_request,
             RequestExpires, acknowledge_enrollment_delivery, cleanup_expired_retry_envelopes,
             rotate_device_credential, activate_device_credential, EnvelopeExpires
    <2> QED BY <2>1, StaysLooks, Zenon DEF Moves, NewCalls
  <1> QED BY <1>1, NextSteps, SetupMoves, EnrollMoves, ClientMoves, Zenon

\* How the row of a request may change in one step.
Decides(i, r, q) ==
  LET s == r.status
      t == q.status
  IN  /\ q \in RequestRow /\ q.campaign = r.campaign
      /\ \/ t = s
         \/ t = "expired" /\ s \in MayBeDenied \ {"claim_issued"}
         \/ t = "denied" /\ s \in MayBeDenied
         \/ t = "approved" /\ s \in {"waiting_approval", "review_required"} /\ r.campaign # Nil
         \/ /\ t = "claim_issued" /\ s \in {"auto_approved", "approved"}
            /\ proc'[i].pc \in {"claimed", "over"}
         \/ t = "device_registered" /\ s = "claim_issued"
         \/ t \in {"waiting_wss", "completed"} /\ s \in {"device_registered", "waiting_wss"}

\* A Setup run creates its row when it asks.
Asks(i, q) ==
  /\ request[i] = Nil /\ Kind[i] = "setup" /\ proc[i].pc = "asking"
  /\ q \in RequestRow
  /\ q.status \in {"denied", "review_required", "waiting_approval", "auto_approved"}
  /\ q.status \in {"waiting_approval", "auto_approved"} => q.campaign # Nil
  /\ proc'[i].pc \in {"over", "polling", "approved"}

RequestMoves(i) == \/ request'[i] = request[i]
                   \/ request[i] # Nil /\ Decides(i, request[i], request'[i])
                   \/ Asks(i, request'[i])

\* A step that sets the status of one request.
LEMMA StatusStep ==
  ASSUME Bound, NEW i \in Installs, request[i] # Nil, NEW s \in Statuses,
         request' = [request EXCEPT ![i].status = s],
         \/ s = request[i].status
         \/ s = "expired" /\ request[i].status \in MayBeDenied \ {"claim_issued"}
         \/ s = "denied" /\ request[i].status \in MayBeDenied
         \/ /\ s = "approved" /\ request[i].status \in {"waiting_approval", "review_required"}
            /\ request[i].campaign # Nil
         \/ /\ s = "claim_issued" /\ request[i].status \in {"auto_approved", "approved"}
            /\ proc'[i].pc \in {"claimed", "over"}
         \/ s = "device_registered" /\ request[i].status = "claim_issued"
         \/ s \in {"waiting_wss", "completed"} /\ request[i].status \in {"device_registered", "waiting_wss"}
  PROVE  \A j \in Installs : RequestMoves(j)
  <1>1. request[i] \in RequestRow /\ request \in [Installs -> RequestRow \cup {Nil}]
    BY DEF Bound, TypeOK
  <1>2. request'[i] = [request[i] EXCEPT !.status = s] /\ \A j \in Installs : j # i => request'[j] = request[j]
    BY <1>1, Zenon
  <1>3. /\ request'[i] \in RequestRow /\ request'[i].status = s
        /\ request'[i].campaign = request[i].campaign
    BY <1>1, <1>2, RequestAt, Zenon
  <1>4. Decides(i, request[i], request'[i])
    BY <1>3 DEF Decides
  <1> QED BY <1>2, <1>4, Zenon DEF RequestMoves

LEMMA SetupRequests ==
  ASSUME Bound, NEW i \in Installs, NEW answered \in BOOLEAN,
         \/ create_enrollment_request(i, answered)
         \/ enrollment_request_status(i, answered)
         \/ \E k \in Claims : handoff_enrollment_request_claim(i, k, answered)
         \/ \E ready \in BOOLEAN : verify_enrollment_completion(i, ready, answered)
  PROVE  \A j \in Installs : RequestMoves(j)
  <1>0. proc[i] \in Process
    BY DEF Bound, TypeOK
  <1>1. CASE request' = request
    BY <1>1, Zenon DEF RequestMoves
  <1>2. CASE create_enrollment_request(i, answered) /\ request' # request
    <2> DEFINE s == evaluate_campaign_selection(Machine[i])
               q == [status |-> s.status, campaign |-> s.campaign, late |-> FALSE]
    <2>1. /\ request' = [request EXCEPT ![i] = q]
          /\ proc' = [proc EXCEPT ![i].pc = AfterStatus(s.status, answered)]
          /\ proc[i].pc = "asking"
      BY <1>2, Zenon DEF create_enrollment_request
    <2>2. /\ s.status \in {"denied", "review_required", "waiting_approval", "auto_approved"}
          /\ s.campaign \in Campaigns \cup {Nil}
          /\ s.status \in {"waiting_approval", "auto_approved"} => s.campaign \in Campaigns
      BY SelectionType DEF Bound
    <2>3. AfterStatus(s.status, answered) \in {"over", "polling", "approved"}
      BY <2>2, AfterStatusType DEF Statuses
    <2>4. proc'[i].pc \in {"over", "polling", "approved"}
      <3>1. AfterStatus(s.status, answered) \in PCs
        BY <2>3 DEF PCs
      <3>2. proc'[i] = [proc[i] EXCEPT !.pc = AfterStatus(s.status, answered)]
        BY <2>1, Zenon DEF Bound, TypeOK
      <3> QED BY <1>0, <2>3, <3>1, <3>2, ProcessAt, ZenonT(30)
    <2> HIDE DEF s
    <2>5. q \in RequestRow /\ q.status = s.status /\ q.campaign = s.campaign
      BY <2>2 DEF RequestRow, Statuses
    <2>6. request[i] = Nil /\ Kind[i] = "setup"
      BY <2>1 DEF Bound, RequestBound, ClientBound
    <2>7. request'[i] = q /\ \A j \in Installs : j # i => request'[j] = request[j]
      BY <2>1 DEF Bound, TypeOK
    <2> HIDE DEF q
    <2>8. Asks(i, request'[i])
      BY <2>1, <2>2, <2>4, <2>5, <2>6, <2>7, EnrollmentAssumption DEF Asks
    <2> QED BY <2>7, <2>8, Zenon DEF RequestMoves
  <1>3. CASE enrollment_request_status(i, answered)
    <2> DEFINE st == IF request[i].late /\ request[i].status \notin Refused
                     THEN "expired" ELSE request[i].status
    <2>1. request[i] # Nil /\ request[i] \in RequestRow /\ proc[i].pc = "polling"
      BY <1>3 DEF enrollment_request_status, RequestBound, ClientBound, Running, Bound, TypeOK
    <2>2. request[i].status \in Statuses
          /\ request[i].status \in (MayBeDenied \ {"claim_issued"}) \cup Refused
      BY <2>1 DEF RequestBound, Bound, RequestRow
    <2>3. request' = [request EXCEPT ![i].status = st]
      BY <1>3, Zenon DEF enrollment_request_status
    <2>4. st \in Statuses /\ (\/ st = request[i].status
                              \/ st = "expired" /\ request[i].status \in MayBeDenied \ {"claim_issued"})
      BY <2>2 DEF Statuses
    <2> HIDE DEF st
    <2> QED BY <2>1, <2>3, <2>4, StatusStep
  <1>4. ASSUME NEW k \in Claims, handoff_enrollment_request_claim(i, k, answered), request' # request
        PROVE  \A j \in Installs : RequestMoves(j)
    <2>1. request[i] # Nil /\ request[i] \in RequestRow /\ proc[i].pc = "approved"
      BY <1>4 DEF handoff_enrollment_request_claim, RequestBound, ClientBound, Running, Bound, TypeOK
    <2>2. request[i].status \in Statuses
          /\ request[i].status \in (MayBeDenied \ {"claim_issued"}) \cup Refused
      BY <2>1 DEF RequestBound, Bound, RequestRow
    <2>3. CASE request[i].late
      <3> DEFINE st == IF request[i].status \in Refused THEN request[i].status ELSE "expired"
      <3>1. request' = [request EXCEPT ![i].status = st]
        BY <1>4, <2>3, Zenon DEF handoff_enrollment_request_claim
      <3>2. st \in Statuses /\ (\/ st = request[i].status
                                \/ st = "expired" /\ request[i].status \in MayBeDenied \ {"claim_issued"})
        BY <2>2 DEF Statuses
      <3> HIDE DEF st
      <3> QED BY <2>1, <3>1, <3>2, StatusStep
    <2>4. CASE request' = [request EXCEPT ![i].status = "denied"]
               /\ request[i].status \in {"auto_approved", "approved"}
      <3>1. "denied" \in Statuses /\ request[i].status \in MayBeDenied
        BY <2>4 DEF Statuses, MayBeDenied
      <3> QED BY <2>1, <2>4, <3>1, StatusStep
    <2>5. CASE ~request[i].late /\ request' # [request EXCEPT ![i].status = "denied"]
      <3> DEFINE q == [proc[i] EXCEPT !.pc = "claimed", !.claim = k, !.campaign = request[i].campaign]
      <3>1. /\ request' = [request EXCEPT ![i].status = "claim_issued"]
            /\ request[i].status \in {"auto_approved", "approved"}
            /\ proc' = [proc EXCEPT ![i] = q] \/ proc' = [proc EXCEPT ![i] = [proc[i] EXCEPT !.pc = "over"]]
        BY <1>4, <2>5, Zenon DEF handoff_enrollment_request_claim
      <3>2. q.pc = "claimed" /\ [proc[i] EXCEPT !.pc = "over"].pc = "over"
        BY <1>0 DEF Process
      <3>3. proc'[i].pc \in {"claimed", "over"}
        <4>1. proc'[i] = q \/ proc'[i] = [proc[i] EXCEPT !.pc = "over"]
          BY <3>1, Zenon DEF Bound, TypeOK
        <4> QED BY <3>2, <4>1, Zenon
      <3>4. "claim_issued" \in Statuses
        BY DEF Statuses
      <3> QED BY <2>1, <3>1, <3>3, <3>4, StatusStep
    <2>6. CASE ~request[i].late /\ request' = [request EXCEPT ![i].status = "denied"]
      <3>1. request[i].status \in {"auto_approved", "approved"}
        BY <1>4, <2>6, Zenon DEF handoff_enrollment_request_claim
      <3> QED BY <2>4, <2>6, <3>1
    <2> QED BY <2>3, <2>5, <2>6
  <1>5. ASSUME NEW ready \in BOOLEAN, verify_enrollment_completion(i, ready, answered)
        PROVE  \A j \in Installs : RequestMoves(j)
    <2> DEFINE st == IF request[i].status \in {"device_registered", "waiting_wss"}
                     THEN IF ready THEN "completed" ELSE "waiting_wss" ELSE request[i].status
    <2>1. request[i] # Nil /\ request[i] \in RequestRow
      BY <1>5 DEF verify_enrollment_completion, RequestBound, ClientBound, Running, Bound, TypeOK
    <2>2. request[i].status \in Statuses
      BY <2>1 DEF RequestRow
    <2>3. request' = [request EXCEPT ![i].status = st]
      BY <1>5, Zenon DEF verify_enrollment_completion
    <2>4. st \in Statuses /\ (\/ st = request[i].status
                              \/ /\ st \in {"waiting_wss", "completed"}
                                 /\ request[i].status \in {"device_registered", "waiting_wss"})
      BY <2>2 DEF Statuses
    <2> HIDE DEF st
    <2> QED BY <2>1, <2>3, <2>4, StatusStep
  <1> QED BY <1>1, <1>2, <1>3, <1>4, <1>5, Zenon

\* A step that issues a claim leaves the others alone.
LEMMA OtherClaims ==
  ASSUME TypeOK,
         \/ \E i \in Installs, k \in Claims, c \in Campaigns :
              issue_provisioning_install_claim(i, k, c)
         \/ \E i \in Installs, k \in Claims, answered \in BOOLEAN :
              handoff_enrollment_request_claim(i, k, answered)
  PROVE  Rests
  <1>1. campaign' = campaign /\ device' = device
    BY Zenon DEF issue_provisioning_install_claim, handoff_enrollment_request_claim
  <1>2. claim' = claim \/ \E k \in Claims : \E r : claim[k] = Nil /\ claim' = [claim EXCEPT ![k] = r]
    BY Zenon DEF issue_provisioning_install_claim, handoff_enrollment_request_claim
  <1>3. \A k \in Claims : claim[k] # Nil => claim'[k] = claim[k]
    BY <1>2, Zenon DEF TypeOK
  <1> QED BY <1>1, <1>3, Zenon DEF Rests, Settles

LEMMA DeviceStep ==
  ASSUME Bound, Next
  PROVE  Rests \/ \E call \in calls : Enrolls(call)
  <1>1. ASSUME \/ \E k \in Claims : ClaimExpires(k)
               \/ \E i \in Installs : RequestExpires(i)
        PROVE  Rests
    <2>1. campaign' = campaign /\ device' = device
      BY <1>1, Zenon DEF ClaimExpires, RequestExpires
    <2>2. \A k \in Claims : claim[k] # Nil => claim'[k].device = claim[k].device
      BY <1>1, DeadlineClaims DEF Bound
    <2> QED BY <2>1, <2>2, Zenon DEF Rests, Settles
  <1>2. ASSUME \/ \E i \in Installs, answered \in BOOLEAN :
                    \/ create_enrollment_request(i, answered)
                    \/ enrollment_request_status(i, answered)
                    \/ \E ready \in BOOLEAN : verify_enrollment_completion(i, ready, answered)
               \/ \E i \in Installs :
                    \/ approve_request(i) \/ deny_request(i)
                    \/ StartSetup(i)
                    \/ ProvisionClaim(i)
                    \/ \E c \in Campaigns : ProvisionMaterial(i, c)
                    \/ \E k \in Claims : bootstrap_enrollment(i, k)
                    \/ Timeout(i)
                    \/ WriteCredential(i) \/ WriteIdentity(i) \/ WriteFails(i) \/ ReadBack(i)
                    \/ Interrupted(i)
        PROVE  Rests
    <2>1. campaign' = campaign /\ claim' = claim /\ device' = device
      BY <1>2, Zenon
         DEF create_enrollment_request, enrollment_request_status, verify_enrollment_completion,
             approve_request, deny_request, StartSetup, ProvisionClaim, ProvisionMaterial, bootstrap_enrollment,
             Timeout, WriteCredential, WriteIdentity, WriteFails, ReadBack, Interrupted, server
    <2> QED BY <2>1, Zenon DEF Rests, Settles
  <1>3. ASSUME NEW call \in calls, NEW answered \in BOOLEAN, enroll_agent(call, answered)
        PROVE  Rests \/ \E cl \in calls : Enrolls(cl)
    BY <1>3, EnrollStep, Zenon
  <1>4. TypeOK
    BY DEF Bound
  <1> QED BY <1>1, <1>2, <1>3, <1>4, NextSteps, CampaignRests, DeviceRests, OtherClaims, Zenon

LEMMA RequestStep ==
  ASSUME Bound, Next
  PROVE  \A j \in Installs : RequestMoves(j)
  <1>1. ASSUME request' = request PROVE \A j \in Installs : RequestMoves(j)
    BY <1>1, Zenon DEF RequestMoves
  <1>2. ASSUME NEW i \in Installs, approve_request(i) \/ deny_request(i)
        PROVE  \A j \in Installs : RequestMoves(j)
    <2>1. request[i] # Nil
      BY <1>2 DEF approve_request, deny_request
    <2>2. PICK s \in {"approved", "denied"} :
            /\ request' = [request EXCEPT ![i].status = s]
            /\ s = "approved" => /\ request[i].status \in {"waiting_approval", "review_required"}
                                 /\ request[i].campaign # Nil
            /\ s = "denied" => request[i].status \in MayBeDenied
      BY <1>2 DEF approve_request, deny_request, MayBeDenied
    <2>3. s \in Statuses
      BY DEF Statuses
    <2> QED BY <2>1, <2>2, <2>3, StatusStep
  <1>3. ASSUME NEW i \in Installs, RequestExpires(i) PROVE \A j \in Installs : RequestMoves(j)
    <2> DEFINE q == [request[i] EXCEPT !.late = TRUE]
    <2>1. request[i] # Nil /\ request[i] \in RequestRow
      BY <1>3 DEF RequestExpires, Bound, TypeOK
    <2>2. request'[i] = q /\ \A j \in Installs : j # i => request'[j] = request[j]
      BY <1>3, Zenon DEF RequestExpires, Bound, TypeOK
    <2>3. q \in RequestRow /\ q.status = request[i].status /\ q.campaign = request[i].campaign
      BY <2>1, RequestLate, Zenon
    <2> HIDE DEF q
    <2>4. Decides(i, request[i], request'[i])
      BY <2>2, <2>3, Zenon DEF Decides
    <2> QED BY <2>1, <2>2, <2>4, Zenon DEF RequestMoves
  <1>4. ASSUME NEW call \in calls, NEW answered \in BOOLEAN, enroll_agent(call, answered)
        PROVE  \A j \in Installs : RequestMoves(j)
    <2> DEFINE i == call.inst
               k == call.claim
    <2>1. CASE request' # request
      <3>1. EnrollOutcome(call) = "created"
        BY <1>4, <2>1, EnrollStep, Zenon
      <3>2. EnrollEffect(call, "created") /\ i \in Installs
        BY <1>4, <3>1, EnrollDoes, Zenon DEF enroll_agent, Bound
      <3>3. k # Nil /\ claim[k].request /\ request' = [request EXCEPT ![i].status = "device_registered"]
        BY <2>1, <3>2, CreatedDoes, Zenon
      <3>4. request[i] # Nil
        BY <3>2, <3>3 DEF Bound, CallBound, Presents, ClaimBound, TypeOK, EnrollCall
      <3>5. request[i].status = "claim_issued"
        BY <3>1, <3>3, CreatedWhen DEF RequestReady
      <3>6. "device_registered" \in Statuses
        BY DEF Statuses
      <3> QED BY <3>2, <3>3, <3>4, <3>5, <3>6, StatusStep
    <2> QED BY <1>1, <2>1
  <1>5. ASSUME \/ \E c \in Campaigns, max \in 1 .. MaxUses, platform \in {"windows", "linux"},
                    mode \in {"auto", "manual"} : create_campaign(c, platform, mode, max)
               \/ \E c \in Campaigns, max \in 1 .. MaxUses : update_campaign(c, max)
               \/ \E c \in Campaigns : revoke_campaign(c) \/ CampaignExpires(c)
               \/ \E i \in Installs, k \in Claims, c \in Campaigns :
                    issue_provisioning_install_claim(i, k, c)
               \/ \E k \in Claims : ClaimExpires(k)
               \/ \E i \in Installs :
                    \/ acknowledge_enrollment_delivery(i) \/ cleanup_expired_retry_envelopes(i)
                    \/ rotate_device_credential(i) \/ activate_device_credential(i)
                    \/ EnvelopeExpires(i)
                    \/ StartSetup(i)
                    \/ ProvisionClaim(i)
                    \/ \E c \in Campaigns : ProvisionMaterial(i, c)
                    \/ \E k \in Claims : bootstrap_enrollment(i, k)
                    \/ Timeout(i)
                    \/ WriteCredential(i) \/ WriteIdentity(i) \/ WriteFails(i) \/ ReadBack(i)
                    \/ Interrupted(i)
        PROVE  request' = request
    BY <1>5, Zenon
       DEF create_campaign, update_campaign, revoke_campaign, CampaignExpires,
           issue_provisioning_install_claim, ClaimExpires, acknowledge_enrollment_delivery,
           cleanup_expired_retry_envelopes, rotate_device_credential, activate_device_credential,
           EnvelopeExpires, StartSetup, ProvisionClaim, ProvisionMaterial, bootstrap_enrollment,
           Timeout, WriteCredential, WriteIdentity, WriteFails, ReadBack, Interrupted, server
  <1> QED BY <1>1, <1>2, <1>3, <1>4, <1>5, NextSteps, SetupRequests, Zenon

-----------------------------------------------------------------------------
(* The bindings are inductive *)

LEMMA RowsKept ==
  ASSUME Bound, Next
  PROVE  Kept
  <1>1. \A c \in Campaigns : campaign[c] # Nil => campaign'[c] # Nil
    <2>1. CASE Rests
      BY <2>1, Zenon DEF Rests, Settles
    <2>2. CASE \E call \in calls : Enrolls(call)
      BY <2>2, Zenon DEF Enrolls
    <2> QED BY <2>1, <2>2, DeviceStep
  <1>2. \A i \in Installs : request[i] # Nil => request'[i] # Nil
    <2> SUFFICES ASSUME NEW i \in Installs, request[i] # Nil PROVE request'[i] # Nil
      OBVIOUS
    <2>1. RequestMoves(i)
      BY RequestStep
    <2> QED BY <2>1, Absent, Zenon DEF RequestMoves, Decides, Asks
  <1> QED BY <1>1, <1>2, ClaimStep, Zenon DEF Kept

LEMMA StillPresents ==
  ASSUME Kept, NEW i, NEW c, NEW k \in Claims \cup {Nil}, Presents(i, c, k)
  PROVE  PresentsNext(i, c, k)
  BY DEF Kept, Presents, PresentsNext

LEMMA NextClaimBound ==
  ASSUME Bound, Next
  PROVE  ClaimBound'
  <1> SUFFICES ASSUME NEW k \in Claims, claim'[k] # Nil
               PROVE  /\ campaign'[claim'[k].campaign] # Nil
                      /\ claim'[k].request <=> Kind[claim'[k].inst] = "setup"
                      /\ claim'[k].request => request'[claim'[k].inst] # Nil
    BY DEF ClaimBound
  <1>1. Kept /\ Issued
    BY RowsKept, ClaimStep
  <1>2. CASE claim[k] = Nil
    BY <1>1, <1>2 DEF Kept, Issued, ClaimRow
  <1>3. CASE claim[k] # Nil
    <2>1. claim[k].campaign \in Campaigns /\ claim[k].inst \in Installs
      BY <1>3 DEF Bound, TypeOK, ClaimRow
    <2> QED BY <1>1, <1>3, <2>1 DEF Kept, Bound, ClaimBound
  <1> QED BY <1>2, <1>3

\* The conjuncts of ClientBound for a client record q after the step.
Client(i, q) ==
  /\ q.pc \in {"claimed", "calling"} => PresentsNext(i, q.campaign, q.claim)
  /\ q.pc = "calling" => q.start \in 1 .. MaxStarts /\ q.attempt \in 1 .. RetryAttempts
  /\ q.pc \in {"asking", "polling", "approved", "claimed", "verifying"} => Kind[i] = "setup"
  /\ q.pc \in {"asking", "polling", "approved", "claimed"} => q.start = 0
  /\ Kind[i] # "systemd" /\ q.pc = "idle" => q.start = 0
  /\ Kind[i] = "material" => q.claim = Nil

LEMMA NextClientBound ==
  ASSUME Bound, Next
  PROVE  ClientBound'
  <1> SUFFICES ASSUME NEW i \in Installs PROVE Client(i, proc'[i])
    BY DEF ClientBound, Presents, PresentsNext, Client
  <1>0. ASSUME NEW p, NEW q, p.claim \in Claims \cup {Nil}, q.claim \in Claims \cup {Nil}, Kept,
               q = p \/ Walks(i, p, q) \/ TakesClaim(i, p, q) \/ PlacesCall(i, p, q),
               p.pc \in {"claimed", "calling"} => Presents(i, p.campaign, p.claim),
               p.pc = "calling" => p.start \in 1 .. MaxStarts /\ p.attempt \in 1 .. RetryAttempts,
               p.pc \in {"asking", "polling", "approved", "claimed", "verifying"} => Kind[i] = "setup",
               p.pc \in {"asking", "polling", "approved", "claimed"} => p.start = 0,
               Kind[i] # "systemd" /\ p.pc = "idle" => p.start = 0,
               Kind[i] = "material" => p.claim = Nil
        PROVE  Client(i, q)
    <2>1. CASE q = p
      BY <1>0, <2>1, StillPresents DEF Client
    <2>2. CASE Walks(i, p, q)
      BY <1>0, <2>2 DEF Walks, Same, Client
    <2>3. CASE TakesClaim(i, p, q)
      BY <1>0, <2>3 DEF TakesClaim, PresentsNext, Client
    <2>4. CASE PlacesCall(i, p, q)
      <3>1. PresentsNext(i, q.campaign, q.claim)
        BY <1>0, <2>4, StillPresents DEF PlacesCall
      <3> QED BY <2>4, <3>1 DEF PlacesCall, PresentsNext, Client
    <2> QED BY <1>0, <2>1, <2>2, <2>3, <2>4
  <1>1. proc[i].claim \in Claims \cup {Nil} /\ proc'[i].claim \in Claims \cup {Nil}
    <2>1. proc[i] \in Process /\ proc'[i] \in Process
      BY NextType DEF Bound, TypeOK
    <2> QED BY <2>1, ProcessFields
  <1>2. Kept /\ Moves(i)
    BY RowsKept, ProcStep
  <1> QED BY <1>0, <1>1, <1>2 DEF Moves, Bound, ClientBound

LEMMA NextCallBound ==
  ASSUME Bound, Next
  PROVE  CallBound'
  <1> SUFFICES ASSUME NEW call \in calls' PROVE PresentsNext(call.inst, call.campaign, call.claim)
    BY DEF CallBound, Presents, PresentsNext
  <1>1. Kept /\ ClientBound' /\ NewCalls
    BY RowsKept, NextClientBound, ProcStep
  <1>2. CASE call \in calls
    <2>1. Presents(call.inst, call.campaign, call.claim) /\ call.claim \in Claims \cup {Nil}
      BY <1>2 DEF Bound, CallBound, TypeOK, EnrollCall
    <2> QED BY <1>1, <2>1, StillPresents
  <1>3. CASE call \notin calls
    <2>1. /\ call.inst \in Installs /\ proc'[call.inst].pc = "calling"
          /\ call.campaign = proc'[call.inst].campaign /\ call.claim = proc'[call.inst].claim
      BY <1>1, <1>3, Zenon DEF NewCalls
    <2>2. PresentsNext(call.inst, proc'[call.inst].campaign, proc'[call.inst].claim)
      BY <1>1, <2>1 DEF ClientBound, Presents, PresentsNext
    <2> QED BY <2>1, <2>2
  <1> QED BY <1>2, <1>3

LEMMA NextRequestBound ==
  ASSUME Bound, Next
  PROVE  RequestBound'
  <1> SUFFICES ASSUME NEW i \in Installs
               PROVE  /\ request'[i] # Nil => Kind[i] = "setup" /\ proc'[i].pc \notin {"idle", "asking"}
                      /\ Kind[i] = "setup" /\ proc'[i].pc \notin {"idle", "asking", "over", "denied", "done"}
                         => request'[i] # Nil
                      /\ /\ request'[i] # Nil
                         /\ request'[i].status \in {"auto_approved", "waiting_approval", "approved"}
                         => request'[i].campaign # Nil
                      /\ proc'[i].pc \in {"polling", "approved"} =>
                           request'[i].status \in (MayBeDenied \ {"claim_issued"}) \cup Refused
    BY DEF RequestBound, Running
  <1>1. Moves(i) /\ RequestMoves(i)
    BY ProcStep, RequestStep
  <1>2. /\ request[i] # Nil => Kind[i] = "setup" /\ proc[i].pc \notin {"idle", "asking"}
        /\ Kind[i] = "setup" /\ proc[i].pc \notin {"idle", "asking", "over", "denied", "done"} => request[i] # Nil
        /\ request[i] # Nil /\ request[i].status \in {"auto_approved", "waiting_approval", "approved"}
           => request[i].campaign # Nil
        /\ proc[i].pc \in {"polling", "approved"} =>
             request[i].status \in (MayBeDenied \ {"claim_issued"}) \cup Refused
    BY DEF Bound, RequestBound, Running
  <1>3. Nil \notin RequestRow
    BY Absent
  <1>4. CASE Asks(i, request'[i])
    <2>1. request'[i] # Nil
      BY <1>3, <1>4 DEF Asks
    <2> QED BY <1>4, <2>1 DEF Asks, MayBeDenied, Refused
  <1>5. CASE request[i] # Nil /\ Decides(i, request[i], request'[i])
    <2>1. request'[i] # Nil /\ Kind[i] = "setup" /\ proc'[i].pc \notin {"idle", "asking"}
      BY <1>1, <1>2, <1>3, <1>5 DEF Decides, Moves, Walks, TakesClaim, PlacesCall
    <2>2. request'[i].status \in {"auto_approved", "waiting_approval", "approved"} => request'[i].campaign # Nil
      BY <1>2, <1>5 DEF Decides
    <2>3. proc'[i].pc \in {"polling", "approved"} => proc[i].pc \in {"polling", "approved"}
      BY <1>1, <1>2, <1>5 DEF Moves, Walks, TakesClaim, PlacesCall
    <2>4. proc'[i].pc \in {"polling", "approved"} =>
             request'[i].status \in (MayBeDenied \ {"claim_issued"}) \cup Refused
      BY <1>2, <1>5, <2>3 DEF Decides, MayBeDenied, Refused
    <2> QED BY <2>1, <2>2, <2>4
  <1>6. CASE request'[i] = request[i]
    <2>1. request[i] # Nil => proc'[i].pc \notin {"idle", "asking"}
      BY <1>1, <1>2 DEF Moves, Walks, TakesClaim, PlacesCall
    <2>2. CASE request[i] # Nil
      <3>1. proc'[i].pc \in {"polling", "approved"} => proc[i].pc \in {"polling", "approved"}
        BY <1>1, <1>2, <2>2 DEF Moves, Walks, TakesClaim, PlacesCall
      <3> QED BY <1>2, <1>6, <2>1, <2>2, <3>1
    <2>3. CASE request[i] = Nil
      <3>0. proc'[i] \in Process
        BY NextType DEF Bound, TypeOK
      <3>01. proc'[i].pc \in PCs
        BY <3>0, ProcessFields
      <3>1. Kind[i] = "setup" => proc'[i].pc \in {"idle", "asking", "over", "denied", "done"}
        BY <1>1, <1>2, <1>6, <2>3, <3>01 DEF Moves, Walks, TakesClaim, PlacesCall, PCs
      <3>2. proc'[i].pc \in {"polling", "approved"} => Kind[i] = "setup"
        BY NextClientBound DEF ClientBound
      <3> QED BY <1>6, <2>3, <3>1, <3>2
    <2> QED BY <2>2, <2>3
  <1> QED BY <1>1, <1>4, <1>5, <1>6 DEF RequestMoves

LEMMA NextDeviceBound ==
  ASSUME Bound, Next
  PROVE  DeviceBound'
  <1> SUFFICES ASSUME NEW i \in Installs, device'[i] # Nil
               PROVE  /\ campaign'[device'[i].campaign] # Nil
                      /\ Kind[i] = "setup" =>
                           /\ request'[i] # Nil
                           /\ request'[i].status \in {"device_registered", "waiting_wss", "completed"}
    BY DEF DeviceBound
  <1>1. Kept /\ RequestMoves(i)
    BY RowsKept, RequestStep
  <1>2. CASE device[i] # Nil
    <2>1. device'[i].campaign = device[i].campaign
      <3>1. CASE Rests
        BY <1>2, <3>1 DEF Rests, Keeps
      <3>2. CASE \E call \in calls : Enrolls(call)
        BY <1>2, <3>2, Zenon DEF Enrolls
      <3> QED BY <3>1, <3>2, DeviceStep
    <2>2. device[i].campaign \in Campaigns
      BY <1>2 DEF Bound, TypeOK, DeviceRow
    <2>3. campaign'[device'[i].campaign] # Nil
      BY <1>1, <1>2, <2>1, <2>2 DEF Kept, Bound, DeviceBound
    <2>4. Kind[i] = "setup" =>
            /\ request[i] # Nil
            /\ request[i].status \in {"device_registered", "waiting_wss", "completed"}
      BY <1>2 DEF Bound, DeviceBound
    <2>5. Kind[i] = "setup" =>
            /\ request'[i] # Nil
            /\ request'[i].status \in {"device_registered", "waiting_wss", "completed"}
      BY <1>1, <2>4 DEF RequestMoves, Decides, Asks, Kept, MayBeDenied
    <2> QED BY <2>3, <2>5
  <1>3. CASE device[i] = Nil
    <2>1. PICK call \in calls : Enrolls(call) /\ call.inst = i
      <3>1. ~Rests
        BY <1>3 DEF Rests, Keeps
      <3> QED BY <1>3, <3>1, DeviceStep, Zenon DEF Enrolls
    <2>2. campaign'[device'[i].campaign] # Nil
      BY <2>1 DEF Enrolls
    <2>3. ASSUME Kind[i] = "setup"
          PROVE  request'[i] # Nil /\ request'[i].status = "device_registered"
      <3>1. call.claim # Nil /\ claim[call.claim].request
        <4>1. call.claim \in Claims \cup {Nil} /\ Presents(i, call.campaign, call.claim)
          BY <2>1 DEF Bound, CallBound, TypeOK, EnrollCall
        <4> QED BY <2>3, <4>1 DEF Presents, Bound, ClaimBound
      <3> QED BY <2>1, <3>1, Zenon DEF Enrolls
    <2> QED BY <2>2, <2>3
  <1> QED BY <1>2, <1>3

LEMMA NextBound == Bound /\ [Next]_vars => Bound'
  <1> SUFFICES ASSUME Bound, [Next]_vars PROVE Bound'
    OBVIOUS
  <1>1. CASE UNCHANGED vars
    BY <1>1 DEF vars, Bound, TypeOK, ClaimBound, ClientBound, CallBound, RequestBound, DeviceBound,
                Presents, Running
  <1>2. CASE Next
    BY <1>2, NextType, NextClaimBound, NextClientBound, NextCallBound, NextRequestBound,
       NextDeviceBound DEF Bound
  <1> QED BY <1>1, <1>2

LEMMA InitBound == Init => Bound
  <1> SUFFICES ASSUME Init PROVE Bound
    OBVIOUS
  <1>1. Idle \in Process /\ Idle.pc = "idle" /\ Idle.start = 0 /\ Idle.claim = Nil
    BY EnrollmentAssumption DEF Idle, Process
  <1>2. TypeOK
    BY <1>1 DEF Init, TypeOK
  <1>3. \A i \in Installs : proc[i].pc = "idle" /\ proc[i].start = 0 /\ proc[i].claim = Nil
    BY <1>1 DEF Init
  <1>4. ClaimBound /\ CallBound /\ DeviceBound
    BY DEF Init, ClaimBound, CallBound, DeviceBound
  <1>5. ClientBound
    BY <1>3 DEF ClientBound
  <1>6. RequestBound
    BY <1>3 DEF Init, RequestBound, Running
  <1> QED BY <1>2, <1>4, <1>5, <1>6 DEF Bound

LEMMA Bindings == Spec => []Bound
  BY InitBound, NextBound, PTL DEF Spec


\* The rows, calls, processes and files keep their shape; no campaign counts
\* past its limit and no rotation past its bound (enrollment/service.py's
\* transactions and the clients of Setup and of the bootstrap).
THEOREM EnrollmentTypes == Spec => []TypeOK
  BY Bindings, PTL DEF Bound

-----------------------------------------------------------------------------
(* Uses, claims and devices *)

DevicesOf(c) == {i \in Installs : device[i] # Nil /\ device[i].campaign = c}
DevicesOfNext(c) == {i \in Installs : device'[i] # Nil /\ device'[i].campaign = c}

LEMMA InitUses == Init => UsesAreDevices
  BY DEF Init, UsesAreDevices

\* A step that enrolls nobody keeps the devices of every campaign.
LEMMA RestingUses ==
  ASSUME Bound, UsesAreDevices, Rests, Next
  PROVE  UsesAreDevices'
  <1>1. ASSUME NEW c \in Campaigns, campaign'[c] # Nil
        PROVE  /\ campaign'[c].uses = Cardinality(DevicesOfNext(c))
               /\ campaign'[c].uses <= campaign'[c].max
    <2>1. DevicesOfNext(c) = DevicesOf(c)
      BY DEF DevicesOf, DevicesOfNext, Rests, Keeps
    <2>2. Settles(c)
      BY DEF Rests
    <2>3. CASE campaign[c] # Nil
      <3>1. campaign[c].uses = Cardinality(DevicesOf(c)) /\ campaign[c].uses <= campaign[c].max
        BY <2>3 DEF UsesAreDevices, DevicesOf
      <3> HIDE DEF DevicesOf, DevicesOfNext
      <3> QED BY <1>1, <2>1, <2>2, <2>3, <3>1 DEF Settles
    <2>4. CASE campaign[c] = Nil
      <3>1. DevicesOf(c) = {}
        BY <2>4 DEF DevicesOf, Bound, DeviceBound
      <3>2. Cardinality(DevicesOf(c)) = 0
        BY <3>1, FS_EmptySet
      <3>3. campaign'[c].uses = 0 /\ campaign'[c].max \in 1 .. MaxUses
        BY <1>1, <2>2, <2>4 DEF Settles
      <3> QED BY <2>1, <3>2, <3>3, EnrollmentAssumption
    <2> QED BY <2>3, <2>4
  <1>2. ASSUME NEW k \in Claims, NEW i \in Installs
        PROVE  (claim'[k] # Nil /\ claim'[k].device = i) <=> (device'[i] # Nil /\ device'[i].claim = k)
    <2>1. (device'[i] # Nil /\ device'[i].claim = k) <=> (device[i] # Nil /\ device[i].claim = k)
      BY DEF Rests, Keeps
    <2>2. (claim[k] # Nil /\ claim[k].device = i) <=> (device[i] # Nil /\ device[i].claim = k)
      BY DEF UsesAreDevices
    <2>3. claim[k] # Nil => claim'[k] # Nil /\ claim'[k].device = claim[k].device
      BY RowsKept DEF Rests, Kept
    <2>4. claim[k] = Nil /\ claim'[k] # Nil => claim'[k].device # i
      BY ClaimStep, EnrollmentAssumption DEF Issued
    <2> QED BY <2>1, <2>2, <2>3, <2>4
  <1> QED BY <1>1, <1>2 DEF UsesAreDevices, DevicesOfNext

\* The transaction that enrolls counts its device once and binds its claim.
LEMMA EnrollingUses ==
  ASSUME Bound, UsesAreDevices, NEW call \in calls, Enrolls(call), Next
  PROVE  UsesAreDevices'
  <1> DEFINE i == call.inst
             k == call.claim
             c == call.campaign
  <1>1. /\ i \in Installs /\ c \in Campaigns /\ device[i] = Nil /\ device'[i] # Nil
        /\ device'[i].campaign = c /\ device'[i].claim = k
        /\ \A j \in Installs : j # i => device'[j] = device[j]
    BY DEF Enrolls
  <1>2. ASSUME NEW b \in Campaigns, campaign'[b] # Nil
        PROVE  /\ campaign'[b].uses = Cardinality(DevicesOfNext(b))
               /\ campaign'[b].uses <= campaign'[b].max
    <2>1. CASE b # c
      <3>1. DevicesOfNext(b) = DevicesOf(b) /\ campaign'[b] = campaign[b]
        BY <1>1, <2>1 DEF DevicesOf, DevicesOfNext, Enrolls
      <3>2. campaign[b].uses = Cardinality(DevicesOf(b)) /\ campaign[b].uses <= campaign[b].max
        BY <1>2, <3>1 DEF UsesAreDevices, DevicesOf
      <3> QED BY <3>1, <3>2
    <2>2. CASE b = c
      <3>1. DevicesOfNext(c) = DevicesOf(c) \cup {i} /\ i \notin DevicesOf(c)
        BY <1>1 DEF DevicesOf, DevicesOfNext
      <3>2. IsFiniteSet(DevicesOf(c))
        BY EnrollmentAssumption, FS_Subset DEF DevicesOf
      <3>3. Cardinality(DevicesOfNext(c)) = Cardinality(DevicesOf(c)) + 1
        BY <3>1, <3>2, FS_AddElement
      <3>4. campaign[c] # Nil /\ campaign[c] \in CampaignRow /\ campaign[c].uses < campaign[c].max
            /\ campaign'[c].uses = campaign[c].uses + 1 /\ campaign'[c].max = campaign[c].max
        BY DEF Enrolls, Bound, TypeOK
      <3>5. campaign[c].uses = Cardinality(DevicesOf(c))
        BY <1>1, <3>4 DEF UsesAreDevices, DevicesOf
      <3>6. campaign[c].uses \in Nat /\ campaign[c].max \in Nat
        BY <3>4, EnrollmentAssumption DEF CampaignRow
      <3> QED BY <2>2, <3>3, <3>4, <3>5, <3>6
    <2> QED BY <2>1, <2>2
  <1>3. ASSUME NEW h \in Claims, NEW j \in Installs
        PROVE  (claim'[h] # Nil /\ claim'[h].device = j) <=> (device'[j] # Nil /\ device'[j].claim = h)
    <2>1. \A n \in Installs :
            (claim[h] # Nil /\ claim[h].device = n) <=> (device[n] # Nil /\ device[n].claim = h)
      BY DEF UsesAreDevices
    <2>2. CASE h = k
      <3>1. h # Nil /\ claim[h].device = Nil /\ claim'[h].device = i
        BY <2>2, EnrollmentAssumption DEF Enrolls
      <3>2. claim'[h] # Nil
        BY <2>2, <3>1, RowsKept DEF Kept, Bound, CallBound, Presents
      <3> QED BY <1>1, <2>1, <2>2, <3>1, <3>2, EnrollmentAssumption
    <2>3. CASE h # k
      <3>1. claim'[h] = claim[h]
        BY <2>3 DEF Enrolls
      <3> QED BY <1>1, <2>1, <2>3, <3>1
    <2> QED BY <2>2, <2>3
  <1> QED BY <1>2, <1>3 DEF UsesAreDevices, DevicesOfNext

LEMMA NextUses == Bound /\ UsesAreDevices /\ [Next]_vars => UsesAreDevices'
  <1> SUFFICES ASSUME Bound, UsesAreDevices, [Next]_vars PROVE UsesAreDevices'
    OBVIOUS
  <1>1. CASE UNCHANGED vars
    BY <1>1 DEF vars, UsesAreDevices
  <1>2. CASE Next
    BY <1>2, DeviceStep, RestingUses, EnrollingUses
  <1> QED BY <1>1, <1>2

\* A campaign counts one use for each of its devices and never more than its
\* limit, and a claim is consumed by exactly the device that presented it,
\* whatever is retried, lost, refused or decided meanwhile
\* (reserve_campaign_use and consume_install_claim in enroll_agent).
THEOREM UsesAreDevicesAlways == Spec => []UsesAreDevices
  <1>1. Init => UsesAreDevices
    BY InitUses
  <1>2. Bound /\ UsesAreDevices /\ [Next]_vars => UsesAreDevices'
    BY NextUses
  <1> QED BY <1>1, <1>2, Bindings, PTL DEF Spec

-----------------------------------------------------------------------------
(* Refused requests *)

LEMMA RefusedStep ==
  ASSUME Bound, [Next]_vars, NEW i \in Installs, request[i] # Nil, request[i].status \in Refused
  PROVE  device'[i] = Nil /\ request'[i].status = request[i].status
  <1>1. Kind[i] = "setup" /\ device[i] = Nil
    BY DEF Bound, RequestBound, DeviceBound, Refused
  <1>2. CASE UNCHANGED vars
    BY <1>1, <1>2 DEF vars
  <1>3. CASE Next
    <2>1. request'[i].status = request[i].status
      <3>1. RequestMoves(i)
        BY <1>3, RequestStep
      <3> QED BY <3>1 DEF RequestMoves, Decides, Asks, Refused, MayBeDenied
    <2>2. CASE Rests
      BY <1>1, <2>1, <2>2 DEF Rests, Keeps
    <2>3. ASSUME NEW call \in calls, Enrolls(call) PROVE device'[i] = Nil
      <3>1. CASE call.inst # i
        BY <1>1, <2>3, <3>1 DEF Enrolls
      <3>2. CASE call.inst = i
        <4>1. call.claim \in Claims \cup {Nil} /\ Presents(i, call.campaign, call.claim)
          BY <3>2 DEF Bound, CallBound, TypeOK, EnrollCall
        <4>2. call.claim # Nil /\ claim[call.claim].request
          BY <1>1, <4>1 DEF Presents, Bound, ClaimBound
        <4>3. request[i].status = "claim_issued"
          BY <2>3, <3>2, <4>2 DEF Enrolls, RequestReady
        <4> QED BY <4>3 DEF Refused
      <3> QED BY <3>1, <3>2
    <2> QED BY <1>3, <2>1, <2>2, <2>3, DeviceStep
  <1> QED BY <1>2, <1>3

\* A denied or expired request never becomes anything else and never ends in a
\* device, even when its claim was handed out and its /enroll call is under
\* way (mark_request_enrolling's transition from claim_issued only).
THEOREM RefusedForGoodAlways == Spec => RefusedForGood
  <1>1. Bound /\ [Next]_vars =>
          [\A i \in Installs : request[i] # Nil /\ request[i].status \in Refused
             => device'[i] = Nil /\ request'[i].status = request[i].status]_vars
    BY RefusedStep
  <1> QED BY <1>1, Bindings, PTL DEF Spec, RefusedForGood

-----------------------------------------------------------------------------
(* Repeated calls *)

LEMMA InitStart == Init => StartBound
  BY DEF Init, StartBound

\* No call is ahead of its client, and the calls of its present start carry
\* what the client presents: after the step, of the calls before it too.
LEMMA CallsFollow ==
  ASSUME Bound, StartBound, Next, NEW call \in calls \cup calls'
  PROVE  LET q == proc'[call.inst]
         IN  /\ call.inst \in Installs /\ call.start \in 1 .. MaxStarts /\ q.start \in Nat
             /\ call.start <= q.start
             /\ call.start = q.start => call.campaign = q.campaign /\ call.claim = q.claim
  <1> DEFINE i == call.inst
             p == proc[i]
             q == proc'[i]
  <1>1. call \in EnrollCall
    BY NextType DEF Bound, TypeOK
  <1>2. i \in Installs /\ call.start \in 1 .. MaxStarts
    BY <1>1 DEF EnrollCall
  <1>3. p \in Process /\ q \in Process
    BY <1>2, NextType DEF Bound, TypeOK
  <1>4. p.start \in Nat /\ q.start \in Nat
    BY <1>3, ProcessFields
  <1>5. CASE call \in calls
    <2>1. /\ call.start <= p.start
          /\ call.start = p.start => call.campaign = p.campaign /\ call.claim = p.claim
      BY <1>5 DEF StartBound
    <2>2. p.pc = "approved" => p.start = 0
      BY <1>2 DEF Bound, ClientBound
    <2>3. Moves(i)
      BY <1>2, ProcStep
    <2> HIDE DEF p, q, i
    <2>4. q = p \/ Walks(i, p, q) \/ TakesClaim(i, p, q) \/ PlacesCall(i, p, q)
      BY <2>3 DEF Moves, p, q
    <2>5. \/ q.start = p.start /\ q.campaign = p.campaign /\ q.claim = p.claim
          \/ q.start = p.start + 1
          \/ p.pc = "approved"
      BY <2>4 DEF Walks, Same, TakesClaim, PlacesCall
    <2>6. /\ call.start <= q.start
          /\ call.start = q.start => call.campaign = q.campaign /\ call.claim = q.claim
      BY <1>2, <1>4, <2>1, <2>2, <2>5, EnrollmentAssumption
    <2> QED BY <1>2, <1>4, <2>6 DEF p, q, i
  <1>6. CASE call \notin calls
    <2>1. call.start = q.start /\ call.campaign = q.campaign /\ call.claim = q.claim
      BY <1>6, ProcStep DEF NewCalls
    <2> QED BY <1>2, <1>4, <2>1
  <1> QED BY <1>5, <1>6

LEMMA SameStartSameCall ==
  ASSUME Bound, StartBound, Next, NEW a \in calls', NEW b \in calls',
         a.inst = b.inst, a.start = b.start
  PROVE  a.campaign = b.campaign /\ a.claim = b.claim
  <1>1. CASE a \in calls /\ b \in calls
    BY <1>1 DEF StartBound
  <1>2. CASE a \notin calls \/ b \notin calls
    <2>1. a.start = proc'[a.inst].start
      BY <1>2, ProcStep DEF NewCalls
    <2> QED BY <2>1, CallsFollow
  <1> QED BY <1>1, <1>2

\* Where the receipt of install i stands against its client and its calls.
Receipt(i, d, p, cs) ==
  /\ d.receipt <= p.start
  /\ d.receipt = p.start => d.campaign = p.campaign /\ d.claim = p.claim
  /\ \A call \in cs : call.inst = i /\ call.start = d.receipt =>
       d.campaign = call.campaign /\ d.claim = call.claim

LEMMA ReceiptKept ==
  ASSUME Bound, StartBound, Next, NEW i \in Installs,
         device'[i] # Nil, device'[i].receipt # Nil
  PROVE  Receipt(i, device'[i], proc'[i], calls')
  <1>0. proc[i] \in Process /\ proc'[i] \in Process
    BY NextType DEF Bound, TypeOK
  <1>1. proc[i].start \in Nat /\ proc'[i].start \in Nat
    BY <1>0, ProcessFields
  <1>2. ASSUME NEW d, d = device'[i], d.receipt \in 1 .. MaxStarts,
               d.receipt <= proc'[i].start,
               d.receipt = proc'[i].start => d.campaign = proc'[i].campaign /\ d.claim = proc'[i].claim,
               \A call \in calls \cap calls' : call.inst = i /\ call.start = d.receipt =>
                 d.campaign = call.campaign /\ d.claim = call.claim
        PROVE  Receipt(i, d, proc'[i], calls')
    <2> SUFFICES ASSUME NEW call \in calls', call.inst = i, call.start = d.receipt
                 PROVE  d.campaign = call.campaign /\ d.claim = call.claim
      BY <1>2 DEF Receipt
    <2>1. CASE call \in calls
      BY <1>2, <2>1
    <2>2. CASE call \notin calls
      <3>1. /\ call.start = proc'[i].start /\ call.campaign = proc'[i].campaign
            /\ call.claim = proc'[i].claim
        BY <2>2, ProcStep DEF NewCalls
      <3> QED BY <1>2, <3>1
    <2> QED BY <2>1, <2>2
  <1>3. CASE Rests
    <2> DEFINE d == device[i]
               e == device'[i]
    <2>1. d # Nil /\ e.campaign = d.campaign /\ e.claim = d.claim /\ e.receipt = d.receipt
      BY <1>3 DEF Rests, Keeps
    <2>2. d.receipt \in 1 .. MaxStarts
      BY <2>1 DEF Bound, TypeOK, DeviceRow
    <2>3. /\ d.receipt <= proc[i].start
          /\ d.receipt = proc[i].start => d.campaign = proc[i].campaign /\ d.claim = proc[i].claim
          /\ \A call \in calls : call.inst = i /\ call.start = d.receipt =>
               d.campaign = call.campaign /\ d.claim = call.claim
      BY <2>1 DEF StartBound
    <2>4. /\ proc[i].pc = "approved" => proc[i].start = 0
          /\ Moves(i)
      BY ProcStep DEF Bound, ClientBound
    <2>5. \/ /\ proc'[i].start = proc[i].start /\ proc'[i].campaign = proc[i].campaign
             /\ proc'[i].claim = proc[i].claim
          \/ proc'[i].start = proc[i].start + 1
          \/ proc[i].start = 0
      BY <2>4 DEF Moves, Walks, Same, TakesClaim, PlacesCall
    <2>6. /\ d.receipt <= proc'[i].start
          /\ d.receipt = proc'[i].start => d.campaign = proc'[i].campaign /\ d.claim = proc'[i].claim
      BY <1>1, <2>2, <2>3, <2>5, EnrollmentAssumption
    <2> HIDE DEF d
    <2> QED BY <1>2, <2>1, <2>2, <2>3, <2>6
  <1>4. ASSUME NEW call \in calls, Enrolls(call) PROVE Receipt(i, device'[i], proc'[i], calls')
    <2>1. CASE call.inst = i
      <3>1. /\ device'[i].campaign = call.campaign /\ device'[i].claim = call.claim
            /\ device'[i].receipt = call.start /\ calls' = calls \ {call}
        BY <1>4, <2>1 DEF Enrolls
      <3>2. /\ call.start \in 1 .. MaxStarts /\ call.start <= proc'[i].start
            /\ call.start = proc'[i].start => call.campaign = proc'[i].campaign /\ call.claim = proc'[i].claim
        BY <2>1, CallsFollow
      <3>3. \A b \in calls : b.inst = i /\ b.start = call.start =>
              call.campaign = b.campaign /\ call.claim = b.claim
        BY <2>1 DEF StartBound
      <3> QED BY <1>2, <3>1, <3>2, <3>3
    <2>2. CASE call.inst # i
      <3> DEFINE d == device[i]
      <3>1. device'[i] = d /\ calls' \subseteq calls /\ d # Nil /\ d.receipt # Nil
        BY <1>4, <2>2 DEF Enrolls
      <3>2. d.receipt \in 1 .. MaxStarts
        BY <3>1 DEF Bound, TypeOK, DeviceRow
      <3>3. /\ d.receipt <= proc[i].start
            /\ d.receipt = proc[i].start => d.campaign = proc[i].campaign /\ d.claim = proc[i].claim
            /\ \A b \in calls : b.inst = i /\ b.start = d.receipt =>
                 d.campaign = b.campaign /\ d.claim = b.claim
        BY <3>1 DEF StartBound
      <3>4. /\ proc[i].pc = "approved" => proc[i].start = 0
            /\ Moves(i)
        BY ProcStep DEF Bound, ClientBound
      <3>5. \/ /\ proc'[i].start = proc[i].start /\ proc'[i].campaign = proc[i].campaign
               /\ proc'[i].claim = proc[i].claim
            \/ proc'[i].start = proc[i].start + 1
            \/ proc[i].start = 0
        BY <3>4 DEF Moves, Walks, Same, TakesClaim, PlacesCall
      <3>6. /\ d.receipt <= proc'[i].start
            /\ d.receipt = proc'[i].start => d.campaign = proc'[i].campaign /\ d.claim = proc'[i].claim
        BY <1>1, <3>2, <3>3, <3>5, EnrollmentAssumption
      <3> HIDE DEF d
      <3> QED BY <1>2, <3>1, <3>2, <3>3, <3>6
    <2> QED BY <2>1, <2>2
  <1> QED BY <1>3, <1>4, DeviceStep

LEMMA NextStart == Bound /\ StartBound /\ [Next]_vars => StartBound'
  <1> SUFFICES ASSUME Bound, StartBound, [Next]_vars PROVE StartBound'
    OBVIOUS
  <1>1. CASE UNCHANGED vars
    BY <1>1 DEF vars, StartBound
  <1>2. CASE Next
    <2>1. \A call \in calls' :
            /\ call.start <= proc'[call.inst].start
            /\ call.start = proc'[call.inst].start =>
                 call.campaign = proc'[call.inst].campaign /\ call.claim = proc'[call.inst].claim
      BY <1>2, CallsFollow
    <2>2. \A a, b \in calls' : a.inst = b.inst /\ a.start = b.start =>
            a.campaign = b.campaign /\ a.claim = b.claim
      BY <1>2, SameStartSameCall
    <2>3. \A i \in Installs : device'[i] # Nil /\ device'[i].receipt # Nil =>
            Receipt(i, device'[i], proc'[i], calls')
      BY <1>2, ReceiptKept
    <2> QED BY <2>1, <2>2, <2>3 DEF StartBound, Receipt
  <1> QED BY <1>1, <1>2

\* Why the server refuses a repeated call of the start that created a device.
LEMMA RefusedRepeat ==
  ASSUME Bound, StartBound, UsesAreDevices, [Next]_vars, NEW i \in Installs,
         proc[i].pc = "calling", proc'[i].pc = "denied",
         device[i] # Nil, device[i].receipt = proc[i].start
  PROVE  LET d == device[i]
         IN  \/ d.late \/ d.pending # Nil \/ d.token # 0
             \/ ~Matches(d.campaign, PlatformOf(i))
             \/ d.claim # Nil /\ claim[d.claim].late
  <1> DEFINE d == device[i]
  <1>1. Next
    BY DEF vars
  <1>2. PICK call \in calls : /\ call.inst = i /\ call.start = proc[i].start
                              /\ EnrollOutcome(call) \in {"denied", "destroyed"}
    <2>1. Moves(i)
      BY <1>1, ProcStep
    <2> QED BY <2>1 DEF Moves, Walks, TakesClaim, PlacesCall
  <1>3. call.claim \in Claims \cup {Nil} /\ call.start \in 1 .. MaxStarts
    BY DEF Bound, TypeOK, EnrollCall
  <1>4. d.campaign = call.campaign /\ d.claim = call.claim
    <2>1. d.receipt # Nil
      BY <1>2, <1>3, EnrollmentAssumption
    <2> QED BY <1>2, <2>1 DEF StartBound
  <1>5. call.claim = Nil \/ claim[call.claim].device = i
    BY <1>3, <1>4 DEF UsesAreDevices
  <1>6. SUFFICES ASSUME ~d.late, d.pending = Nil, d.token = 0,
                        Matches(d.campaign, PlatformOf(i)),
                        ~(d.claim # Nil /\ claim[d.claim].late)
                 PROVE  FALSE
    OBVIOUS
  <1>7. Admitted(call)
    BY <1>2, <1>4, <1>6 DEF Admitted
  <1>8. Recoverable(d)
    <2>1. d.receipt # Nil
      BY <1>2, <1>3, EnrollmentAssumption
    <2>2. Matches(d.campaign, campaign[d.campaign].platform)
      BY <1>6 DEF Matches
    <2> QED BY <1>6, <2>1, <2>2 DEF Recoverable
  <1>9. EnrollOutcome(call) = "again"
    BY <1>2, <1>4, <1>5, <1>6, <1>7, <1>8 DEF EnrollOutcome
  <1> QED BY <1>2, <1>9

\* A client that lost its answer and repeats its request is refused its own
\* device only when the delivery is past its time, the campaign or the claim
\* is no longer valid, or the credential was rotated: its own first attempt
\* never stands in its way (the existing-device branch of enroll_agent).
THEOREM RetryServedAlways == Spec => RetryServed
  <1>1. Init => StartBound
    BY InitStart
  <1>2. Bound /\ StartBound /\ [Next]_vars => StartBound'
    BY NextStart
  <1>3. Bound /\ StartBound /\ UsesAreDevices /\ [Next]_vars =>
          [\A i \in Installs :
             LET d == device[i]
                 p == proc[i]
             IN  /\ p.pc = "calling" /\ proc'[i].pc = "denied"
                 /\ d # Nil /\ d.receipt = p.start
                 => \/ d.late \/ d.pending # Nil \/ d.token # 0
                    \/ ~Matches(d.campaign, PlatformOf(i))
                    \/ d.claim # Nil /\ claim[d.claim].late]_vars
    BY RefusedRepeat
  <1> QED BY <1>1, <1>2, <1>3, Bindings, UsesAreDevicesAlways, PTL DEF Spec, RetryServed

-----------------------------------------------------------------------------
(* The files of a machine *)

LEMMA FilesClean ==
  ASSUME NEW m
  PROVE  /\ Files(m) = "clean" <=> Clean(file[m])
         /\ Files(m) = "valid" => file[m].credential # Nil /\ file[m].identity # Nil
  BY DEF Files, Clean

\* A client that writes or discards.
Writes(i) ==
  LET p == proc[i].pc
      q == proc'[i].pc
      f == file[Machine[i]]
      g == file'[Machine[i]]
  IN  /\ \A m \in Machines : m # Machine[i] => file'[m] = file[m]
      /\ \/ q = "half" /\ p = "got" /\ g.credential = <<i, 0>> /\ g.identity = f.identity
         \/ q = "written" /\ p = "half" /\ g.credential = f.credential /\ g.identity = i
         \/ /\ q = "idle" /\ Kind[i] = "systemd" /\ p \in {"got", "half", "written"}
            /\ g.credential = IF f.credential = <<i, 0>> THEN Nil ELSE f.credential
            /\ g.identity = IF f.identity = i THEN Nil ELSE f.identity

\* A client that does neither.
Still(i) == /\ file' = file
            /\ proc'[i].pc \in {"half", "written"} => proc[i].pc = proc'[i].pc

LEMMA PcStep ==
  ASSUME TypeOK, NEW i \in Installs, NEW pc \in PCs, proc' = [proc EXCEPT ![i].pc = pc]
  PROVE  proc'[i].pc = pc
  <1>1. proc[i] \in Process /\ proc \in [Installs -> Process]
    BY DEF TypeOK
  <1>2. proc'[i] = [proc[i] EXCEPT !.pc = pc]
    BY <1>1, Zenon
  <1> QED BY <1>1, <1>2, ProcessAt, Zenon

LEMMA DiscardDoes ==
  ASSUME TypeOK, NEW i \in Installs, Discard(i)
  PROVE  LET f == file[Machine[i]]
             g == file'[Machine[i]]
         IN  /\ \A m \in Machines : m # Machine[i] => file'[m] = file[m]
             /\ g.credential = IF f.credential = <<i, 0>> THEN Nil ELSE f.credential
             /\ g.identity = IF f.identity = i THEN Nil ELSE f.identity
  <1> DEFINE m == Machine[i]
             c == IF file[m].credential = <<i, 0>> THEN Nil ELSE file[m].credential
             d == IF file[m].identity = i THEN Nil ELSE file[m].identity
  <1>1. m \in Machines /\ file[m] \in FileRow /\ file \in [Machines -> FileRow]
    BY EnrollmentAssumption DEF TypeOK, FileRow
  <1>2. file' = [file EXCEPT ![m] = [file[m] EXCEPT !.credential = c, !.identity = d]]
    BY <1>1 DEF Discard, FileRow
  <1> HIDE DEF c, d, m
  <1> DEFINE g == [file[m] EXCEPT !.credential = c, !.identity = d]
  <1>3. g.credential = c /\ g.identity = d
    BY <1>1 DEF FileRow
  <1>4. file'[m] = g /\ \A n \in Machines : n # m => file'[n] = file[n]
    BY <1>1, <1>2, Zenon
  <1> QED BY <1>3, <1>4, Zenon DEF c, d, m

LEMMA WritesStep ==
  ASSUME TypeOK, NEW i \in Installs,
         WriteCredential(i) \/ WriteIdentity(i) \/ WriteFails(i) \/ ReadBack(i)
  PROVE  Still(i) \/ Writes(i)
  <1> DEFINE m == Machine[i]
  <1>1. m \in Machines /\ file[m] \in FileRow /\ file \in [Machines -> FileRow]
    BY EnrollmentAssumption DEF TypeOK, FileRow
  <1>2. "half" \in PCs /\ "written" \in PCs /\ "idle" \in PCs
    BY DEF PCs
  <1>3. CASE WriteCredential(i)
    <2>1. /\ proc[i].pc = "got" /\ proc' = [proc EXCEPT ![i].pc = "half"]
          /\ file' = [file EXCEPT ![m] = [file[m] EXCEPT !.credential = <<i, 0>>]]
      BY <1>3, Zenon DEF WriteCredential
    <2>2. proc'[i].pc = "half"
      BY <1>2, <2>1, PcStep
    <2>3. /\ file'[m] = [file[m] EXCEPT !.credential = <<i, 0>>]
          /\ \A n \in Machines : n # m => file'[n] = file[n]
      BY <1>1, <2>1, Zenon
    <2>4. file'[m].credential = <<i, 0>> /\ file'[m].identity = file[m].identity
      BY <1>1, <2>3 DEF FileRow
    <2> QED BY <2>1, <2>2, <2>3, <2>4, Zenon DEF Writes
  <1>4. CASE WriteIdentity(i)
    <2>1. /\ proc[i].pc = "half" /\ proc' = [proc EXCEPT ![i].pc = "written"]
          /\ file' = [file EXCEPT ![m] = [file[m] EXCEPT !.identity = i]]
      BY <1>4, Zenon DEF WriteIdentity
    <2>2. proc'[i].pc = "written"
      BY <1>2, <2>1, PcStep
    <2>3. /\ file'[m] = [file[m] EXCEPT !.identity = i]
          /\ \A n \in Machines : n # m => file'[n] = file[n]
      BY <1>1, <2>1, Zenon
    <2>4. file'[m].credential = file[m].credential /\ file'[m].identity = i
      BY <1>1, <2>3 DEF FileRow
    <2> QED BY <2>1, <2>2, <2>3, <2>4, Zenon DEF Writes
  <1>5. CASE WriteFails(i) \/ ReadBack(i)
    <2>1. \/ /\ file' = file
             /\ \E pc \in {"idle", "over", "verifying", "done"} : proc' = [proc EXCEPT ![i].pc = pc]
          \/ /\ Discard(i) /\ Kind[i] = "systemd" /\ proc' = [proc EXCEPT ![i].pc = "idle"]
             /\ proc[i].pc \in {"got", "half", "written"}
      <3>1. {"got", "half"} \subseteq {"got", "half", "written"} /\ "written" \in {"got", "half", "written"}
        OBVIOUS
      <3>2. CASE WriteFails(i)
        BY <3>1, <3>2, Zenon DEF WriteFails
      <3>3. CASE ReadBack(i)
        <4>1. \A b : (IF b THEN "verifying" ELSE "done") \in {"idle", "over", "verifying", "done"}
          OBVIOUS
        <4> QED BY <3>1, <3>3, <4>1, Zenon DEF ReadBack
      <3> QED BY <1>5, <3>2, <3>3
    <2>2. \A pc \in {"idle", "over", "verifying", "done"} :
            proc' = [proc EXCEPT ![i].pc = pc] => proc'[i].pc = pc
      BY PcStep DEF PCs
    <2>3. CASE Discard(i) /\ Kind[i] = "systemd" /\ proc'[i].pc = "idle"
               /\ proc[i].pc \in {"got", "half", "written"}
      BY <2>3, DiscardDoes, Zenon DEF Writes
    <2>4. CASE /\ file' = file
               /\ \E pc \in {"idle", "over", "verifying", "done"} : proc' = [proc EXCEPT ![i].pc = pc]
      <3>1. proc'[i].pc \in {"idle", "over", "verifying", "done"}
        BY <2>2, <2>4, Zenon
      <3> QED BY <2>4, <3>1 DEF Still
    <2>5. "idle" \in {"idle", "over", "verifying", "done"}
      OBVIOUS
    <2> QED BY <2>1, <2>2, <2>3, <2>4, <2>5, Zenon
  <1> QED BY <1>3, <1>4, <1>5

\* Every step is one client's, or none's: the others do not move.
Alike(i) == \A j \in Installs : j # i => proc'[j] = proc[j]

LEMMA OneTurn ==
  ASSUME Bound, Next
  PROVE  \/ proc' = proc /\ file' = file
         \/ \E i \in Installs : Alike(i) /\ (Still(i) \/ Writes(i))
  <1> DEFINE G == \/ proc' = proc /\ file' = file
                  \/ \E i \in Installs : Alike(i) /\ (Still(i) \/ Writes(i))
  <1>1. ASSUME NEW i \in Installs, NEW answered \in BOOLEAN,
               \/ create_enrollment_request(i, answered)
               \/ enrollment_request_status(i, answered)
               \/ \E k \in Claims : handoff_enrollment_request_claim(i, k, answered)
               \/ \E ready \in BOOLEAN : verify_enrollment_completion(i, ready, answered)
        PROVE  G
    <2>1. file' = file
      BY <1>1, Zenon DEF create_enrollment_request, enrollment_request_status,
                         handoff_enrollment_request_claim, verify_enrollment_completion
    <2>2. Alike(i) /\ Moves(i)
      BY <1>1, SetupMoves DEF Alike
    <2>3. proc[i].pc \in {"asking", "polling", "approved", "verifying"}
      BY <1>1 DEF create_enrollment_request, enrollment_request_status,
                  handoff_enrollment_request_claim, verify_enrollment_completion
    <2>4. Still(i)
      BY <2>1, <2>2, <2>3 DEF Moves, Walks, TakesClaim, PlacesCall, Still
    <2> QED BY <2>2, <2>4
  <1>2. ASSUME NEW call \in calls, NEW answered \in BOOLEAN, enroll_agent(call, answered) PROVE G
    <2>1. call.inst \in Installs /\ Alike(call.inst) /\ Still(call.inst)
      BY <1>2, EnrollDoes DEF Alike, Still, Bound
    <2> QED BY <2>1
  <1>3. ASSUME NEW i \in Installs,
               \/ StartSetup(i)
               \/ ProvisionClaim(i)
               \/ \E c \in Campaigns : ProvisionMaterial(i, c)
               \/ \E k \in Claims : bootstrap_enrollment(i, k)
               \/ Timeout(i)
               \/ WriteCredential(i) \/ WriteIdentity(i) \/ WriteFails(i) \/ ReadBack(i)
               \/ Interrupted(i)
        PROVE  G
    <2>1. Alike(i) /\ Moves(i)
      BY <1>3, ClientMoves DEF Alike
    <2>2. Still(i) \/ Writes(i)
      <3>1. CASE WriteCredential(i) \/ WriteIdentity(i) \/ WriteFails(i) \/ ReadBack(i)
        BY <3>1, WritesStep DEF Bound
      <3>2. CASE Interrupted(i)
        <4>1. PICK pc \in {"idle", "over"} : proc' = [proc EXCEPT ![i].pc = pc]
          BY <3>2 DEF Interrupted
        <4>2. proc'[i].pc = pc
          BY <4>1, PcStep DEF PCs, Bound
        <4>3. file' = file
          BY <3>2 DEF Interrupted
        <4> QED BY <4>2, <4>3 DEF Still
      <3>3. CASE \/ StartSetup(i)
                 \/ ProvisionClaim(i)
                 \/ \E c \in Campaigns : ProvisionMaterial(i, c)
                 \/ \E k \in Claims : bootstrap_enrollment(i, k)
                 \/ Timeout(i)
        <4>1. file' = file /\ proc[i].pc \in {"claimed", "idle", "calling"}
          BY <3>3 DEF StartSetup, ProvisionClaim, ProvisionMaterial, bootstrap_enrollment, Timeout
        <4> QED BY <2>1, <4>1 DEF Moves, Walks, TakesClaim, PlacesCall, Still
      <3> QED BY <1>3, <3>1, <3>2, <3>3
    <2> QED BY <2>1, <2>2
  <1>4. ASSUME \/ \E c \in Campaigns, max \in 1 .. MaxUses, platform \in {"windows", "linux"},
                    mode \in {"auto", "manual"} : create_campaign(c, platform, mode, max)
               \/ \E c \in Campaigns, max \in 1 .. MaxUses : update_campaign(c, max)
               \/ \E c \in Campaigns : revoke_campaign(c) \/ CampaignExpires(c)
               \/ \E i \in Installs, k \in Claims, c \in Campaigns :
                    issue_provisioning_install_claim(i, k, c)
               \/ \E k \in Claims : ClaimExpires(k)
               \/ \E i \in Installs :
                    \/ approve_request(i) \/ deny_request(i) \/ RequestExpires(i)
                    \/ acknowledge_enrollment_delivery(i) \/ cleanup_expired_retry_envelopes(i)
                    \/ rotate_device_credential(i) \/ activate_device_credential(i)
                    \/ EnvelopeExpires(i)
        PROVE  G
    <2>1. proc' = proc /\ file' = file
      BY <1>4, Zenon
         DEF create_campaign, update_campaign, revoke_campaign, CampaignExpires,
             issue_provisioning_install_claim, ClaimExpires, approve_request, deny_request,
             RequestExpires, acknowledge_enrollment_delivery, cleanup_expired_retry_envelopes,
             rotate_device_credential, activate_device_credential, EnvelopeExpires
    <2> QED BY <2>1
  <1> HIDE DEF G
  <1>5. G
    BY <1>1, <1>2, <1>3, <1>4, NextSteps, Zenon
  <1> QED BY <1>5 DEF G

LEMMA DevicesStay ==
  ASSUME Bound, Next, NEW i \in Installs, device[i] # Nil
  PROVE  device'[i] # Nil
  <1>1. CASE Rests
    BY <1>1 DEF Rests, Keeps
  <1>2. CASE \E call \in calls : Enrolls(call)
    BY <1>2 DEF Enrolls
  <1> QED BY <1>1, <1>2, DeviceStep

LEMMA InitPair == Init => RunBound /\ PairBound /\ FileBound
  <1> SUFFICES ASSUME Init PROVE RunBound /\ PairBound /\ FileBound
    OBVIOUS
  <1>1. \A i \in Installs : proc[i].pc = "idle" /\ i # Nil
    BY EnrollmentAssumption DEF Init, Idle
  <1>2. \A m \in Machines : Clean(file[m])
    BY DEF Init, Clean
  <1>3. \A i \in Installs : <<i, 0>> # Nil
    BY Absent DEF Credential
  <1>4. RunBound /\ PairBound
    BY <1>1 DEF RunBound, PairBound, Mine, Rest
  <1>5. FileBound
    BY <1>1, <1>2, <1>3 DEF FileBound, Owner, Clean
  <1> QED BY <1>4, <1>5

\* Who met stays met.
LEMMA MetStays ==
  ASSUME Bound, Next, NEW i \in Installs, NEW j \in Installs, Met(i, j)
  PROVE  Met(i, j)'
  <1>1. proc[i].beside \subseteq proc'[i].beside /\ proc[j].beside \subseteq proc'[j].beside
    BY ProcStep DEF Moves, Looks
  <1> QED BY <1>1 DEF Met

\* A file changes hands only by a running client that writes it.
LEMMA OwnersStep ==
  ASSUME NEW i \in Installs, Still(i) \/ Writes(i), NEW m \in Machines, NEW j \in Installs
  PROVE  /\ file'[m].credential = <<j, 0>> =>
              \/ file[m].credential = <<j, 0>>
              \/ j = i /\ m = Machine[i] /\ proc[i].pc = "got" /\ file'[m].identity = file[m].identity
         /\ file'[m].identity = j =>
              \/ file[m].identity = j
              \/ j = i /\ m = Machine[i] /\ proc[i].pc = "half" /\ file'[m].credential = file[m].credential
  <1>1. <<j, 0>> # Nil /\ j # Nil /\ Machine[i] \in Machines
    BY EnrollmentAssumption, Absent DEF Credential
  <1>2. CASE Still(i)
    BY <1>2 DEF Still
  <1>3. CASE Writes(i) /\ m # Machine[i]
    BY <1>3 DEF Writes
  <1>4. CASE Writes(i) /\ m = Machine[i]
    <2>1. <<i, 0>> = <<j, 0>> => i = j
      OBVIOUS
    <2> QED BY <1>1, <1>4, <2>1 DEF Writes
  <1> QED BY <1>2, <1>3, <1>4

\* A client that moves out of rest looked at the machine, and wrote nothing yet.
LEMMA StartsLook ==
  ASSUME Bound, Next, NEW i \in Installs, proc[i].pc \in Rest, proc'[i].pc \notin Rest,
         Still(i) \/ Writes(i), NEW j \in Others(i)
  PROVE  /\ file' = file
         /\ Running(j) => j \in proc'[i].beside
         /\ Clean(file[Machine[i]]) \/ j \in proc'[i].beside
  <1>1. Looks(i, proc[i], proc'[i])
    BY ProcStep DEF Moves
  <1>2. Kind[i] # "systemd"
    BY HostAssumption DEF Others
  <1>3. file' = file
    BY DEF Still, Writes, Rest
  <1> QED BY <1>1, <1>2, <1>3 DEF Looks

LEMMA NextRun ==
  ASSUME Bound, RunBound, Next, NEW i \in Installs, Alike(i), Still(i) \/ Writes(i)
  PROVE  RunBound'
  <1> SUFFICES ASSUME NEW a \in Installs, NEW b \in Installs, a # b, Machine[a] = Machine[b],
                      proc'[b].pc \notin Rest,
                      proc'[a].pc \notin Rest \/ Owner(Machine[a], a)'
               PROVE  Met(a, b)'
    BY DEF RunBound
  <1>0. Machine[a] \in Machines /\ Machine[i] \in Machines /\ a \in Others(b) /\ b \in Others(a)
    BY EnrollmentAssumption DEF Others
  <1>1. CASE b = i /\ proc[b].pc \in Rest
    <2>1. proc'[a] = proc[a] /\ file' = file
      BY <1>0, <1>1, StartsLook DEF Alike
    <2>2. CASE proc[a].pc \notin Rest
      <3>1. Running(a)
        BY <2>2 DEF Running, Rest
      <3>2. a \in proc'[b].beside
        BY <1>0, <1>1, <3>1, StartsLook
      <3> QED BY <3>2 DEF Met
    <2>3. CASE Owner(Machine[a], a)
      <3>1. ~Clean(file[Machine[b]])
        <4>1. <<a, 0>> # Nil /\ a # Nil
          BY EnrollmentAssumption, Absent DEF Credential
        <4> QED BY <2>3, <4>1 DEF Owner, Clean
      <3>2. a \in proc'[b].beside
        BY <1>0, <1>1, <3>1, StartsLook
      <3> QED BY <3>2 DEF Met
    <2> QED BY <2>1, <2>2, <2>3 DEF Owner
  <1>2. CASE a = i /\ proc[a].pc \in Rest /\ proc'[a].pc \notin Rest
    <2>1. Running(b)
      BY <1>2 DEF Alike, Running, Rest
    <2>2. b \in proc'[a].beside
      BY <1>0, <1>2, <2>1, StartsLook
    <2> QED BY <2>2 DEF Met
  <1>3. CASE ~(b = i /\ proc[b].pc \in Rest) /\ ~(a = i /\ proc[a].pc \in Rest /\ proc'[a].pc \notin Rest)
    <2>1. proc[b].pc \notin Rest
      BY <1>3 DEF Alike
    <2>2. proc'[a].pc \notin Rest => proc[a].pc \notin Rest
      BY <1>3 DEF Alike
    <2>3. Owner(Machine[a], a)' => Owner(Machine[a], a) \/ proc[a].pc \notin Rest
      BY <1>0, OwnersStep DEF Owner, Rest
    <2>4. Met(a, b)
      BY <2>1, <2>2, <2>3 DEF RunBound
    <2> QED BY <2>4, MetStays
  <1> QED BY <1>1, <1>2, <1>3

\* On the machine of a systemd host both files of a pair are the host's.
LEMMA HostFiles ==
  ASSUME TypeOK, FileBound, NEW i \in Installs, Kind[i] = "systemd", Files(Machine[i]) = "valid"
  PROVE  file[Machine[i]].credential = <<i, 0>> /\ file[Machine[i]].identity = i /\ device[i] # Nil
  <1> DEFINE m == Machine[i]
  <1>1. m \in Machines /\ file[m].credential # Nil /\ file[m].identity # Nil
    BY EnrollmentAssumption, FilesClean
  <1>2. PICK a \in Installs : file[m].credential = <<a, 0>>
    BY <1>1 DEF TypeOK, Credential
  <1>3. PICK b \in Installs : file[m].identity = b
    BY <1>1 DEF TypeOK
  <1>4. Machine[a] = m /\ Machine[b] = m /\ device[a] # Nil
    BY <1>1, <1>2, <1>3 DEF FileBound, Owner
  <1>5. a = i /\ b = i
    BY <1>4, HostAssumption
  <1> QED BY <1>2, <1>3, <1>4, <1>5

\* The client that takes the step.
LEMMA MoverPair ==
  ASSUME Bound, PairBound, FileBound, Next, NEW i \in Installs, Still(i) \/ Writes(i)
  PROVE  /\ proc'[i].pc \in {"got", "half", "written", "verifying", "done"} => device'[i] # Nil
         /\ Mine(i, proc'[i].pc, file'[Machine[i]]) \/ \E j \in Others(i) : Met(i, j)'
  <1> DEFINE f == file[Machine[i]]
             met == \E j \in Others(i) : Met(i, j)
  <1>1. /\ proc[i].pc \in {"got", "half", "written", "verifying", "done"} => device[i] # Nil
        /\ Mine(i, proc[i].pc, f) \/ met
    BY DEF PairBound
  <1>2. device[i] # Nil => device'[i] # Nil
    BY DevicesStay
  <1>3. met => \E j \in Others(i) : Met(i, j)'
    BY MetStays DEF Others
  <1>4. Moves(i)
    BY ProcStep
  <1> HIDE DEF met
  <1>5. CASE Writes(i)
    BY <1>1, <1>2, <1>3, <1>5 DEF Writes, Mine
  <1>6. CASE Still(i)
    <2>0. /\ file' = file
          /\ proc'[i].pc \in {"half", "written"} => proc[i].pc = proc'[i].pc
      BY <1>6 DEF Still
    <2>1. CASE proc'[i] = proc[i]
      BY <1>1, <1>2, <1>3, <2>0, <2>1
    <2>2. CASE Walks(i, proc[i], proc'[i])
      <3>1. /\ proc[i].pc = "idle" /\ proc'[i].pc = "done"
            => f.credential = <<i, 0>> /\ f.identity = i /\ device[i] # Nil
        BY <2>2, HostFiles DEF Walks, Bound
      <3> QED BY <1>1, <1>2, <1>3, <2>0, <2>2, <3>1 DEF Walks, Mine
    <2>3. CASE TakesClaim(i, proc[i], proc'[i])
      BY <2>3 DEF TakesClaim, Mine
    <2>4. CASE PlacesCall(i, proc[i], proc'[i])
      BY <2>4 DEF PlacesCall, Mine
    <2> QED BY <1>4, <2>1, <2>2, <2>3, <2>4 DEF Moves
  <1> QED BY <1>5, <1>6

\* The other clients.
LEMMA OtherPair ==
  ASSUME Bound, RunBound, PairBound, Next, NEW i \in Installs, Alike(i), Still(i) \/ Writes(i),
         NEW j \in Installs, j # i
  PROVE  /\ proc'[j].pc \in {"got", "half", "written", "verifying", "done"} => device'[j] # Nil
         /\ Mine(j, proc'[j].pc, file'[Machine[j]]) \/ \E k \in Others(j) : Met(j, k)'
  <1>1. proc'[j] = proc[j] /\ (device[j] # Nil => device'[j] # Nil)
    BY DevicesStay DEF Alike
  <1>2. /\ proc[j].pc \in {"got", "half", "written", "verifying", "done"} => device[j] # Nil
        /\ Mine(j, proc[j].pc, file[Machine[j]]) \/ \E k \in Others(j) : Met(j, k)
    BY DEF PairBound
  <1>3. CASE \E k \in Others(j) : Met(j, k)
    <2>1. \E k \in Others(j) : Met(j, k)'
      BY <1>3, MetStays DEF Others
    <2> QED BY <1>1, <1>2, <2>1
  <1>4. CASE Mine(j, proc[j].pc, file[Machine[j]]) /\ file'[Machine[j]] = file[Machine[j]]
    BY <1>1, <1>2, <1>4
  <1>5. CASE Mine(j, proc[j].pc, file[Machine[j]]) /\ file'[Machine[j]] # file[Machine[j]]
    <2>1. Writes(i) /\ Machine[j] = Machine[i] /\ proc[i].pc \notin Rest
      <3>1. Machine[j] \in Machines
        BY EnrollmentAssumption
      <3> QED BY <1>5, <3>1 DEF Still, Writes, Rest
    <2>2. CASE proc[j].pc \in {"half", "written", "verifying", "done"}
      <3>1. Owner(Machine[j], j)
        BY <1>5, <2>2 DEF Owner, Mine
      <3>2. Met(j, i)
        BY <2>1, <3>1 DEF RunBound
      <3>3. Met(j, i)' /\ i \in Others(j)
        BY <2>1, <3>2, MetStays DEF Others
      <3> QED BY <1>1, <1>2, <3>3
    <2>3. CASE proc[j].pc \notin {"half", "written", "verifying", "done"}
      BY <1>1, <1>2, <2>3 DEF Mine
    <2> QED BY <2>2, <2>3
  <1> QED BY <1>2, <1>3, <1>4, <1>5

LEMMA NextFiles ==
  ASSUME Bound, RunBound, PairBound, FileBound, Next, NEW i \in Installs, Still(i) \/ Writes(i)
  PROVE  FileBound'
  <1> SUFFICES ASSUME NEW m \in Machines, NEW a \in Installs
               PROVE  /\ Owner(m, a)' => Machine[a] = m /\ device'[a] # Nil
                      /\ \A b \in Installs : file'[m].credential = <<a, 0>> /\ file'[m].identity = b
                                             => a = b \/ Met(a, b)'
    BY DEF FileBound
  <1>1. ASSUME Owner(m, a)' PROVE Machine[a] = m /\ device'[a] # Nil
    <2>1. Owner(m, a) \/ (a = i /\ m = Machine[i] /\ proc[i].pc \in {"got", "half"})
      BY <1>1, OwnersStep DEF Owner
    <2>2. Machine[a] = m /\ device[a] # Nil
      BY <2>1 DEF FileBound, PairBound
    <2> QED BY <2>2, DevicesStay
  <1>2. ASSUME NEW b \in Installs, file'[m].credential = <<a, 0>>, file'[m].identity = b, a # b
        PROVE  Met(a, b)'
    <2>1. CASE file[m].credential = <<a, 0>> /\ file[m].identity = b
      <3>1. Met(a, b)
        BY <1>2, <2>1 DEF FileBound
      <3> QED BY <3>1, MetStays
    <2>2. CASE a = i /\ m = Machine[i] /\ proc[i].pc = "got" /\ file[m].identity = b
      <3>1. Owner(m, b) /\ Machine[b] = m
        BY <2>2 DEF Owner, FileBound
      <3>2. Met(b, a)
        BY <1>2, <2>2, <3>1 DEF RunBound, Rest
      <3>3. Met(a, b)
        BY <3>2 DEF Met
      <3> QED BY <3>3, MetStays
    <2>3. CASE b = i /\ m = Machine[i] /\ proc[i].pc = "half" /\ file[m].credential = <<a, 0>>
      <3>1. Owner(m, a) /\ Machine[a] = m
        BY <2>3 DEF Owner, FileBound
      <3>2. Met(a, b)
        BY <1>2, <2>3, <3>1 DEF RunBound, Rest
      <3> QED BY <3>2, MetStays
    <2>4. /\ file[m].credential = <<a, 0>> \/ (/\ a = i /\ m = Machine[i] /\ proc[i].pc = "got"
                                               /\ file'[m].identity = file[m].identity)
          /\ file[m].identity = b \/ (/\ b = i /\ m = Machine[i] /\ proc[i].pc = "half"
                                      /\ file'[m].credential = file[m].credential)
      BY <1>2, OwnersStep
    <2> QED BY <1>2, <2>1, <2>2, <2>3, <2>4
  <1> QED BY <1>1, <1>2

LEMMA NextPair ==
  Bound /\ RunBound /\ PairBound /\ FileBound /\ [Next]_vars => RunBound' /\ PairBound' /\ FileBound'
  <1> SUFFICES ASSUME Bound, RunBound, PairBound, FileBound, [Next]_vars
               PROVE  RunBound' /\ PairBound' /\ FileBound'
    OBVIOUS
  <1>1. ASSUME Next, NEW i \in Installs, Alike(i), Still(i) \/ Writes(i)
        PROVE  RunBound' /\ PairBound' /\ FileBound'
    <2>1. RunBound' /\ FileBound'
      BY <1>1, NextRun, NextFiles
    <2>2. \A j \in Installs :
            /\ proc'[j].pc \in {"got", "half", "written", "verifying", "done"} => device'[j] # Nil
            /\ Mine(j, proc'[j].pc, file'[Machine[j]]) \/ \E k \in Others(j) : Met(j, k)'
      <3>1. \A j \in Installs : j # i =>
              /\ proc'[j].pc \in {"got", "half", "written", "verifying", "done"} => device'[j] # Nil
              /\ Mine(j, proc'[j].pc, file'[Machine[j]]) \/ \E k \in Others(j) : Met(j, k)'
        BY <1>1, OtherPair
      <3>2. /\ proc'[i].pc \in {"got", "half", "written", "verifying", "done"} => device'[i] # Nil
            /\ Mine(i, proc'[i].pc, file'[Machine[i]]) \/ \E k \in Others(i) : Met(i, k)'
        BY <1>1, MoverPair
      <3> QED BY <3>1, <3>2, Zenon
    <2> QED BY <2>1, <2>2 DEF PairBound
  <1>2. CASE Next /\ proc' = proc /\ file' = file
    <2>1. ASSUME NEW i \in Installs PROVE Alike(i) /\ Still(i)
      BY <1>2 DEF Alike, Still
    <2>2. CASE Installs = {}
      BY <2>2 DEF RunBound, PairBound, FileBound
    <2>3. CASE Installs # {}
      BY <1>1, <1>2, <2>1, <2>3
    <2> QED BY <2>2, <2>3
  <1>3. CASE UNCHANGED vars
    BY <1>3 DEF vars, RunBound, PairBound, FileBound, Owner, Met
  <1> QED BY <1>1, <1>2, <1>3, OneTurn

LEMMA PairIsOwn == TypeOK /\ PairBound /\ FileBound => OwnPair
  <1> SUFFICES ASSUME TypeOK, PairBound, FileBound PROVE OwnPair
    OBVIOUS
  <1>1. ASSUME NEW m \in Machines, file[m].credential # Nil, file[m].identity # Nil
        PROVE  LET a == file[m].credential[1]
                   b == file[m].identity
               IN  device[a] # Nil /\ device[b] # Nil /\ (a = b \/ Met(a, b))
    <2>1. PICK a \in Installs : file[m].credential = <<a, 0>>
      BY <1>1 DEF TypeOK, Credential
    <2>2. PICK b \in Installs : file[m].identity = b
      BY <1>1 DEF TypeOK
    <2>3. device[a] # Nil /\ device[b] # Nil /\ (a = b \/ Met(a, b))
      BY <2>1, <2>2 DEF FileBound, Owner
    <2>4. file[m].credential[1] = a
      BY <2>1
    <2> QED BY <2>2, <2>3, <2>4, Zenon
  <1>2. ASSUME NEW i \in Installs, proc[i].pc \in {"verifying", "done"}
        PROVE  Proven(i) \/ \E j \in Others(i) : Met(i, j)
    <2>1. file[Machine[i]] \in FileRow
      BY EnrollmentAssumption DEF TypeOK, FileRow
    <2>2. Mine(i, proc[i].pc, file[Machine[i]]) => Proven(i)
      BY <1>2, <2>1 DEF FileRow, Proven, Mine
    <2> QED BY <2>2 DEF PairBound
  <1> QED BY <1>1, <1>2 DEF OwnPair

\* The credential and the identity on a machine belong to devices the server
\* knows and are one device's, and a client that reports success left its own
\* pair, through crashes between the two writes, failed writes and reruns:
\* unless two installs of the machine met, one of them starting while the other
\* ran or, the bearer provisioner, without a look at the files
\* (_classify_installation_state is read once, before the request).
THEOREM OwnPairAlways == Spec => []OwnPair
  <1>1. Init => RunBound /\ PairBound /\ FileBound
    BY InitPair
  <1>2. /\ Bound /\ RunBound /\ PairBound /\ FileBound /\ [Next]_vars
        => RunBound' /\ PairBound' /\ FileBound'
    BY NextPair
  <1>3. TypeOK /\ PairBound /\ FileBound => OwnPair
    BY PairIsOwn
  <1> QED BY <1>1, <1>2, <1>3, Bindings, EnrollmentTypes, PTL DEF Spec

=============================================================================
