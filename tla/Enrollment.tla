----------------------------- MODULE Enrollment -----------------------------
(***************************************************************************)
(* Enrollment of machines: campaigns, install claims, Windows pre-         *)
(* enrollment requests with their administrator decisions, the /enroll     *)
(* transaction with its retry envelope, credential rotation, and the two   *)
(* clients: Windows Setup with its provisioner and the Linux first-boot    *)
(* bootstrap.                                                              *)
(*                                                                         *)
(* An install is one installation id.  A Windows Setup run draws a fresh   *)
(* one (and a fresh request capability), a systemd host keeps the one its  *)
(* package was given; the hardware fingerprint is the machine.  Since the  *)
(* device identifier is a digest of the installation id and the            *)
(* fingerprint, devices are indexed by installs.  A start of a client      *)
(* draws a delivery nonce: it is identified with the number of the start.  *)
(* Deadlines (of a campaign, a claim, a request, a retry envelope) are     *)
(* flags that an action of their own raises.                               *)
(* Source networks and installer releases are those every campaign admits. *)
(***************************************************************************)
EXTENDS Naturals, FiniteSets

CONSTANTS Campaigns,      \* campaign rows an administrator may create
          Installs,       \* installation ids
          Claims,         \* install claims that may be issued
          Machines,       \* machines, each with its hardware fingerprint
          Machine,        \* the machine of an install
          Kind,           \* "setup", "material" or "systemd": who runs it
          Nil,
          MaxUses,        \* bound on a campaign's max_uses
          MaxStarts,      \* bound on the starts of one client
          RetryAttempts,  \* BootstrapConfig.retry_attempts
          MaxRotations    \* bound on the rotations of one credential

ASSUME EnrollmentAssumption ==
  /\ Machine \in [Installs -> Machines]
  /\ Kind \in [Installs -> {"setup", "material", "systemd"}]
  /\ IsFiniteSet(Installs)
  /\ MaxUses \in Nat \ {0} /\ MaxStarts \in Nat \ {0}
  /\ RetryAttempts \in 1 .. 3 /\ MaxRotations \in Nat
  /\ Nil \notin Campaigns \cup Installs \cup Claims \cup Nat

\* The installation id of a systemd host is in its package's configuration, so
\* a host has one.
ASSUME HostAssumption ==
  \A i, j \in Installs : Kind[i] = "systemd" /\ i # j => Machine[i] # Machine[j]

VARIABLES
  campaign,  \* EnrollmentCampaign rows
  request,   \* EnrollmentRequest rows, by the Setup run that created them
  claim,     \* EnrollmentClaim rows
  device,    \* Device, DeviceCredential, EnrollmentRetryEnvelope, enrolled event
  calls,     \* /enroll requests on their way to the server or in its hands
  proc,      \* the client process of every install
  file       \* device-credential and enrollment-identity files of a machine

server == <<campaign, request, claim, device>>
vars == <<campaign, request, claim, device, calls, proc, file>>

PlatformOf(i) == IF Kind[i] = "systemd" THEN "linux" ELSE "windows"

Statuses == {"auto_approved", "waiting_approval", "review_required", "denied",
             "approved", "claim_issued", "device_registered", "waiting_wss",
             "completed", "expired"}
Refused == {"denied", "expired"}
MayBeDenied == {"auto_approved", "waiting_approval", "review_required",
                "approved", "claim_issued"}

\* The field beside is history: the installs of this machine whose writes the
\* look at the files could not show.
Idle == [pc |-> "idle", start |-> 0, attempt |-> 0, campaign |-> Nil, claim |-> Nil,
         beside |-> {}]

Init ==
  /\ campaign = [c \in Campaigns |-> Nil]
  /\ request = [i \in Installs |-> Nil]
  /\ claim = [k \in Claims |-> Nil]
  /\ device = [i \in Installs |-> Nil]
  /\ calls = {}
  /\ proc = [i \in Installs |-> Idle]
  /\ file = [m \in Machines |-> [credential |-> Nil, identity |-> Nil]]

-----------------------------------------------------------------------------
(* Campaigns *)

\* campaign_request_matches
Matches(c, platform) == /\ campaign[c] # Nil
                        /\ ~campaign[c].revoked
                        /\ ~campaign[c].expired
                        /\ campaign[c].platform = platform

\* _campaign_allows and selected_campaign_still_allows_request
Allows(c, platform) == /\ Matches(c, platform)
                       /\ campaign[c].uses < campaign[c].max

create_campaign(c, platform, mode, max) ==
  /\ campaign[c] = Nil
  /\ campaign' = [campaign EXCEPT ![c] =
       [platform |-> platform, mode |-> mode, max |-> max, uses |-> 0,
        revoked |-> FALSE, expired |-> FALSE]]
  /\ UNCHANGED <<request, claim, device, calls, proc, file>>

\* A new limit may not be below the uses; a new expiry is in the future.
update_campaign(c, max) ==
  /\ campaign[c] # Nil
  /\ max >= campaign[c].uses
  /\ campaign' = [campaign EXCEPT ![c].max = max, ![c].expired = FALSE]
  /\ UNCHANGED <<request, claim, device, calls, proc, file>>

revoke_campaign(c) ==
  /\ campaign[c] # Nil
  /\ campaign' = [campaign EXCEPT ![c].revoked = TRUE]
  /\ UNCHANGED <<request, claim, device, calls, proc, file>>

-----------------------------------------------------------------------------
(* Windows pre-enrollment requests *)

\* An earlier claim of this fingerprint that ended in a device.
Conflict(m) == \E k \in Claims : /\ claim[k] # Nil /\ claim[k].device # Nil
                                 /\ Machine[claim[k].device] = m

evaluate_campaign_selection(m) ==
  LET eligible == {c \in Campaigns : Allows(c, "windows")}
      one == CHOOSE c \in eligible : TRUE
  IN  IF eligible = {} THEN [status |-> "denied", campaign |-> Nil]
      ELSE IF Cardinality(eligible) # 1
           THEN [status |-> "review_required", campaign |-> Nil]
      ELSE [status |-> IF Conflict(m) THEN "review_required"
                       ELSE IF campaign[one].mode = "manual" THEN "waiting_approval"
                       ELSE "auto_approved",
            campaign |-> one]

\* Where Setup goes with the status of an answer; no answer ends it.
AfterStatus(status, answered) ==
  IF ~answered THEN "over"
  ELSE CASE status \in {"waiting_approval", "review_required"} -> "polling"
         [] status \in {"auto_approved", "approved"} -> "approved"
         [] OTHER -> "over"

\* _classify_installation_state, _existing_credential_state
\* Mutant: one file of the pair is enough.
FilesEither(m) == IF file[m].credential = Nil /\ file[m].identity = Nil THEN "clean"
                  ELSE "valid"
Files(m) == IF file[m].credential = Nil /\ file[m].identity = Nil THEN "clean"
            ELSE IF file[m].credential = Nil \/ file[m].identity = Nil
            THEN "conflicted" ELSE "valid"

Running(i) == proc[i].pc \notin {"idle", "over", "denied", "done"}

Others(i) == {j \in Installs \ {i} : Machine[j] = Machine[i]}

\* Setup classifies the machine's files once, at its start: an enrolled machine
\* needs nothing, a half-written one is refused, on a clean one Setup installs
\* the service and asks for enrollment.  Nothing keeps another run off the
\* machine, then or later.
StartSetup(i) ==
  /\ Kind[i] = "setup"
  /\ proc[i].pc = "idle"
  /\ proc' = [proc EXCEPT ![i] =
       [@ EXCEPT !.pc = IF Files(Machine[i]) = "clean" THEN "asking" ELSE "over",
                 !.beside = proc[i].beside \cup {j \in Others(i) : Running(j)}]]
  /\ UNCHANGED <<server, calls, file>>

create_enrollment_request(i, answered) ==
  /\ proc[i].pc = "asking"
  /\ LET s == evaluate_campaign_selection(Machine[i])
     IN  /\ request' = [request EXCEPT ![i] =
              [status |-> s.status, campaign |-> s.campaign, late |-> FALSE]]
         /\ proc' = [proc EXCEPT ![i].pc = AfterStatus(s.status, answered)]
  /\ UNCHANGED <<campaign, claim, device, calls, file>>

enrollment_request_status(i, answered) ==
  /\ proc[i].pc = "polling"
  /\ LET r == request[i]
         status == IF r.late /\ r.status \notin Refused THEN "expired" ELSE r.status
     IN  /\ request' = [request EXCEPT ![i].status = status]
         /\ proc' = [proc EXCEPT ![i].pc = AfterStatus(status, answered)]
  /\ UNCHANGED <<campaign, claim, device, calls, file>>

approve_request(i) ==
  /\ request[i] # Nil
  /\ request[i].campaign # Nil
  /\ request[i].status \in {"waiting_approval", "review_required"}
  /\ request' = [request EXCEPT ![i].status =
       IF Allows(request[i].campaign, "windows") THEN "approved" ELSE "denied"]
  /\ UNCHANGED <<campaign, claim, device, calls, proc, file>>

deny_request(i) ==
  /\ request[i] # Nil
  /\ request[i].status \in MayBeDenied
  /\ request' = [request EXCEPT ![i].status = "denied"]
  /\ UNCHANGED <<campaign, claim, device, calls, proc, file>>

NewClaim(i, c, byRequest) ==
  [campaign |-> c, inst |-> i, request |-> byRequest, device |-> Nil, late |-> FALSE]

\* The one call of Setup for its claim.  Any refusal or a lost answer ends it.
handoff_enrollment_request_claim(i, k, answered) ==
  /\ proc[i].pc = "approved"
  /\ claim[k] = Nil
  /\ LET r == request[i]
     IN  IF r.late
         THEN /\ request' = [request EXCEPT ![i].status =
                   IF @ \in Refused THEN @ ELSE "expired"]
              /\ proc' = [proc EXCEPT ![i].pc = "over"]
              /\ UNCHANGED claim
         ELSE IF r.status \notin {"auto_approved", "approved"}
         THEN /\ proc' = [proc EXCEPT ![i].pc = "over"]
              /\ UNCHANGED <<request, claim>>
         ELSE IF ~Allows(r.campaign, "windows")
         THEN /\ request' = [request EXCEPT ![i].status = "denied"]
              /\ proc' = [proc EXCEPT ![i].pc = "over"]
              /\ UNCHANGED claim
         ELSE /\ request' = [request EXCEPT ![i].status = "claim_issued"]
              /\ claim' = [claim EXCEPT ![k] = NewClaim(i, r.campaign, TRUE)]
              /\ proc' = [proc EXCEPT ![i] =
                   IF answered THEN [@ EXCEPT !.pc = "claimed", !.claim = k,
                                              !.campaign = r.campaign]
                   ELSE [@ EXCEPT !.pc = "over"]]
  /\ UNCHANGED <<campaign, device, calls, file>>

\* The provisioning service asks for a claim for a host it installs.
issue_provisioning_install_claim(i, k, c) ==
  /\ Kind[i] = "systemd"
  /\ claim[k] = Nil
  /\ Allows(c, "linux")
  /\ claim' = [claim EXCEPT ![k] = NewClaim(i, c, FALSE)]
  /\ UNCHANGED <<campaign, request, device, calls, proc, file>>

-----------------------------------------------------------------------------
(* The /enroll transaction and the retry envelope *)

\* The retry envelope holds the first token; _load_delivery hands it out
\* again only while it is the credential in force.
Recoverable(d) == /\ d.receipt # Nil /\ ~d.late
                  /\ d.pending = Nil /\ d.token = 0
                  /\ Matches(d.campaign, campaign[d.campaign].platform)

\* The checks every call passes, a repeated one included.
\* Mutant: the campaign must have room for a repeated call too.
AdmittedWithRoom(call) ==
  /\ Allows(call.campaign, PlatformOf(call.inst))
  /\ call.claim # Nil => ~claim[call.claim].late
Admitted(call) ==
  /\ Matches(call.campaign, PlatformOf(call.inst))
  /\ call.claim # Nil => ~claim[call.claim].late

\* mark_request_enrolling: a transition from claim_issued only
\* Mutant: from any status.
RequestReadyAnyStatus(call) == TRUE
RequestReady(call) ==
  call.claim # Nil /\ claim[call.claim].request => request[call.inst].status = "claim_issued"

EnrollOutcome(call) ==
  LET i == call.inst
      k == call.claim
      d == device[i]
  IN  IF ~Admitted(call) THEN "denied"
      ELSE IF d # Nil
      THEN IF /\ d.campaign = call.campaign /\ d.claim = k
              /\ k = Nil \/ claim[k].device = i
              /\ d.receipt = call.start
           THEN IF d.late THEN "destroyed"
                ELSE IF Recoverable(d) THEN "again" ELSE "denied"
           ELSE "denied"
      ELSE IF ~Allows(call.campaign, PlatformOf(i)) \/ (k # Nil /\ claim[k].device # Nil)
      THEN "denied"
      ELSE IF ~RequestReady(call) THEN "error"
      ELSE "created"

\* Mutant: the claim is not bound to the device.
ConsumedUnlinked(k, i) == claim
Consumed(k, i) == IF k = Nil THEN claim ELSE [claim EXCEPT ![k].device = i]

\* The envelope of an expired delivery is destroyed; a first enrollment
\* counts a use, consumes the claim, registers the request and creates the
\* device with its credential, envelope and event, all in one transaction.
EnrollEffect(call, outcome) ==
  LET i == call.inst
      k == call.claim
  IN  CASE outcome = "created" ->
             /\ campaign' = [campaign EXCEPT ![call.campaign].uses = @ + 1]
             /\ claim' = Consumed(k, i)
             /\ request' = IF k = Nil \/ ~claim[k].request THEN request
                           ELSE [request EXCEPT ![i].status = "device_registered"]
             /\ device' = [device EXCEPT ![i] =
                  [campaign |-> call.campaign, claim |-> k, receipt |-> call.start,
                   late |-> FALSE, token |-> 0, pending |-> Nil]]
        [] outcome = "destroyed" ->
             /\ device' = [device EXCEPT ![i].receipt = Nil]
             /\ UNCHANGED <<campaign, request, claim>>
        [] OTHER -> UNCHANGED server

Awaits(call) == /\ proc[call.inst].pc = "calling"
                /\ proc[call.inst].start = call.start
                /\ proc[call.inst].attempt = call.attempt

\* A server error is to the client what a lost answer is: see Timeout.
AfterEnroll(p, outcome) ==
  CASE outcome \in {"created", "again"} -> [p EXCEPT !.pc = "got"]
    [] outcome \in {"denied", "destroyed"} -> [p EXCEPT !.pc = "denied"]
    [] OTHER -> p

\* The server runs the transaction; the answer arrives, or it is lost or late.
enroll_agent(call, answered) ==
  /\ call \in calls
  /\ answered => Awaits(call)
  /\ LET outcome == EnrollOutcome(call)
     IN  /\ EnrollEffect(call, outcome)
         /\ proc' = IF answered
                    THEN [proc EXCEPT ![call.inst] = AfterEnroll(@, outcome)]
                    ELSE proc
  /\ calls' = calls \ {call}
  /\ UNCHANGED file

\* The acknowledgement route: no client in the repository calls it yet.
acknowledge_enrollment_delivery(i) ==
  /\ device[i] # Nil
  /\ file[Machine[i]].credential = <<i, 0>>
  /\ Recoverable(device[i])
  /\ device' = [device EXCEPT ![i].receipt = Nil]
  /\ UNCHANGED <<campaign, request, claim, calls, proc, file>>

\* The worker, and the retry and acknowledgement routes on a late envelope.
cleanup_expired_retry_envelopes(i) ==
  /\ device[i] # Nil
  /\ device[i].receipt # Nil
  /\ device[i].late
  /\ device' = [device EXCEPT ![i].receipt = Nil]
  /\ UNCHANGED <<campaign, request, claim, calls, proc, file>>

\* The holder of the current token asks for the next one.
rotate_device_credential(i) ==
  /\ device[i] # Nil
  /\ device[i].token < MaxRotations
  /\ file[Machine[i]].credential = <<i, 0>>
  /\ device[i].pending = Nil
  /\ device' = [device EXCEPT ![i].pending = device[i].token + 1]
  /\ UNCHANGED <<campaign, request, claim, calls, proc, file>>

activate_device_credential(i) ==
  /\ device[i] # Nil
  /\ device[i].pending # Nil
  /\ device' = [device EXCEPT ![i].token = device[i].pending, ![i].pending = Nil]
  /\ UNCHANGED <<campaign, request, claim, calls, proc, file>>

-----------------------------------------------------------------------------
(* Deadlines.  A claim's is at most its request's and its campaign's; a      *)
(* request's is read no more once the request is decided for good.           *)

ClaimExpires(k) ==
  /\ claim[k] # Nil /\ ~claim[k].late
  /\ claim' = [claim EXCEPT ![k].late = TRUE]
  /\ UNCHANGED <<campaign, request, device, calls, proc, file>>

RequestExpires(i) ==
  /\ request[i] # Nil /\ ~request[i].late /\ request[i].status \in MayBeDenied
  /\ request' = [request EXCEPT ![i].late = TRUE]
  /\ claim' = [k \in Claims |->
       IF claim[k] # Nil /\ claim[k].request /\ claim[k].inst = i
       THEN [claim[k] EXCEPT !.late = TRUE] ELSE claim[k]]
  /\ UNCHANGED <<campaign, device, calls, proc, file>>

CampaignExpires(c) ==
  /\ campaign[c] # Nil /\ ~campaign[c].expired
  /\ campaign' = [campaign EXCEPT ![c].expired = TRUE]
  /\ claim' = [k \in Claims |->
       IF claim[k] # Nil /\ claim[k].campaign = c
       THEN [claim[k] EXCEPT !.late = TRUE] ELSE claim[k]]
  /\ UNCHANGED <<request, device, calls, proc, file>>

EnvelopeExpires(i) ==
  /\ device[i] # Nil /\ device[i].receipt # Nil /\ ~device[i].late
  /\ device' = [device EXCEPT ![i].late = TRUE]
  /\ UNCHANGED <<campaign, request, claim, calls, proc, file>>

-----------------------------------------------------------------------------
(* The clients *)

Call(i, p) == [inst |-> i, start |-> p.start, attempt |-> p.attempt,
               campaign |-> p.campaign, claim |-> p.claim]

Send(i, p) == /\ proc' = [proc EXCEPT ![i] = p]
              /\ calls' = calls \cup {Call(i, p)}

Fresh(p) == [p EXCEPT !.pc = "calling", !.start = @ + 1, !.attempt = 1]

\* WindowsProvisioner._provision with the claim Setup pipes to it.
ProvisionClaim(i) ==
  /\ proc[i].pc = "claimed"
  /\ Send(i, Fresh(proc[i]))
  /\ UNCHANGED <<server, file>>

\* provision_from_protected_file: the provisioner run with a campaign bearer.
\* It never looks at the files that are there.
ProvisionMaterial(i, c) ==
  /\ Kind[i] = "material"
  /\ proc[i].pc = "idle"
  /\ campaign[c] # Nil
  /\ Send(i, Fresh([proc[i] EXCEPT !.campaign = c,
                                   !.beside = proc[i].beside \cup Others(i)]))
  /\ UNCHANGED <<server, file>>

\* bootstrap_enrollment up to its first attempt: an enrolled host goes on,
\* half a pair of files is refused, otherwise the claim is read.
bootstrap_enrollment(i, k) ==
  /\ Kind[i] = "systemd"
  /\ proc[i].pc = "idle"
  /\ proc[i].start < MaxStarts
  /\ claim[k] # Nil /\ claim[k].inst = i
  /\ IF Files(Machine[i]) = "clean"
     THEN Send(i, Fresh([proc[i] EXCEPT !.claim = k, !.campaign = claim[k].campaign]))
     ELSE /\ proc' = [proc EXCEPT ![i].pc =
                 IF Files(Machine[i]) = "valid" THEN "done" ELSE "denied"]
          /\ UNCHANGED calls
  /\ UNCHANGED <<server, file>>

MayRetry(i) == Kind[i] = "systemd" /\ proc[i].attempt < RetryAttempts

\* No usable answer in time: the bootstrap sends the same request again, up
\* to its budget, and then exits to be restarted; the provisioner fails.
Timeout(i) ==
  /\ proc[i].pc = "calling"
  /\ IF MayRetry(i)
     THEN Send(i, [proc[i] EXCEPT !.attempt = @ + 1])
     ELSE /\ proc' = [proc EXCEPT ![i].pc = IF Kind[i] = "systemd" THEN "idle" ELSE "over"]
          /\ UNCHANGED calls
  /\ UNCHANGED <<server, file>>

WriteCredential(i) ==
  /\ proc[i].pc = "got"
  /\ file' = [file EXCEPT ![Machine[i]].credential = <<i, 0>>]
  /\ proc' = [proc EXCEPT ![i].pc = "half"]
  /\ UNCHANGED <<server, calls>>

WriteIdentity(i) ==
  /\ proc[i].pc = "half"
  /\ file' = [file EXCEPT ![Machine[i]].identity = i]
  /\ proc' = [proc EXCEPT ![i].pc = "written"]
  /\ UNCHANGED <<server, calls>>

\* _discard_unverified_new_credential and _identity: only its own payloads
Discard(i) ==
  LET m == Machine[i]
  IN  file' = [file EXCEPT
        ![m].credential = IF @ = <<i, 0>> THEN Nil ELSE @,
        ![m].identity = IF @ = i THEN Nil ELSE @]

\* A write fails: the bootstrap discards what it wrote, the provisioner does not.
WriteFails(i) ==
  /\ proc[i].pc \in {"got", "half"}
  /\ IF Kind[i] = "systemd"
     THEN Discard(i) /\ proc' = [proc EXCEPT ![i].pc = "idle"]
     ELSE UNCHANGED file /\ proc' = [proc EXCEPT ![i].pc = "over"]
  /\ UNCHANGED <<server, calls>>

\* Both records are read back before the service starts and the claim goes.
Proven(i) == file[Machine[i]] = [credential |-> <<i, 0>>, identity |-> i]

ReadBack(i) ==
  /\ proc[i].pc = "written"
  /\ IF Proven(i)
     THEN /\ proc' = [proc EXCEPT ![i].pc = IF Kind[i] = "setup" THEN "verifying" ELSE "done"]
          /\ UNCHANGED file
     ELSE IF Kind[i] = "systemd"
     THEN Discard(i) /\ proc' = [proc EXCEPT ![i].pc = "idle"]
     ELSE UNCHANGED file /\ proc' = [proc EXCEPT ![i].pc = "over"]
  /\ UNCHANGED <<server, calls>>

\* Setup polls until the started service was seen with a baseline snapshot.
verify_enrollment_completion(i, ready, answered) ==
  /\ proc[i].pc = "verifying"
  /\ LET status == IF ready THEN "completed" ELSE "waiting_wss"
     IN  /\ request' = [request EXCEPT ![i].status =
               IF @ \in {"device_registered", "waiting_wss"} THEN status ELSE @]
         /\ proc' = [proc EXCEPT ![i].pc =
               IF ~answered THEN "over"
               ELSE IF request'[i].status = "completed" THEN "done" ELSE @]
  /\ UNCHANGED <<campaign, claim, device, calls, file>>

\* The process is killed, the machine loses power, or Setup's polling time
\* is over.  systemd starts the bootstrap again.
Interrupted(i) ==
  /\ Running(i) \/ (Kind[i] = "systemd" /\ proc[i].pc = "done")
  /\ proc' = [proc EXCEPT ![i].pc = IF Kind[i] = "systemd" THEN "idle" ELSE "over"]
  /\ UNCHANGED <<server, calls, file>>

-----------------------------------------------------------------------------
Administration ==
  \/ \E c \in Campaigns, max \in 1 .. MaxUses :
       \/ \E platform \in {"windows", "linux"}, mode \in {"auto", "manual"} :
            create_campaign(c, platform, mode, max)
       \/ update_campaign(c, max)
  \/ \E c \in Campaigns : revoke_campaign(c)
  \/ \E i \in Installs : approve_request(i) \/ deny_request(i)
  \/ \E i \in Installs, k \in Claims, c \in Campaigns :
       issue_provisioning_install_claim(i, k, c)

Server ==
  \/ \E i \in Installs, answered \in BOOLEAN :
       \/ create_enrollment_request(i, answered)
       \/ enrollment_request_status(i, answered)
       \/ \E k \in Claims : handoff_enrollment_request_claim(i, k, answered)
       \/ \E ready \in BOOLEAN : verify_enrollment_completion(i, ready, answered)
  \/ \E call \in calls, answered \in BOOLEAN : enroll_agent(call, answered)
  \/ \E i \in Installs : \/ acknowledge_enrollment_delivery(i)
                         \/ cleanup_expired_retry_envelopes(i)
                         \/ rotate_device_credential(i)
                         \/ activate_device_credential(i)

Deadlines ==
  \/ \E k \in Claims : ClaimExpires(k)
  \/ \E c \in Campaigns : CampaignExpires(c)
  \/ \E i \in Installs : RequestExpires(i) \/ EnvelopeExpires(i)

Clients ==
  \E i \in Installs :
    \/ StartSetup(i)
    \/ ProvisionClaim(i)
    \/ \E c \in Campaigns : ProvisionMaterial(i, c)
    \/ \E k \in Claims : bootstrap_enrollment(i, k)
    \/ Timeout(i)
    \/ WriteCredential(i) \/ WriteIdentity(i) \/ WriteFails(i) \/ ReadBack(i)
    \/ Interrupted(i)

Next == Administration \/ Server \/ Deadlines \/ Clients

Spec == Init /\ [][Next]_vars

-----------------------------------------------------------------------------
(* Properties *)

CampaignRow == [platform : {"windows", "linux"}, mode : {"auto", "manual"},
                max : 1 .. MaxUses, uses : 0 .. MaxUses,
                revoked : BOOLEAN, expired : BOOLEAN]
RequestRow == [status : Statuses, campaign : Campaigns \cup {Nil}, late : BOOLEAN]
ClaimRow == [campaign : Campaigns, inst : Installs, request : BOOLEAN,
             device : Installs \cup {Nil}, late : BOOLEAN]
DeviceRow == [campaign : Campaigns, claim : Claims \cup {Nil},
              receipt : (1 .. MaxStarts) \cup {Nil}, late : BOOLEAN,
              token : 0 .. MaxRotations, pending : (0 .. MaxRotations) \cup {Nil}]
EnrollCall == [inst : Installs, start : 1 .. MaxStarts, attempt : 1 .. RetryAttempts,
               campaign : Campaigns, claim : Claims \cup {Nil}]
Process == [pc : {"idle", "asking", "polling", "approved", "claimed", "calling", "got", "half",
                  "written", "verifying", "denied", "over", "done"},
            start : 0 .. MaxStarts, attempt : 0 .. RetryAttempts,
            campaign : Campaigns \cup {Nil}, claim : Claims \cup {Nil},
            beside : SUBSET Installs]
Credential == Installs \X {0}

\* An absent row or file is none of the present ones.
ASSUME NilAssumption ==
  Nil \notin CampaignRow \cup RequestRow \cup ClaimRow \cup DeviceRow \cup Credential

\* Every row, call, process and file has its shape; in particular no
\* rotation goes past its bound and no campaign counts past its limit.
TypeOK ==
  /\ campaign \in [Campaigns -> CampaignRow \cup {Nil}]
  /\ request \in [Installs -> RequestRow \cup {Nil}]
  /\ claim \in [Claims -> ClaimRow \cup {Nil}]
  /\ device \in [Installs -> DeviceRow \cup {Nil}]
  /\ calls \subseteq EnrollCall
  /\ proc \in [Installs -> Process]
  /\ file \in [Machines -> [credential : Credential \cup {Nil},
                            identity : Installs \cup {Nil}]]

\* A use is counted exactly for a device, within the campaign's limit, and a
\* claim is consumed exactly by the device that presented it: whatever is
\* retried, lost, refused or decided meanwhile (reserve_campaign_use and
\* consume_install_claim inside the enroll_agent transaction).
UsesAreDevices ==
  /\ \A c \in Campaigns : campaign[c] # Nil =>
       /\ campaign[c].uses = Cardinality({i \in Installs : device[i] # Nil
                                                     /\ device[i].campaign = c})
       /\ campaign[c].uses <= campaign[c].max
  /\ \A k \in Claims, i \in Installs :
       (claim[k] # Nil /\ claim[k].device = i) <=> (device[i] # Nil /\ device[i].claim = k)

\* A request that was denied or has expired stays so and never ends in a
\* device: the decision stands even when the claim was already handed out
\* and the /enroll call is under way (mark_request_enrolling's check).
RefusedForGood ==
  [][\A i \in Installs :
       request[i] # Nil /\ request[i].status \in Refused
       => device'[i] = Nil /\ request'[i].status = request[i].status]_vars

\* One of two installs did not see the other's files when it looked: the other
\* was under way, or it did not look at all.
Met(i, j) == j \in proc[i].beside \/ i \in proc[j].beside

\* The credential and the identity on a machine belong to devices the server
\* knows and are one device's, and a client that reports success left exactly
\* its own pair, through crashes between the writes, failed writes and reruns
\* (_classify_installation_state, bootstrap_enrollment, _provision): unless two
\* installs overlapped on the machine, or one was the bearer provisioner.
\* Nothing in the code keeps those apart, and they do mix their files.
OwnPair ==
  /\ TypeOK
  /\ \A m \in Machines : (file[m].credential # Nil /\ file[m].identity # Nil) =>
       LET a == file[m].credential[1]
           b == file[m].identity
       IN  device[a] # Nil /\ device[b] # Nil /\ (a = b \/ Met(a, b))
  /\ \A i \in Installs : proc[i].pc \in {"verifying", "done"} =>
       Proven(i) \/ \E j \in Others(i) : Met(i, j)

\* A client that lost an answer and repeats its request is refused its own
\* device only when the delivery is past its time, the campaign or the claim
\* is no longer valid, or the credential was rotated: never because its own
\* first attempt used up the campaign or the claim (the existing-device
\* branch of enroll_agent).
RetryServed ==
  [][\A i \in Installs :
       LET d == device[i]
           p == proc[i]
       IN  /\ p.pc = "calling" /\ proc'[i].pc = "denied"
           /\ d # Nil /\ d.receipt = p.start
           => \/ d.late \/ d.pending # Nil \/ d.token # 0
              \/ ~Matches(d.campaign, PlatformOf(i))
              \/ d.claim # Nil /\ claim[d.claim].late]_vars

=============================================================================
