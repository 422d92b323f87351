---------------------------- MODULE MCEnrollment ----------------------------
(***************************************************************************)
(* Instances of Enrollment: Windows Setup runs w1 and w2 and the           *)
(* provisioner t1 with a campaign bearer on one machine, and the systemd   *)
(* host l1 on another.                                                     *)
(***************************************************************************)
EXTENDS Enrollment, TLC

CONSTANTS w1, w2, t1, l1, pc1, pc2, c2

MCMachine == [i \in Installs |->
                IF Kind[i] = "systemd" THEN pc2 ELSE pc1]
MCKind == [i \in Installs |->
             CASE i = t1 -> "material" [] i = l1 -> "systemd" [] OTHER -> "setup"]

\* The installs run two at a time: two Setup runs of a machine, a Setup run and
\* the Linux host, a Setup run and the bearer install.
Pairs == {{w1, w2}, {w1, l1}, {w2, l1}, {w1, t1}, {w2, t1}}

Start(run) ==
  /\ request = [i \in Installs |-> Nil]
  /\ claim = [k \in Claims |-> Nil]
  /\ device = [i \in Installs |-> Nil]
  /\ calls = {}
  /\ proc = [i \in Installs |-> IF i \in run THEN Idle ELSE [Idle EXCEPT !.pc = "over"]]
  /\ file = [m \in Machines |-> [credential |-> Nil, identity |-> Nil]]

\* One Setup run meets a second campaign beside the first.
Second == [platform |-> "windows", mode |-> "auto", max |-> 1, uses |-> 0,
           revoked |-> FALSE, expired |-> FALSE]

MCInit ==
  \/ /\ campaign = [c \in Campaigns |-> Nil]
     /\ \E run \in Pairs : Start(run)
  \/ /\ campaign = [c \in Campaigns |-> IF c = c2 THEN Second ELSE Nil]
     /\ Start({w1}) \/ Start({w2})

\* The second campaign exists from the start or never; only a device whose
\* client may repeat its call, or that replaces another, rotates its credential.
MCNext == /\ Next
          /\ campaign'[c2] = Nil <=> campaign[c2] = Nil
          /\ \A i \in {w1, w2} : device'[i] # Nil => device'[i].pending = Nil

MCSpec == MCInit /\ [][MCNext]_vars

Interchangeable == Permutations(Claims) \cup Permutations({w1, w2})

=============================================================================
