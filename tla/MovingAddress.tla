--------------------------- MODULE MovingAddress ---------------------------
(***************************************************************************)
(* The address that moves with the active server                           *)
(* (cmd/pdh-ha/access_worker.go, vip.go, syncAccessLocked in daemon.go).   *)
(*                                                                         *)
(* Every tick tells the worker of the server whether the address belongs   *)
(* there; the worker compares, and takes or gives up the address with      *)
(* commands that last seconds.  A change of the setting replaces the       *)
(* worker; the old one gives its address up in the background.             *)
(*                                                                         *)
(* The failover kernel is reduced to the roles it gives, one active        *)
(* server at most.                                                         *)
(***************************************************************************)
EXTENDS Naturals, Sequences, FiniteSets

CONSTANTS Host,          \* the two servers
          Addresses,     \* addresses the setting may name
          Off,           \* no address is set
          MaxMoves,      \* bound: changes of roles
          MaxSettings,   \* bound: changes of the setting and slips
          MaxSlips       \* bound: commands that fail, addresses that vanish, restarts

ASSUME AddressAssumption ==
  /\ Cardinality(Host) = 2 /\ IsFiniteSet(Host) /\ Off \notin Addresses
  /\ {MaxMoves, MaxSettings, MaxSlips} \subseteq Nat

VARIABLES
  roles,     \* "active", "handing" (its own hand-over is pending), "passive"
  setting,   \* cluster.Access: the address, or Off
  crew,      \* the workers of a server, oldest first; the last one is in charge
  known,     \* the setting the server's last tick acted on (accessKey)
  card,      \* the addresses on the network card
  entry,     \* whom the devices in the network reach at an address
  second,    \* addresses whose second announcement is due
  moves, settings, slips

addrVars == <<roles, setting, crew, known, card, entry, second, moves, settings, slips>>

Peer(n) == CHOOSE m \in Host : m # n

\* A worker: its address, what it shall bring about (wanted, and whether the
\* first tick has said so), where it is, and whom it waits for.
Worker(a, w, after) == [addr |-> a, want |-> w, at |-> "waiting", after |-> after]

AddrInit ==
  /\ \E n \in {CHOOSE n \in Host : TRUE}, a \in {CHOOSE a \in Addresses : TRUE} :
       /\ roles = [m \in Host |-> IF m = n THEN "active" ELSE "passive"]
       /\ setting = a
       /\ crew = [m \in Host |-> <<[Worker(a, IF m = n THEN "here" ELSE "away", 0) EXCEPT !.at = "idle"]>>]
       /\ card = [m \in Host |-> IF m = n THEN {a} ELSE {}]
       /\ entry = [b \in Addresses |-> IF b = a THEN n ELSE Off]
  /\ known = [m \in Host |-> setting] /\ second = [m \in Host |-> {}]
  /\ moves = 0 /\ settings = 0 /\ slips = 0

\* Bound: MaxSettings counts what changes and what goes wrong together.
Room == settings + slips < MaxSettings
Slip == slips < MaxSlips /\ Room /\ slips' = slips + 1

InCharge(n) == IF crew[n] # <<>> /\ crew[n][Len(crew[n])].at \notin {"leaving", "gone"} THEN {Len(crew[n])} ELSE {}

-----------------------------------------------------------------------------
(* The tick. *)

\* Mutant: a server that hands its role over keeps the address.
AccessWant_Handing(r) == IF r # "passive" THEN "here" ELSE "away"

\* Active, and not handing the role over itself.
AccessWant(r) == IF r = "active" THEN "here" ELSE "away"

\* The worker in charge is told, in the same tick, what the new role means.
Told(n, r) == [crew EXCEPT ![n] = [i \in DOMAIN @ |->
                 IF i \in InCharge(n) THEN [@[i] EXCEPT !.want = AccessWant(r)] ELSE @[i]]]

Role(n, r) == roles' = [roles EXCEPT ![n] = r] /\ crew' = Told(n, r)

Move == moves < MaxMoves /\ moves' = moves + 1

StartHandover(n) ==
  /\ roles[n] = "active" /\ Move /\ Role(n, "handing")
  /\ UNCHANGED <<setting, known, card, entry, second, settings, slips>>

\* Fenced, demoted, or the state could not be saved.
LoseRole(n) ==
  /\ roles[n] # "passive" /\ Role(n, "passive")
  /\ IF roles[n] = "active" THEN Move ELSE UNCHANGED moves
  /\ UNCHANGED <<setting, known, card, entry, second, settings, slips>>

GainRole(n) ==
  /\ \A m \in Host : roles[m] = "passive"
  /\ Role(n, "active")
  /\ UNCHANGED <<setting, known, card, entry, second, moves, settings, slips>>

Configure ==
  /\ Room /\ settings' = settings + 1
  /\ setting' \in (Addresses \cup {Off}) \ {setting}
  /\ UNCHANGED <<roles, crew, known, card, entry, second, moves, slips>>

\* The tick finds another setting: the old worker leaves, the new one starts
\* once its predecessor has given up its address.
SyncAccess(n) ==
  LET old == [i \in DOMAIN crew[n] |->
                IF i \in InCharge(n) THEN [crew[n][i] EXCEPT !.at = "leaving"] ELSE crew[n][i]]
      new == Worker(setting, AccessWant(roles[n]), Len(old))
  IN /\ known[n] # setting /\ known' = [known EXCEPT ![n] = setting]
     /\ crew' = [crew EXCEPT ![n] = IF setting = Off THEN old ELSE Append(old, new)]
     /\ UNCHANGED <<roles, setting, card, entry, second, moves, settings, slips>>

\* pdh-ha restarts after it was killed: the address is where it was, a new
\* worker acts after the first tick.  (Killed in the middle of a Take, nobody
\* announces the address, and the devices find it when their entry expires;
\* killed while an old worker leaves, the old address stays on the card.)
Taking(n) == \E i \in DOMAIN crew[n] : crew[n][i].at \in {"probe", "add", "announce"}

RestartHa(n) ==
  /\ Slip /\ ~Taking(n) /\ second[n] = {} /\ \A i \in DOMAIN crew[n] : crew[n][i].at # "leaving"
  /\ roles' = [roles EXCEPT ![n] = "passive"]
  /\ crew' = [crew EXCEPT ![n] = IF known[n] = Off THEN <<>> ELSE <<Worker(known[n], "unset", 0)>>]
  /\ second' = [second EXCEPT ![n] = {}]
  /\ UNCHANGED <<setting, known, card, entry, moves, settings>>

FirstTick(n) ==
  /\ \E i \in InCharge(n) : crew[n][i].want = "unset"
  /\ Role(n, roles[n])
  /\ UNCHANGED <<setting, known, card, entry, second, moves, settings, slips>>

-----------------------------------------------------------------------------
(* The worker. *)

At(n, i, s) == crew' = [crew EXCEPT ![n][i].at = s]
Free(n, i) == IF crew[n][i].after = 0 THEN TRUE ELSE crew[n][crew[n][i].after].at = "gone"

Begin(n, i) ==
  /\ crew[n][i].at = "waiting" /\ Free(n, i) /\ At(n, i, "idle")
  /\ UNCHANGED <<card, entry, second, slips>>

\* step: read what is wanted, then what is there.
Compare(n, i) ==
  LET w == crew[n][i]
  IN /\ w.at = "idle"
     /\ \/ w.want = "here" /\ w.addr \notin card[n] /\ At(n, i, "probe")
        \/ w.want = "away" /\ w.addr \in card[n] /\ At(n, i, "release")
     /\ UNCHANGED <<card, entry, second, slips>>

\* Take: nobody may answer at the address; a broken line answers nothing.
Probe(n, i) ==
  /\ crew[n][i].at = "probe"
  /\ \/ crew[n][i].addr \in card[Peer(n)] /\ At(n, i, "idle") /\ UNCHANGED slips
     \/ crew[n][i].addr \in card[Peer(n)] /\ At(n, i, "add") /\ Slip
     \/ crew[n][i].addr \notin card[Peer(n)] /\ At(n, i, "add") /\ UNCHANGED slips
  /\ UNCHANGED <<card, entry, second>>

Add(n, i) ==
  /\ crew[n][i].at = "add"
  /\ \/ card' = [card EXCEPT ![n] = @ \cup {crew[n][i].addr}] /\ At(n, i, "announce") /\ UNCHANGED slips
     \/ UNCHANGED card /\ At(n, i, "idle") /\ Slip
  /\ UNCHANGED <<entry, second>>

\* Mutant: announced without a look at the card.
Heard_Always(n, a) == entry' = [entry EXCEPT ![a] = n]

\* The announcement is heard only from a server that has the address; the
\* second round follows after five seconds.
Heard(n, a) == entry' = [entry EXCEPT ![a] = IF a \in card[n] THEN n ELSE @]

Announce(n, i) ==
  LET a == crew[n][i].addr
  IN /\ crew[n][i].at = "announce" /\ Heard(n, a) /\ At(n, i, "idle")
     /\ second' = [second EXCEPT ![n] = @ \cup {a}]
     /\ UNCHANGED <<card, slips>>

Release(n, i) ==
  /\ crew[n][i].at = "release" /\ At(n, i, "idle")
  /\ \/ card' = [card EXCEPT ![n] = @ \ {crew[n][i].addr}] /\ UNCHANGED slips
     \/ UNCHANGED card /\ Slip
  /\ UNCHANGED <<entry, second>>

\* The worker was stopped, whatever it was doing; release looks at the card.
Leave(n, i) ==
  /\ crew[n][i].at = "leaving" /\ At(n, i, "gone")
  /\ card' = [card EXCEPT ![n] = @ \ {crew[n][i].addr}]
  /\ UNCHANGED <<entry, second, slips>>

\* Five seconds are longer than a Take of the other server, and than the own
\* worker needs to give up an address no longer wanted.
Settled(n, w) == w.at = "gone" \/ (w.at = "idle" /\ (w.want = "away" => w.addr \notin card[n]))

SecondRound(n) ==
  /\ ~Taking(Peer(n)) /\ \A i \in DOMAIN crew[n] : Settled(n, crew[n][i])
  /\ \E a \in second[n] : Heard(n, a) /\ second' = [second EXCEPT ![n] = @ \ {a}]
  /\ UNCHANGED <<crew, card, slips>>

\* A network service sets the card anew.
Vanish(n) ==
  /\ card[n] # {} /\ Slip /\ card' = [card EXCEPT ![n] = {}]
  /\ UNCHANGED <<crew, entry, second>>

Work(n) == \E i \in DOMAIN crew[n] :
  \/ Begin(n, i) \/ Compare(n, i) \/ Probe(n, i) \/ Add(n, i)
  \/ Announce(n, i) \/ Release(n, i) \/ Leave(n, i)

Tick(n) == StartHandover(n) \/ LoseRole(n) \/ GainRole(n) \/ SyncAccess(n) \/ RestartHa(n) \/ FirstTick(n)

AddrNext ==
  \/ \E n \in Host : Tick(n)
  \/ Configure
  \/ /\ \E n \in Host : Work(n) \/ SecondRound(n) \/ Vanish(n)
     /\ UNCHANGED <<roles, setting, known, moves, settings>>

\* Ticks come, workers go on, an unserved role is taken.
KernelRests == UNCHANGED <<roles, setting, known, moves, settings>>
SettingArrives(n) == SyncAccess(n) \/ FirstTick(n)
WorkGoesOn(n) == Work(n) /\ KernelRests
SecondGoesOn(n) == SecondRound(n) /\ KernelRests

AddrFair ==
  /\ \A n \in Host : WF_addrVars(SettingArrives(n)) /\ WF_addrVars(WorkGoesOn(n)) /\ WF_addrVars(SecondGoesOn(n))
  /\ WF_addrVars(\E n \in Host : GainRole(n))

AddrSpec == AddrInit /\ [][AddrNext]_addrVars /\ AddrFair

-----------------------------------------------------------------------------
(* Properties. *)

AddrTypeOK ==
  /\ roles \in [Host -> {"active", "handing", "passive"}]
  /\ setting \in Addresses \cup {Off} /\ known \in [Host -> Addresses \cup {Off}]
  /\ card \in [Host -> SUBSET Addresses] /\ second \in [Host -> SUBSET Addresses]
  /\ entry \in [Addresses -> Host \cup {Off}]
  /\ \A n \in Host : \A i \in DOMAIN crew[n] :
       /\ crew[n][i].addr \in Addresses /\ crew[n][i].want \in {"here", "away", "unset"}
       /\ crew[n][i].at \in {"waiting", "idle", "probe", "add", "announce", "release", "leaving", "gone"}

\* Whatever roles and settings did while commands were running, in the end the
\* address that is set lies on the active server's card and on no other, and an
\* address no longer set lies nowhere.
AddressSettles ==
  <>[]\A n \in Host, a \in Addresses : a \in card[n] <=> a = setting /\ roles[n] = "active"

\* The devices in the network end up at the server that has the address, also
\* when the old server announced it a last time after the new one.
DevicesFollow ==
  <>[]\A n \in Host : roles[n] = "active" /\ setting # Off => entry[setting] = n
=============================================================================
