---------------------------- MODULE TeamsProofs ----------------------------
(***************************************************************************)
(* Proofs about Teams for any numbers of clients and teams and any size of *)
(* a team: teams and tees agree, ranks are fair, and a run is raced once.  *)
(*                                                                         *)
(* First what the operations on the tees and teams do, one after another,  *)
(* and that each leaves all in order (Fine); then what the steps do to the *)
(* runs, the saves and what the database is asked (TeamsIInv).             *)
(***************************************************************************)
EXTENDS Teams, FiniteSetTheorems, WellFoundedInduction, NaturalsInduction, TLAPS

(* Teams. *)

Racing == {"started", "unfinishable"}

Games ==
  [team : [Clients -> Teams], tee : [Clients -> {"out", "dead", "corpse", "alive"}],
   race : [Clients -> {"none", "started", "finished"}],
   started : [Clients -> BOOLEAN], finished : [Clients -> BOOLEAN],
   path : [Clients -> {"spawn", "start", "finish", "practice"}],
   state : [Teams -> {"empty", "open", "started", "unfinishable", "finished"}],
   locked : [Teams -> BOOLEAN], practice : [Teams -> BOOLEAN], kill : [Teams -> BOOLEAN],
   run : [Teams -> 0..MaxRuns], spoiled : [Teams -> BOOLEAN],
   ranked : [who : SUBSET Clients, run : 0..MaxRuns, spoiled : BOOLEAN, saved : BOOLEAN]]

\* what the database is asked for each team
Kind == [t \in Teams |-> result[t].kind]

\* a team is empty exactly when nobody is in it, and team 0 does not race
Peopled(h) ==
  \A t \in Teams :
    /\ t # 0 => (h.state[t] = "empty" <=> Members(h, t) = {})
    /\ h.state[t] = "empty" => ~h.locked[t] /\ ~h.practice[t] /\ ~h.kill[t]
    /\ t = 0 => h.state[t] \in {"empty", "open"} /\ ~h.locked[t] /\ ~h.practice[t] /\ ~h.spoiled[t]

\* the states of a team for which the database is asked k: all may have left, and a team that is
\* being saved finishes when a member goes to the spectators
Waits(k) ==
  IF k = "save" THEN {"empty", "started", "finished"} ELSE {"empty", "open"}

\* a team that waits for the database is in such a state, without practice
Waiting(h, K) ==
  \A t \in Teams : K[t] # "none" =>
    /\ t # 0 /\ ~h.practice[t]
    /\ h.state[t] \in Waits(K[t])

\* the flags of a member of a team agree with its state and with the tee, if it is not spoiled
FlagsOk(h, c, K) ==
  LET t == h.team[c]
  IN  t # 0 /\ ~h.spoiled[t] =>
        /\ h.finished[c] => h.started[c]
        /\ h.state[t] = "open" => ~h.started[c]
        /\ h.tee[c] # "alive" /\ K[t] = "none" => ~h.started[c]
        /\ h.state[t] = "finished" /\ K[t] = "none" => h.tee[c] = "alive"

\* the race of a tee that lives agrees with the state of its team
RaceOk(h, c, K) ==
  LET t == h.team[c]
      fair == ~h.practice[t] /\ K[t] = "none" /\ ~h.spoiled[t]
  IN  h.tee[c] = "alive" =>
        /\ h.path[c] = "practice" <=> h.practice[t]
        /\ t = 0 /\ h.race[c] = "started" => h.path[c] \in {"start", "finish"}
        /\ t # 0 =>
             /\ h.state[t] = "open" \/ (K[t] # "none" /\ h.state[t] # "finished") =>
                  h.race[c] = "none"
             /\ K[t] # "none" \/ h.state[t] = "finished" => h.race[c] # "started"
             /\ fair /\ h.state[t] = "finished" => h.race[c] = "finished"
             /\ fair /\ h.state[t] \in Racing => h.race[c] \in {"none", "started"}
             /\ fair /\ h.started[c] => h.path[c] \in {"start", "finish"}
             /\ fair /\ h.finished[c] => h.path[c] = "finish" /\ h.race[c] # "none"

\* the tees of a team that races are in the race together
Even(h, K) ==
  \A t \in Teams \ {0} :
    h.state[t] = "started" /\ ~h.practice[t] /\ K[t] = "none" /\ ~h.spoiled[t] =>
      \A c, d \in Alive(h, t) : h.race[c] = h.race[d]

\* the tees and teams are in order, except for the tees in D
Fine(h, D, K) ==
  /\ h \in Games /\ Peopled(h) /\ Waiting(h, K) /\ Even(h, K)
  /\ \A c \in Clients \ D : FlagsOk(h, c, K) /\ RaceOk(h, c, K)

-----------------------------------------------------------------------------
(* Members. *)

(* There are finitely many clients, and team 0 is a team. *)
LEMMA ClientsFacts ==
  /\ IsFiniteSet(Clients) /\ 0 \in Teams /\ NumClients \in Nat \ {0} /\ MaxRuns \in Nat \ {0}
  /\ \A S \in SUBSET Clients : IsFiniteSet(S) /\ Cardinality(S) \in Nat
<1>1. IsFiniteSet(Clients)
  BY FS_Interval, TeamsAssumption DEF Clients
<1>2. \A S \in SUBSET Clients : IsFiniteSet(S) /\ Cardinality(S) \in Nat
  BY <1>1, FS_Subset, FS_CardinalityType
<1> QED
  BY <1>1, <1>2, TeamsAssumption DEF Teams

(* A member is the only one when it is not one of two. *)
LEMMA OnlyMember ==
  ASSUME NEW h, NEW t, NEW c \in Members(h, t)
  PROVE  Cardinality(Members(h, t)) <= 1 <=> Members(h, t) = {c}
<1>1. Members(h, t) \in SUBSET Clients
  BY DEF Members
<1>2. IsFiniteSet(Members(h, t)) /\ Cardinality(Members(h, t)) \in Nat
  BY <1>1, ClientsFacts
<1>3. Cardinality({c}) = 1
  BY FS_Singleton
<1>4. ASSUME Cardinality(Members(h, t)) <= 1 PROVE Members(h, t) = {c}
  <2>1. Cardinality(Members(h, t)) # 0
    BY <1>2, FS_EmptySet
  <2>2. Cardinality(Members(h, t)) = 1
    BY <1>2, <2>1, <1>4
  <2>3. {c} \subseteq Members(h, t)
    OBVIOUS
  <2> QED
    BY <1>2, <2>2, <2>3, <1>3, FS_Subset
<1> QED
  BY <1>3, <1>4

-----------------------------------------------------------------------------
(* A tee changes its team. *)

\* c is the last to leave the team u when it goes to t
Gone(h, c, t, u) == u = h.team[c] /\ u # t /\ u # 0 /\ Members(h, u) = {c}

\* the second half of SetForceCharacterTeam
Moved(h, c, t) ==
  [h EXCEPT !.started[c] = FALSE, !.finished[c] = FALSE, !.team[c] = t,
            !.state[t] = IF @ = "empty" /\ ~h.locked[t] THEN "open" ELSE @]

(* The second half of SetForceCharacterTeam. *)
LEMMA MovedFields ==
  ASSUME NEW h \in Games, NEW c \in Clients, NEW t \in Teams, NEW r,
         r = Moved(h, c, t)
  PROVE  /\ r \in Games
         /\ r.team = [h.team EXCEPT ![c] = t]
         /\ r.started = [h.started EXCEPT ![c] = FALSE]
         /\ r.finished = [h.finished EXCEPT ![c] = FALSE]
         /\ r.tee = h.tee /\ r.race = h.race /\ r.path = h.path
         /\ r.run = h.run /\ r.spoiled = h.spoiled /\ r.ranked = h.ranked
         /\ r.locked = h.locked /\ r.practice = h.practice /\ r.kill = h.kill
         /\ \A u \in Teams :
              r.state[u] = IF u = t /\ h.state[u] = "empty" /\ ~h.locked[u] THEN "open"
                           ELSE h.state[u]
<1>1. /\ r \in Games
      /\ r.team = [h.team EXCEPT ![c] = t]
      /\ r.started = [h.started EXCEPT ![c] = FALSE]
      /\ r.finished = [h.finished EXCEPT ![c] = FALSE]
      /\ r.tee = h.tee /\ r.race = h.race /\ r.path = h.path
      /\ r.run = h.run /\ r.spoiled = h.spoiled /\ r.ranked = h.ranked
      /\ r.locked = h.locked /\ r.practice = h.practice /\ r.kill = h.kill
      /\ r.state = [h.state EXCEPT ![t] = IF @ = "empty" /\ ~h.locked[t] THEN "open" ELSE @]
  BY DEF Games, Moved
<1>2. h.state \in [Teams -> {"empty", "open", "started", "unfinishable", "finished"}]
  BY DEF Games
<1> QED
  BY <1>1, <1>2

(* SetForceCharacterTeam moves the tee, clears its flags, and ends a team that nobody is left in. *)
LEMMA ForceFields ==
  ASSUME NEW h \in Games, NEW c \in Clients, NEW t \in Teams, NEW r,
         r = SetForceCharacterTeam(h, c, t)
  PROVE  /\ r \in Games
         /\ r.team[c] = t /\ ~r.started[c] /\ ~r.finished[c]
         /\ \A d \in Clients \ {c} :
              /\ r.team[d] = h.team[d]
              /\ r.started[d] = h.started[d] /\ r.finished[d] = h.finished[d]
         /\ r.tee = h.tee /\ r.race = h.race /\ r.path = h.path
         /\ r.run = h.run /\ r.spoiled = h.spoiled /\ r.ranked = h.ranked
         /\ \A u \in Teams :
              /\ Gone(h, c, t, u) => r.state[u] = "empty"
              /\ ~Gone(h, c, t, u) =>
                   IF u = t /\ h.state[u] = "empty" /\ ~h.locked[u]
                     THEN r.state[u] = "open" ELSE r.state[u] = h.state[u]
              /\ r.locked[u] <=> h.locked[u] /\ ~Gone(h, c, t, u)
              /\ r.practice[u] <=> h.practice[u] /\ ~Gone(h, c, t, u)
              /\ r.kill[u] <=> h.kill[u] /\ ~Gone(h, c, t, u)
<1> DEFINE old == h.team[c]
           last == t # old /\ old # 0 /\ Cardinality(Members(h, old)) <= 1
           out == [h EXCEPT !.state[old] = "empty", !.locked[old] = FALSE,
                            !.practice[old] = FALSE, !.kill[old] = FALSE]
           left == IF last THEN out ELSE h
<1>0. old \in Teams /\ c \in Members(h, old)
  BY DEF Games, Members
<1>1. Gone(h, c, t, old) <=> last
  BY <1>0, OnlyMember DEF Gone
<1>2. \A u \in Teams : u # old => ~Gone(h, c, t, u)
  BY DEF Gone
<1>3. \A u \in Teams : Gone(h, c, t, u) <=> u = old /\ last
  BY <1>1, <1>2
<1>4. /\ h.state \in [Teams -> {"empty", "open", "started", "unfinishable", "finished"}]
      /\ h.locked \in [Teams -> BOOLEAN] /\ h.practice \in [Teams -> BOOLEAN]
      /\ h.kill \in [Teams -> BOOLEAN]
  BY DEF Games
<1>5. /\ out \in Games
      /\ out.team = h.team /\ out.tee = h.tee /\ out.race = h.race /\ out.path = h.path
      /\ out.started = h.started /\ out.finished = h.finished
      /\ out.run = h.run /\ out.spoiled = h.spoiled /\ out.ranked = h.ranked
      /\ out.state = [h.state EXCEPT ![old] = "empty"]
      /\ out.locked = [h.locked EXCEPT ![old] = FALSE]
      /\ out.practice = [h.practice EXCEPT ![old] = FALSE]
      /\ out.kill = [h.kill EXCEPT ![old] = FALSE]
  BY <1>0 DEF Games
<1>6. r = Moved(left, c, t)
  BY DEF SetForceCharacterTeam, Moved
<1> HIDE DEF out, old, last
<1>7. /\ left \in Games
      /\ left.team = h.team /\ left.tee = h.tee /\ left.race = h.race /\ left.path = h.path
      /\ left.started = h.started /\ left.finished = h.finished
      /\ left.run = h.run /\ left.spoiled = h.spoiled /\ left.ranked = h.ranked
  BY <1>5
<1>8. \A u \in Teams :
        /\ left.state[u] = IF u = old /\ last THEN "empty" ELSE h.state[u]
        /\ left.locked[u] = (h.locked[u] /\ ~(u = old /\ last))
        /\ left.practice[u] = (h.practice[u] /\ ~(u = old /\ last))
        /\ left.kill[u] = (h.kill[u] /\ ~(u = old /\ last))
  <2>1. CASE last
    <3>1. left = out
      BY <2>1
    <3>2. \A u \in Teams :
            /\ out.state[u] = IF u = old THEN "empty" ELSE h.state[u]
            /\ out.locked[u] = IF u = old THEN FALSE ELSE h.locked[u]
            /\ out.practice[u] = IF u = old THEN FALSE ELSE h.practice[u]
            /\ out.kill[u] = IF u = old THEN FALSE ELSE h.kill[u]
      BY <1>4, <1>5
    <3>3. \A u \in Teams :
            /\ h.locked[u] \in BOOLEAN /\ h.practice[u] \in BOOLEAN /\ h.kill[u] \in BOOLEAN
      BY <1>4
    <3> QED
      BY <2>1, <3>1, <3>2, <3>3
  <2>2. CASE ~last
    <3>1. left = h
      BY <2>2
    <3>2. \A u \in Teams :
            /\ h.locked[u] \in BOOLEAN /\ h.practice[u] \in BOOLEAN /\ h.kill[u] \in BOOLEAN
      BY <1>4
    <3> QED
      BY <2>2, <3>1, <3>2
  <2> QED
    BY <2>1, <2>2
<1> HIDE DEF left
<1>9. last => old # t
  BY DEF last
<1>10. /\ r \in Games
       /\ r.team = [left.team EXCEPT ![c] = t]
       /\ r.started = [left.started EXCEPT ![c] = FALSE]
       /\ r.finished = [left.finished EXCEPT ![c] = FALSE]
       /\ r.tee = left.tee /\ r.race = left.race /\ r.path = left.path
       /\ r.run = left.run /\ r.spoiled = left.spoiled /\ r.ranked = left.ranked
       /\ r.locked = left.locked /\ r.practice = left.practice /\ r.kill = left.kill
       /\ \A u \in Teams :
            r.state[u] = IF u = t /\ left.state[u] = "empty" /\ ~left.locked[u] THEN "open"
                         ELSE left.state[u]
  BY <1>6, <1>7, MovedFields
<1>11. \A u \in Teams :
         r.state[u] = IF u = old /\ last THEN "empty"
                      ELSE IF u = t /\ h.state[u] = "empty" /\ ~h.locked[u] THEN "open"
                      ELSE h.state[u]
  <2> SUFFICES ASSUME NEW u \in Teams
               PROVE  r.state[u] = IF u = old /\ last THEN "empty"
                        ELSE IF u = t /\ h.state[u] = "empty" /\ ~h.locked[u] THEN "open"
                        ELSE h.state[u]
    OBVIOUS
  <2>1. CASE u = old /\ last
    BY <1>8, <1>9, <1>10, <2>1
  <2>2. CASE ~(u = old /\ last)
    <3>1. left.state[u] = h.state[u] /\ (left.locked[u] <=> h.locked[u])
      BY <1>8, <2>2
    <3> QED
      BY <1>10, <2>2, <3>1
  <2> QED
    BY <2>1, <2>2
<1>12. /\ r.team[c] = t /\ ~r.started[c] /\ ~r.finished[c]
       /\ \A d \in Clients \ {c} :
              /\ r.team[d] = h.team[d]
              /\ r.started[d] = h.started[d] /\ r.finished[d] = h.finished[d]
  <2>1. /\ h.team \in [Clients -> Teams] /\ h.started \in [Clients -> BOOLEAN]
        /\ h.finished \in [Clients -> BOOLEAN]
    BY DEF Games
  <2> QED
    BY <1>7, <1>10, <2>1
<1>13. ASSUME NEW u \in Teams
       PROVE  /\ Gone(h, c, t, u) => r.state[u] = "empty"
              /\ ~Gone(h, c, t, u) =>
                   IF u = t /\ h.state[u] = "empty" /\ ~h.locked[u]
                     THEN r.state[u] = "open" ELSE r.state[u] = h.state[u]
              /\ r.locked[u] <=> h.locked[u] /\ ~Gone(h, c, t, u)
              /\ r.practice[u] <=> h.practice[u] /\ ~Gone(h, c, t, u)
              /\ r.kill[u] <=> h.kill[u] /\ ~Gone(h, c, t, u)
  BY <1>3, <1>8, <1>10, <1>11
<1> QED
  BY <1>7, <1>10, <1>12, <1>13

(* Teams stay peopled when a tee changes its team, and a team that still has somebody keeps all
   that it had. *)
LEMMA ForceTeams ==
  ASSUME NEW h \in Games, Peopled(h), NEW c \in Clients, NEW t \in Teams, NEW r,
         r = SetForceCharacterTeam(h, c, t)
  PROVE  /\ Peopled(r)
         /\ \A u \in Teams :
              /\ \/ r.state[u] = h.state[u]
                 \/ r.state[u] = "empty" /\ u = h.team[c]
                 \/ u = t /\ h.state[u] = "empty" /\ r.state[u] = "open"
              /\ r.locked[u] <=> h.locked[u] /\ r.state[u] # "empty"
              /\ r.practice[u] <=> h.practice[u] /\ r.state[u] # "empty"
              /\ r.kill[u] <=> h.kill[u] /\ r.state[u] # "empty"
              /\ \A d \in Clients \ {c} : h.team[d] = u /\ u # 0 => r.state[u] = h.state[u]
              /\ u = h.team[c] /\ u = t => r.state[u] = h.state[u] \/ u = 0
<1>0. h \in Games /\ c \in Clients /\ t \in Teams /\ r = SetForceCharacterTeam(h, c, t)
  OBVIOUS
<1>1. \A u \in Teams :
        /\ Gone(h, c, t, u) => r.state[u] = "empty"
        /\ ~Gone(h, c, t, u) =>
             IF u = t /\ h.state[u] = "empty" /\ ~h.locked[u]
               THEN r.state[u] = "open" ELSE r.state[u] = h.state[u]
        /\ r.locked[u] <=> h.locked[u] /\ ~Gone(h, c, t, u)
        /\ r.practice[u] <=> h.practice[u] /\ ~Gone(h, c, t, u)
        /\ r.kill[u] <=> h.kill[u] /\ ~Gone(h, c, t, u)
  BY <1>0, ForceFields
<1>2. h.team \in [Clients -> Teams]
  BY DEF Games
<1>3. \A d \in Clients : r.team[d] = IF d = c THEN t ELSE h.team[d]
  <2>1. r.team[c] = t /\ \A d \in Clients \ {c} : r.team[d] = h.team[d]
    BY <1>0, ForceFields
  <2> QED
    BY <2>1
<1>4. ASSUME NEW u \in Teams
      PROVE  /\ u # 0 => (r.state[u] = "empty" <=> Members(r, u) = {})
             /\ r.state[u] = "empty" => ~r.locked[u] /\ ~r.practice[u] /\ ~r.kill[u]
             /\ u = 0 => r.state[u] \in {"empty", "open"} /\ ~r.locked[u] /\ ~r.practice[u]
             /\ \/ r.state[u] = h.state[u]
                \/ r.state[u] = "empty" /\ u = h.team[c]
                \/ u = t /\ h.state[u] = "empty" /\ r.state[u] = "open"
             /\ r.locked[u] <=> h.locked[u] /\ r.state[u] # "empty"
             /\ r.practice[u] <=> h.practice[u] /\ r.state[u] # "empty"
             /\ r.kill[u] <=> h.kill[u] /\ r.state[u] # "empty"
             /\ \A d \in Clients \ {c} : h.team[d] = u /\ u # 0 => r.state[u] = h.state[u]
             /\ u = h.team[c] /\ u = t => r.state[u] = h.state[u] \/ u = 0
  <2>1. /\ u # 0 => (h.state[u] = "empty" <=> Members(h, u) = {})
        /\ h.state[u] = "empty" => ~h.locked[u] /\ ~h.practice[u] /\ ~h.kill[u]
        /\ u = 0 => h.state[u] \in {"empty", "open"} /\ ~h.locked[u] /\ ~h.practice[u]
    BY DEF Peopled
  <2>2. CASE Gone(h, c, t, u)
    <3>1. /\ u # 0 /\ u = h.team[c] /\ u # t /\ Members(h, u) = {c}
      BY <2>2 DEF Gone
    <3>2. Members(r, u) = {}
      BY <3>1, <1>3 DEF Members
    <3>3. r.state[u] = "empty" /\ ~r.locked[u] /\ ~r.practice[u] /\ ~r.kill[u]
      BY <1>1, <2>2
    <3>4. \A d \in Clients \ {c} : h.team[d] # u
      BY <3>1 DEF Members
    <3> QED
      BY <3>1, <3>2, <3>3, <3>4
  <2>3. CASE ~Gone(h, c, t, u)
    <3>1. /\ r.state[u] = IF u = t /\ h.state[u] = "empty" /\ ~h.locked[u] THEN "open"
                           ELSE h.state[u]
          /\ r.locked[u] <=> h.locked[u]
          /\ r.practice[u] <=> h.practice[u]
          /\ r.kill[u] <=> h.kill[u]
      BY <1>1, <2>3
    <3>2. CASE u = t
      <4>1. r.state[u] # "empty"
        BY <2>1, <3>1, <3>2
      <4>2. c \in Members(r, u)
        BY <1>3, <3>2 DEF Members
      <4>3. \A d \in Clients : h.team[d] = u => Members(h, u) # {}
        BY DEF Members
      <4> QED
        BY <2>1, <3>1, <3>2, <4>1, <4>2, <4>3
    <3>3. CASE u # t
      <4>1. r.state[u] = h.state[u]
        BY <3>1, <3>3
      <4>2. Members(r, u) = Members(h, u) \ {c}
        BY <1>3, <3>3 DEF Members
      <4>3. u # 0 => Members(h, u) # {c}
        <5>1. c \in Members(h, u) => h.team[c] = u
          BY DEF Members
        <5> QED
          BY <5>1, <2>3, <3>3 DEF Gone
      <4>4. u # 0 => (Members(r, u) = {} <=> Members(h, u) = {})
        BY <4>2, <4>3
      <4> QED
        BY <2>1, <3>1, <3>3, <4>1, <4>4
    <3> QED
      BY <3>2, <3>3
  <2> QED
    BY <2>2, <2>3
<1>5. Peopled(r)
  <2>1. r.spoiled = h.spoiled
    BY <1>0, ForceFields
  <2>2. \A u \in Teams : u = 0 => ~r.spoiled[u]
    BY <2>1 DEF Peopled
  <2> QED
    BY <1>4, <2>2 DEF Peopled
<1> QED
  BY <1>4, <1>5

(* The state of a tee is as good as before when what it depends on is the same. *)
LEMMA TeeSame ==
  ASSUME NEW h, NEW q, NEW c, NEW K,
         q.team[c] = h.team[c], q.tee[c] = h.tee[c], q.race[c] = h.race[c], q.path[c] = h.path[c],
         q.started[c] = h.started[c], q.finished[c] = h.finished[c],
         q.practice[h.team[c]] <=> h.practice[h.team[c]],
         q.spoiled[h.team[c]] <=> h.spoiled[h.team[c]],
         h.team[c] # 0 => q.state[h.team[c]] = h.state[h.team[c]],
         FlagsOk(h, c, K), RaceOk(h, c, K)
  PROVE  FlagsOk(q, c, K) /\ RaceOk(q, c, K)
<1>1. FlagsOk(q, c, K)
  BY DEF FlagsOk
<1>2. RaceOk(q, c, K)
  BY DEF RaceOk
<1> QED
  BY <1>1, <1>2

(* Whoever changes the team, for team 0 or a team that does not race, leaves all others in order. *)
LEMMA ForceKeeps ==
  ASSUME NEW h, NEW D, NEW K, Fine(h, D, K),
         NEW c \in Clients, NEW t \in Teams, NEW r, r = SetForceCharacterTeam(h, c, t),
         t = 0 \/ t = h.team[c] \/ (K[t] = "none" /\ (h.state[t] # "started" \/ h.practice[t]))
  PROVE  Fine(r, D \cup {c}, K)
<1>1. /\ h \in Games /\ Peopled(h) /\ Waiting(h, K) /\ Even(h, K)
      /\ \A d \in Clients \ D : FlagsOk(h, d, K) /\ RaceOk(h, d, K)
  BY DEF Fine
<1>2. /\ r \in Games
      /\ r.team[c] = t /\ ~r.started[c] /\ ~r.finished[c]
      /\ \A d \in Clients \ {c} :
           /\ r.team[d] = h.team[d]
           /\ r.started[d] = h.started[d] /\ r.finished[d] = h.finished[d]
      /\ r.tee = h.tee /\ r.race = h.race /\ r.path = h.path /\ r.spoiled = h.spoiled
  BY <1>1, ForceFields
<1>3. /\ Peopled(r)
      /\ \A u \in Teams :
              /\ \/ r.state[u] = h.state[u]
                 \/ r.state[u] = "empty" /\ u = h.team[c]
                 \/ u = t /\ h.state[u] = "empty" /\ r.state[u] = "open"
              /\ r.locked[u] <=> h.locked[u] /\ r.state[u] # "empty"
              /\ r.practice[u] <=> h.practice[u] /\ r.state[u] # "empty"
              /\ \A d \in Clients \ {c} : h.team[d] = u /\ u # 0 => r.state[u] = h.state[u]
              /\ u = h.team[c] /\ u = t => r.state[u] = h.state[u] \/ u = 0
  BY <1>1, ForceTeams
<1>4. h.team \in [Clients -> Teams] /\ h.started \in [Clients -> BOOLEAN]
      /\ h.finished \in [Clients -> BOOLEAN]
  BY <1>1 DEF Games
<1>5. \A d \in Clients :
        /\ r.team[d] = IF d = c THEN t ELSE h.team[d]
        /\ d # c => r.started[d] = h.started[d] /\ r.finished[d] = h.finished[d]
  BY <1>2, <1>4
<1>6. Waiting(r, K)
  <2> SUFFICES ASSUME NEW u \in Teams, K[u] # "none"
               PROVE  /\ u # 0 /\ ~r.practice[u]
                      /\ r.state[u] \in Waits(K[u])
    BY DEF Waiting
  <2>1. /\ u # 0 /\ ~h.practice[u]
        /\ h.state[u] \in Waits(K[u])
    BY <1>1 DEF Waiting
  <2>2. r.state[u] \in {h.state[u], "empty"}
    <3>1. CASE u = h.team[c] /\ u = t
      BY <1>3, <2>1, <3>1
    <3>2. CASE ~(u = h.team[c] /\ u = t)
      <4>1. u # t
        BY <2>1, <3>2
      <4> QED
        BY <1>3, <4>1
    <3> QED
      BY <3>1, <3>2
  <2> QED
    BY <2>1, <2>2, <1>3 DEF Waits
<1>7. Even(r, K)
  <2> SUFFICES ASSUME NEW u \in Teams \ {0}, r.state[u] = "started", ~r.practice[u], K[u] = "none",
                      ~r.spoiled[u],
                      NEW d \in Alive(r, u), NEW e \in Alive(r, u)
               PROVE  r.race[d] = r.race[e]
    BY DEF Even
  <2>1. h.state[u] = "started" /\ ~h.practice[u]
    BY <1>3
  <2>2. d \in Alive(h, u) /\ e \in Alive(h, u)
    <3>1. u # t \/ t = h.team[c]
      BY <2>1
    <3> QED
      BY <3>1, <1>2, <1>5 DEF Alive, Members
  <2>3. h.race[d] = h.race[e]
    BY <2>1, <2>2, <1>1, <1>2 DEF Even
  <2> QED
    BY <2>3, <1>2
<1>8. ASSUME NEW d \in Clients \ (D \cup {c}) PROVE FlagsOk(r, d, K) /\ RaceOk(r, d, K)
  <2>1. d \in Clients \ D /\ d \in Clients \ {c} /\ h.team[d] \in Teams /\ d # c
    BY <1>4
  <2>2. h.team[d] # 0 => r.state[h.team[d]] = h.state[h.team[d]]
    BY <1>3, <2>1
  <2>3. r.practice[h.team[d]] <=> h.practice[h.team[d]]
    <3>1. h.state[h.team[d]] = "empty" \/ h.team[d] = 0 => ~h.practice[h.team[d]]
      BY <1>1, <2>1 DEF Peopled
    <3> QED
      BY <1>3, <2>1, <2>2, <3>1
  <2>4. FlagsOk(h, d, K) /\ RaceOk(h, d, K)
    BY <1>1, <2>1
  <2>5. /\ r.team[d] = h.team[d] /\ r.tee[d] = h.tee[d] /\ r.race[d] = h.race[d]
        /\ r.path[d] = h.path[d] /\ r.started[d] = h.started[d] /\ r.finished[d] = h.finished[d]
        /\ r.spoiled = h.spoiled
    BY <1>2, <1>5, <2>1
  <2> QED
    BY <2>2, <2>3, <2>4, <2>5, TeeSame
<1> QED
  BY <1>2, <1>3, <1>6, <1>7, <1>8 DEF Fine
(* Numbers and recursive functions. *)

(* The natural numbers are well founded. *)
LEMMA LessIsWellFounded == IsWellFoundedOn({p \in Nat \X Nat : p[1] < p[2]}, Nat)
BY NatLessThanWellFounded DEF OpToRel

(* A set of numbers has a least one. *)
LEMMA LeastExists ==
  ASSUME NEW S \in SUBSET Nat, S # {}
  PROVE  \E m \in S : \A k \in S : m <= k
<1> DEFINE R == {p \in Nat \X Nat : p[1] < p[2]}
<1>1. PICK m \in S : \A k \in S : ~(<<k, m>> \in R)
  BY LessIsWellFounded, WFMin
<1>2. ASSUME NEW k \in S PROVE m <= k
  <2>1. k \in Nat /\ m \in Nat
    OBVIOUS
  <2>2. CASE k < m
    <3>1. <<k, m>> \in Nat \X Nat /\ <<k, m>>[1] < <<k, m>>[2]
      BY <2>1, <2>2
    <3>2. <<k, m>> \in R
      BY <3>1
    <3> QED
      BY <1>1, <3>2
  <2> QED
    BY <2>1, <2>2
<1> QED
  BY <1>2

(* The recursive functions of the model: H makes each value from the one before. *)
Runs(f, n, a, H) == f[0] = a /\ \A k \in 1..n : f[k] = H[<<f[k - 1], k>>]

(* There is a function that makes each value from the one before. *)
LEMMA RunExists ==
  ASSUME NEW S, NEW a \in S, NEW L \in Nat, NEW H \in [S \X (1..L) -> S]
  PROVE  \E f \in [0..L -> S] : Runs(f, L, a, H)
<1> DEFINE Good(n) == \E f \in [0..n -> S] : Runs(f, n, a, H)
           Bad == {n \in 0..L : ~Good(n)}
<1>1. SUFFICES ASSUME Bad # {} PROVE FALSE
  <2>1. L \in 0..L
    OBVIOUS
  <2>2. CASE Bad = {}
    BY <2>1, <2>2
  <2> QED
    BY <2>2
<1>2. PICK m \in Bad : \A n \in Bad : m <= n
  <2>1. Bad \in SUBSET Nat
    OBVIOUS
  <2> HIDE DEF Bad
  <2> QED
    BY <1>1, <2>1, LeastExists
<1>3. m \in 0..L /\ ~Good(m)
  OBVIOUS
<1>4. m # 0
  <2> DEFINE z == [k \in 0..0 |-> a]
  <2>1. z \in [0..0 -> S]
    OBVIOUS
  <2>2. z[0] = a /\ 1..0 = {}
    OBVIOUS
  <2>3. Runs(z, 0, a, H)
    BY <2>2 DEF Runs
  <2>4. Good(0)
    BY <2>1, <2>3
  <2> QED
    BY <1>3, <2>4
<1>5. m \in 1..L /\ m - 1 \in 0..L /\ ~(m <= m - 1)
  BY <1>3, <1>4
<1>6. Good(m - 1)
  <2>1. m - 1 \notin Bad
    <3> HIDE DEF Bad
    <3> QED
      BY <1>2, <1>5
  <2> HIDE DEF Good
  <2> QED
    BY <1>5, <2>1
<1>7. PICK f \in [0..(m - 1) -> S] : Runs(f, m - 1, a, H)
  BY <1>6
<1> DEFINE h == [k \in 0..m |-> IF k = m THEN H[<<f[m - 1], m>>] ELSE f[k]]
<1>8. h \in [0..m -> S]
  <2>1. <<f[m - 1], m>> \in S \X (1..L)
    BY <1>5, <1>7
  <2> QED
    BY <1>5, <1>7, <2>1
<1>9. Runs(h, m, a, H)
  <2>1. h[0] = a
    BY <1>5, <1>7 DEF Runs
  <2>2. ASSUME NEW k \in 1..m PROVE h[k] = H[<<h[k - 1], k>>]
    <3>1. k \in 0..m /\ k - 1 \in 0..m /\ k - 1 # m
      BY <1>5
    <3>2. h[k - 1] = f[k - 1]
      BY <3>1
    <3>3. CASE k = m
      BY <3>1, <3>2, <3>3
    <3>4. CASE k # m
      <4>1. k \in 1..(m - 1)
        BY <1>5, <3>4
      <4>2. f[k] = H[<<f[k - 1], k>>]
        BY <4>1, <1>7 DEF Runs
      <4>3. h[k] = f[k]
        BY <3>1, <3>4
      <4> QED
        BY <4>2, <4>3, <3>2
    <3> QED
      BY <3>3, <3>4
  <2> HIDE DEF h
  <2> QED
    BY <2>1, <2>2 DEF Runs
<1>10. Good(m)
  <2> HIDE DEF h
  <2> QED
    BY <1>8, <1>9
<1> QED
  BY <1>10, <1>3

(* Induction up to L, for a set of numbers. *)
LEMMA Induction ==
  ASSUME NEW L \in Nat, NEW G, 0 \in G, \A n \in 1..L : n - 1 \in G => n \in G
  PROVE  \A n \in 0..L : n \in G
<1> DEFINE Bad == {n \in 0..L : n \notin G}
<1>1. SUFFICES ASSUME Bad # {} PROVE FALSE
  OBVIOUS
<1>2. PICK m \in Bad : \A n \in Bad : m <= n
  <2>1. Bad \in SUBSET Nat
    OBVIOUS
  <2> HIDE DEF Bad
  <2> QED
    BY <1>1, <2>1, LeastExists
<1>3. m \in 1..L /\ m - 1 \in 0..L /\ ~(m <= m - 1)
  OBVIOUS
<1>4. m - 1 \in G
  <2>1. m - 1 \notin Bad
    <3> HIDE DEF Bad
    <3> QED
      BY <1>2, <1>3
  <2> QED
    BY <1>3, <2>1
<1> QED
  BY <1>3, <1>4

\* the passes of a loop over the clients lead from S[0] to S[NumClients]
Leads(S, H) == \A n \in 1..NumClients : \A q \in S[n - 1] : H[<<q, n>>] \in S[n]

\* f is what such a loop makes of h
Made(f, S, h, H) ==
  f[0] = h /\ \A n \in 1..NumClients : f[n - 1] \in S[n - 1] /\ f[n] = H[<<f[n - 1], n>>]

(* A loop over the clients that keeps S has a function that makes it: S[n] is what holds after
   the pass for the client n. *)
LEMMA LoopExists ==
  ASSUME NEW G, NEW S \in [0..NumClients -> SUBSET G], NEW h \in S[0],
         NEW H \in [G \X (1..NumClients) -> G],
         Leads(S, H)
  PROVE  \E f \in [0..NumClients -> G] : Made(f, S, h, H)
<1>1. NumClients \in Nat /\ h \in G
  <2>1. NumClients \in Nat
    BY TeamsAssumption
  <2>2. 0 \in 0..NumClients
    BY <2>1
  <2> QED
    BY <2>1, <2>2
<1>2. PICK f \in [0..NumClients -> G] : Runs(f, NumClients, h, H)
  BY <1>1, RunExists
<1>3. f[0] = h /\ \A n \in 1..NumClients : f[n] = H[<<f[n - 1], n>>]
  BY <1>2 DEF Runs
<1> DEFINE Reached == {n \in 0..NumClients : f[n] \in S[n]}
<1>4. 0 \in Reached
  BY <1>1, <1>3
<1>5. ASSUME NEW n \in 1..NumClients, n - 1 \in Reached PROVE n \in Reached
  <2>1. f[n - 1] \in S[n - 1]
    BY <1>5
  <2>2. H[<<f[n - 1], n>>] \in S[n]
    BY <2>1 DEF Leads
  <2>3. n \in 0..NumClients
    BY <1>1
  <2> QED
    BY <1>3, <2>2, <2>3
<1>6. \A n \in 0..NumClients : n \in Reached
  <2> HIDE DEF Reached
  <2> QED
    BY <1>1, <1>4, <1>5, Induction
<1>7. \A n \in 1..NumClients : f[n - 1] \in S[n - 1]
  <2>1. \A n \in 1..NumClients : n - 1 \in 0..NumClients
    BY <1>1
  <2> QED
    BY <1>6, <2>1
<1> QED
  BY <1>3, <1>7 DEF Made

(* OnTeamFinish leads from S[0] to S[NumClients] when each of its passes leads on. *)
LEMMA FinishLoop ==
  ASSUME NEW G, NEW S \in [0..NumClients -> SUBSET G], NEW h \in S[0], NEW cs,
         \A n \in 1..NumClients : \A q \in S[n - 1] :
           (IF n \in cs /\ ~q.locked[q.team[n]] THEN SetForceCharacterTeam(q, n, 0) ELSE q) \in S[n]
  PROVE  OnTeamFinish(h, cs) \in S[NumClients]
<1> DEFINE Op(q, n) ==
             IF n \in cs /\ ~q.locked[q.team[n]] THEN SetForceCharacterTeam(q, n, 0) ELSE q
           H == [x \in G \X (1..NumClients) |->
                   IF Op(x[1], x[2]) \in G THEN Op(x[1], x[2]) ELSE x[1]]
           Good(f) == f = [n \in 0..NumClients |-> IF n = 0 THEN h ELSE Op(f[n - 1], n)]
           end == CHOOSE f : Good(f)
<1>1. OnTeamFinish(h, cs) = end[NumClients]
  BY DEF OnTeamFinish, EachClient
<1>2. \A n \in 1..NumClients : \A q \in S[n - 1] : Op(q, n) \in S[n]
  OBVIOUS
<1> HIDE DEF Op
<1>3. NumClients \in Nat
  BY TeamsAssumption
<1>4. \A n \in 1..NumClients : n \in 0..NumClients /\ n - 1 \in 0..NumClients /\ n # 0
  BY <1>3
<1>5. \A n \in 1..NumClients : \A q \in S[n - 1] : q \in G /\ H[<<q, n>>] = Op(q, n)
  <2> SUFFICES ASSUME NEW n \in 1..NumClients, NEW q \in S[n - 1]
               PROVE  q \in G /\ H[<<q, n>>] = Op(q, n)
    OBVIOUS
  <2>1. q \in G
    BY <1>4
  <2>2. Op(q, n) \in G
    BY <1>2, <1>4
  <2> QED
    BY <2>1, <2>2
<1>6. H \in [G \X (1..NumClients) -> G]
  OBVIOUS
<1> HIDE DEF H
<1>7. PICK f \in [0..NumClients -> G] : Made(f, S, h, H)
  <2>1. ASSUME NEW n \in 1..NumClients, NEW q \in S[n - 1] PROVE H[<<q, n>>] \in S[n]
    <3>1. H[<<q, n>>] = Op(q, n)
      BY <1>5
    <3>2. Op(q, n) \in S[n]
      BY <1>2
    <3> QED
      BY <3>1, <3>2
  <2>2. Leads(S, H)
    BY <2>1 DEF Leads
  <2> QED
    BY <1>6, <2>2, LoopExists
<1>8. \A n \in 1..NumClients : f[n] = Op(f[n - 1], n)
  BY <1>5, <1>7 DEF Made
<1>9. Good(f)
  <2>1. \A n \in 0..NumClients : f[n] = IF n = 0 THEN h ELSE Op(f[n - 1], n)
    BY <1>3, <1>7, <1>8 DEF Made
  <2> QED
    BY <1>7, <2>1
<1>10. Good(end)
  <2> HIDE DEF Good
  <2> QED
    BY <1>9
<1> HIDE DEF end
<1>11. end[0] = h /\ \A n \in 1..NumClients : end[n] = Op(end[n - 1], n)
  BY <1>3, <1>4, <1>10
<1> DEFINE Past == {n \in 0..NumClients : end[n] \in S[n]}
<1>12. 0 \in Past
  BY <1>3, <1>11
<1>13. ASSUME NEW n \in 1..NumClients, n - 1 \in Past PROVE n \in Past
  BY <1>2, <1>4, <1>11, <1>13
<1>14. \A n \in 0..NumClients : n \in Past
  <2> HIDE DEF Past
  <2> QED
    BY <1>3, <1>12, <1>13, Induction
<1> QED
  BY <1>1, <1>3, <1>14

(* KillEach leads from S[0] to S[NumClients] when each of its passes leads on. *)
LEMMA KillEachLoop ==
  ASSUME NEW G, NEW S \in [0..NumClients -> SUBSET G], NEW h \in S[0], NEW cs, NEW weapon,
         \A n \in 1..NumClients : \A q \in S[n - 1] :
           (IF n \in cs /\ q.tee[n] \in {"corpse", "alive"}
             THEN Dies([q EXCEPT !.tee[n] = "dead"], n, weapon) ELSE q) \in S[n]
  PROVE  KillEach(h, cs, weapon) \in S[NumClients]
<1> DEFINE Op(q, n) ==
             IF n \in cs /\ q.tee[n] \in {"corpse", "alive"}
             THEN Dies([q EXCEPT !.tee[n] = "dead"], n, weapon) ELSE q
           H == [x \in G \X (1..NumClients) |->
                   IF Op(x[1], x[2]) \in G THEN Op(x[1], x[2]) ELSE x[1]]
           Good(f) == f = [n \in 0..NumClients |-> IF n = 0 THEN h ELSE Op(f[n - 1], n)]
           end == CHOOSE f : Good(f)
<1>1. KillEach(h, cs, weapon) = end[NumClients]
  BY DEF KillEach, EachClient
<1>2. \A n \in 1..NumClients : \A q \in S[n - 1] : Op(q, n) \in S[n]
  OBVIOUS
<1> HIDE DEF Op
<1>3. NumClients \in Nat
  BY TeamsAssumption
<1>4. \A n \in 1..NumClients : n \in 0..NumClients /\ n - 1 \in 0..NumClients /\ n # 0
  BY <1>3
<1>5. \A n \in 1..NumClients : \A q \in S[n - 1] : q \in G /\ H[<<q, n>>] = Op(q, n)
  <2> SUFFICES ASSUME NEW n \in 1..NumClients, NEW q \in S[n - 1]
               PROVE  q \in G /\ H[<<q, n>>] = Op(q, n)
    OBVIOUS
  <2>1. q \in G
    BY <1>4
  <2>2. Op(q, n) \in G
    BY <1>2, <1>4
  <2> QED
    BY <2>1, <2>2
<1>6. H \in [G \X (1..NumClients) -> G]
  OBVIOUS
<1> HIDE DEF H
<1>7. PICK f \in [0..NumClients -> G] : Made(f, S, h, H)
  <2>1. ASSUME NEW n \in 1..NumClients, NEW q \in S[n - 1] PROVE H[<<q, n>>] \in S[n]
    <3>1. H[<<q, n>>] = Op(q, n)
      BY <1>5
    <3>2. Op(q, n) \in S[n]
      BY <1>2
    <3> QED
      BY <3>1, <3>2
  <2>2. Leads(S, H)
    BY <2>1 DEF Leads
  <2> QED
    BY <1>6, <2>2, LoopExists
<1>8. \A n \in 1..NumClients : f[n] = Op(f[n - 1], n)
  BY <1>5, <1>7 DEF Made
<1>9. Good(f)
  <2>1. \A n \in 0..NumClients : f[n] = IF n = 0 THEN h ELSE Op(f[n - 1], n)
    BY <1>3, <1>7, <1>8 DEF Made
  <2> QED
    BY <1>7, <2>1
<1>10. Good(end)
  <2> HIDE DEF Good
  <2> QED
    BY <1>9
<1> HIDE DEF end
<1>11. end[0] = h /\ \A n \in 1..NumClients : end[n] = Op(end[n - 1], n)
  BY <1>3, <1>4, <1>10
<1> DEFINE Past == {n \in 0..NumClients : end[n] \in S[n]}
<1>12. 0 \in Past
  BY <1>3, <1>11
<1>13. ASSUME NEW n \in 1..NumClients, n - 1 \in Past PROVE n \in Past
  BY <1>2, <1>4, <1>11, <1>13
<1>14. \A n \in 0..NumClients : n \in Past
  <2> HIDE DEF Past
  <2> QED
    BY <1>3, <1>12, <1>13, Induction
<1> QED
  BY <1>1, <1>3, <1>14

(* KillTeam leads from S[0] to S[NumClients] when each of its passes leads on. *)
LEMMA KillTeamLoop ==
  ASSUME NEW G, NEW S \in [0..NumClients -> SUBSET G], NEW h \in S[0], NEW t,
         \A n \in 1..NumClients : \A q \in S[n - 1] :
           (IF q.team[n] = t THEN KillCharacter(q, n, "self") ELSE q) \in S[n]
  PROVE  KillTeam(h, t) \in S[NumClients]
<1> DEFINE Op(q, n) ==
             IF q.team[n] = t THEN KillCharacter(q, n, "self") ELSE q
           H == [x \in G \X (1..NumClients) |->
                   IF Op(x[1], x[2]) \in G THEN Op(x[1], x[2]) ELSE x[1]]
           Good(f) == f = [n \in 0..NumClients |-> IF n = 0 THEN h ELSE Op(f[n - 1], n)]
           end == CHOOSE f : Good(f)
<1>1. KillTeam(h, t) = end[NumClients]
  BY DEF KillTeam, EachClient
<1>2. \A n \in 1..NumClients : \A q \in S[n - 1] : Op(q, n) \in S[n]
  OBVIOUS
<1> HIDE DEF Op
<1>3. NumClients \in Nat
  BY TeamsAssumption
<1>4. \A n \in 1..NumClients : n \in 0..NumClients /\ n - 1 \in 0..NumClients /\ n # 0
  BY <1>3
<1>5. \A n \in 1..NumClients : \A q \in S[n - 1] : q \in G /\ H[<<q, n>>] = Op(q, n)
  <2> SUFFICES ASSUME NEW n \in 1..NumClients, NEW q \in S[n - 1]
               PROVE  q \in G /\ H[<<q, n>>] = Op(q, n)
    OBVIOUS
  <2>1. q \in G
    BY <1>4
  <2>2. Op(q, n) \in G
    BY <1>2, <1>4
  <2> QED
    BY <2>1, <2>2
<1>6. H \in [G \X (1..NumClients) -> G]
  OBVIOUS
<1> HIDE DEF H
<1>7. PICK f \in [0..NumClients -> G] : Made(f, S, h, H)
  <2>1. ASSUME NEW n \in 1..NumClients, NEW q \in S[n - 1] PROVE H[<<q, n>>] \in S[n]
    <3>1. H[<<q, n>>] = Op(q, n)
      BY <1>5
    <3>2. Op(q, n) \in S[n]
      BY <1>2
    <3> QED
      BY <3>1, <3>2
  <2>2. Leads(S, H)
    BY <2>1 DEF Leads
  <2> QED
    BY <1>6, <2>2, LoopExists
<1>8. \A n \in 1..NumClients : f[n] = Op(f[n - 1], n)
  BY <1>5, <1>7 DEF Made
<1>9. Good(f)
  <2>1. \A n \in 0..NumClients : f[n] = IF n = 0 THEN h ELSE Op(f[n - 1], n)
    BY <1>3, <1>7, <1>8 DEF Made
  <2> QED
    BY <1>7, <2>1
<1>10. Good(end)
  <2> HIDE DEF Good
  <2> QED
    BY <1>9
<1> HIDE DEF end
<1>11. end[0] = h /\ \A n \in 1..NumClients : end[n] = Op(end[n - 1], n)
  BY <1>3, <1>4, <1>10
<1> DEFINE Past == {n \in 0..NumClients : end[n] \in S[n]}
<1>12. 0 \in Past
  BY <1>3, <1>11
<1>13. ASSUME NEW n \in 1..NumClients, n - 1 \in Past PROVE n \in Past
  BY <1>2, <1>4, <1>11, <1>13
<1>14. \A n \in 0..NumClients : n \in Past
  <2> HIDE DEF Past
  <2> QED
    BY <1>3, <1>12, <1>13, Induction
<1> QED
  BY <1>1, <1>3, <1>14

(* ResetSavedTeam leads from S[0] to S[NumClients] when each of its passes leads on. *)
LEMMA ResetLoop ==
  ASSUME NEW G, NEW S \in [0..NumClients -> SUBSET G], NEW h \in S[0], NEW t,
         \A n \in 1..NumClients : \A q \in S[n - 1] :
           (IF q.team[n] = t THEN SetForceCharacterTeam(q, n, 0) ELSE q) \in S[n]
  PROVE  ResetSavedTeam(h, t) \in S[NumClients]
<1> DEFINE Op(q, n) ==
             IF q.team[n] = t THEN SetForceCharacterTeam(q, n, 0) ELSE q
           H == [x \in G \X (1..NumClients) |->
                   IF Op(x[1], x[2]) \in G THEN Op(x[1], x[2]) ELSE x[1]]
           Good(f) == f = [n \in 0..NumClients |-> IF n = 0 THEN h ELSE Op(f[n - 1], n)]
           end == CHOOSE f : Good(f)
<1>1. ResetSavedTeam(h, t) = end[NumClients]
  BY DEF ResetSavedTeam, EachClient
<1>2. \A n \in 1..NumClients : \A q \in S[n - 1] : Op(q, n) \in S[n]
  OBVIOUS
<1> HIDE DEF Op
<1>3. NumClients \in Nat
  BY TeamsAssumption
<1>4. \A n \in 1..NumClients : n \in 0..NumClients /\ n - 1 \in 0..NumClients /\ n # 0
  BY <1>3
<1>5. \A n \in 1..NumClients : \A q \in S[n - 1] : q \in G /\ H[<<q, n>>] = Op(q, n)
  <2> SUFFICES ASSUME NEW n \in 1..NumClients, NEW q \in S[n - 1]
               PROVE  q \in G /\ H[<<q, n>>] = Op(q, n)
    OBVIOUS
  <2>1. q \in G
    BY <1>4
  <2>2. Op(q, n) \in G
    BY <1>2, <1>4
  <2> QED
    BY <2>1, <2>2
<1>6. H \in [G \X (1..NumClients) -> G]
  OBVIOUS
<1> HIDE DEF H
<1>7. PICK f \in [0..NumClients -> G] : Made(f, S, h, H)
  <2>1. ASSUME NEW n \in 1..NumClients, NEW q \in S[n - 1] PROVE H[<<q, n>>] \in S[n]
    <3>1. H[<<q, n>>] = Op(q, n)
      BY <1>5
    <3>2. Op(q, n) \in S[n]
      BY <1>2
    <3> QED
      BY <3>1, <3>2
  <2>2. Leads(S, H)
    BY <2>1 DEF Leads
  <2> QED
    BY <1>6, <2>2, LoopExists
<1>8. \A n \in 1..NumClients : f[n] = Op(f[n - 1], n)
  BY <1>5, <1>7 DEF Made
<1>9. Good(f)
  <2>1. \A n \in 0..NumClients : f[n] = IF n = 0 THEN h ELSE Op(f[n - 1], n)
    BY <1>3, <1>7, <1>8 DEF Made
  <2> QED
    BY <1>7, <2>1
<1>10. Good(end)
  <2> HIDE DEF Good
  <2> QED
    BY <1>9
<1> HIDE DEF end
<1>11. end[0] = h /\ \A n \in 1..NumClients : end[n] = Op(end[n - 1], n)
  BY <1>3, <1>4, <1>10
<1> DEFINE Past == {n \in 0..NumClients : end[n] \in S[n]}
<1>12. 0 \in Past
  BY <1>3, <1>11
<1>13. ASSUME NEW n \in 1..NumClients, n - 1 \in Past PROVE n \in Past
  BY <1>2, <1>4, <1>11, <1>13
<1>14. \A n \in 0..NumClients : n \in Past
  <2> HIDE DEF Past
  <2> QED
    BY <1>3, <1>12, <1>13, Induction
<1> QED
  BY <1>1, <1>3, <1>14

-----------------------------------------------------------------------------
(* Tees that die, leave and finish. *)

\* b comes of a by deaths, departures and finishes: a team races on only if all that were in it
\* race on with it, or had started; else it cannot finish
Loses(a, b) ==
  /\ b.run = a.run /\ b.spoiled = a.spoiled
  /\ \A c \in Clients :
       /\ b.team[c] \in {a.team[c], 0}
       /\ b.tee[c] = "alive" => a.tee[c] = "alive" /\ b.path[c] = a.path[c]
       /\ b.started[c] => a.started[c]
  /\ \A t \in Teams :
       /\ b.state[t] \in Racing => a.state[t] \in Racing
       /\ b.state[t] = "started" =>
            /\ a.state[t] = "started" /\ (b.practice[t] <=> a.practice[t])
            /\ \A c \in Alive(a, t) :
                 IF c \in Alive(b, t) THEN b.race[c] = a.race[c]
                                      ELSE Kind[t] # "none" \/ a.started[c]

\* the team t of a finishes its run in b, and all of its tees had started, unless it is spoiled or
\* it is being saved
Finishes(a, b, t) ==
  /\ a.state[t] = "started" /\ ~a.practice[t] /\ b.state[t] \notin Racing
  /\ b.ranked.run = a.run[t] /\ b.ranked.who # {}
  /\ b.ranked.spoiled = a.spoiled[t] /\ b.ranked.saved = (Kind[t] # "none")
  /\ b.ranked.who \subseteq Alive(a, t)
  /\ ~b.ranked.spoiled /\ ~b.ranked.saved =>
       /\ \A c \in Alive(a, t) : a.started[c]
       /\ \A c \in b.ranked.who :
            /\ a.race[c] # "none" /\ b.tee[c] = "alive" /\ b.path[c] = "finish"
            /\ b.team[c] \in {t, 0}

\* nobody is ranked in b who was not in a, or a team of a is
Ranks(a, b) == b.ranked = a.ranked \/ \E t \in Teams \ {0} : Finishes(a, b, t)

(* Nothing is lost when nothing happens. *)
LEMMA LosesSame == \A a : Loses(a, a)
BY DEF Loses

(* Losses add up. *)
LEMMA LosesMore ==
  ASSUME NEW a, NEW b, NEW d, Loses(a, b), Loses(b, d)
  PROVE  Loses(a, d)
<1>1. ASSUME NEW c \in Clients
      PROVE  /\ d.team[c] \in {a.team[c], 0}
             /\ d.tee[c] = "alive" => a.tee[c] = "alive" /\ d.path[c] = a.path[c]
             /\ d.started[c] => a.started[c]
  BY DEF Loses
<1>2. ASSUME NEW t \in Teams
      PROVE  /\ d.state[t] \in Racing => a.state[t] \in Racing
             /\ d.state[t] = "started" =>
                  a.state[t] = "started" /\ (d.practice[t] <=> a.practice[t])
  BY DEF Loses
<1>3. ASSUME NEW t \in Teams, d.state[t] = "started", NEW c \in Alive(a, t)
      PROVE  IF c \in Alive(d, t) THEN d.race[c] = a.race[c]
             ELSE Kind[t] # "none" \/ a.started[c]
  <2>1. c \in Clients /\ b.state[t] = "started"
    BY <1>3 DEF Alive, Members, Loses
  <2>2. /\ IF c \in Alive(b, t) THEN b.race[c] = a.race[c] ELSE Kind[t] # "none" \/ a.started[c]
        /\ b.started[c] => a.started[c]
    BY <1>3, <2>1 DEF Loses
  <2>3. c \in Alive(b, t) =>
          IF c \in Alive(d, t) THEN d.race[c] = b.race[c] ELSE Kind[t] # "none" \/ b.started[c]
    BY <1>3 DEF Loses
  <2>4. c \in Alive(d, t) => c \in Alive(b, t)
    <3>1. b.team[c] \in {a.team[c], 0} /\ d.team[c] \in {b.team[c], 0} /\ a.team[c] = t
          /\ (d.tee[c] = "alive" => b.tee[c] = "alive")
      BY <1>3, <2>1 DEF Loses, Alive, Members
    <3> QED
      BY <2>1, <3>1 DEF Alive, Members
  <2> QED
    BY <2>2, <2>3, <2>4
<1>4. d.run = a.run /\ d.spoiled = a.spoiled
  BY DEF Loses
<1> QED
  BY <1>1, <1>2, <1>3, <1>4 DEF Loses

(* A tee that is in order needs no exception. *)
LEMMA FineAll ==
  ASSUME NEW h, NEW D, NEW K, NEW c, Fine(h, D \cup {c}, K), FlagsOk(h, c, K), RaceOk(h, c, K)
  PROVE  Fine(h, D \ {c}, K) /\ Fine(h, D, K)
BY DEF Fine

(* The tees that are in order need no exception. *)
LEMMA FineLess ==
  ASSUME NEW h, NEW D, NEW E, NEW K, Fine(h, D, K),
         \A d \in D \ E : FlagsOk(h, d, K) /\ RaceOk(h, d, K)
  PROVE  Fine(h, E, K)
BY DEF Fine

(* A tee that does not live is in order in team 0. *)
LEMMA OutOfTeams ==
  ASSUME NEW h, NEW c, NEW K, h.team[c] = 0,
         h.tee[c] = "alive" =>
           /\ h.path[c] = "practice" <=> h.practice[0]
           /\ h.race[c] = "started" => h.path[c] \in {"start", "finish"}
  PROVE  FlagsOk(h, c, K) /\ RaceOk(h, c, K)
BY DEF FlagsOk, RaceOk

(* Whoever leaves for team 0, dead or with a start, loses nothing else. *)
LEMMA ForceLoses ==
  ASSUME NEW h \in Games, Peopled(h), NEW c \in Clients, NEW r,
         r = SetForceCharacterTeam(h, c, 0),
         \/ h.tee[c] # "alive" \/ h.started[c] \/ Kind[h.team[c]] # "none"
         \/ h.state[h.team[c]] # "started"
  PROVE  Loses(h, r)
<1>1. /\ r.team[c] = 0 /\ ~r.started[c] /\ ~r.finished[c]
      /\ \A d \in Clients \ {c} :
           /\ r.team[d] = h.team[d]
           /\ r.started[d] = h.started[d] /\ r.finished[d] = h.finished[d]
      /\ r.tee = h.tee /\ r.race = h.race /\ r.path = h.path /\ r.run = h.run
      /\ r.spoiled = h.spoiled
  <2>1. 0 \in Teams
    BY ClientsFacts
  <2> QED
    BY <2>1, ForceFields
<1>2. /\ Peopled(r)
      /\ \A u \in Teams :
              /\ \/ r.state[u] = h.state[u]
                 \/ r.state[u] = "empty" /\ u = h.team[c]
                 \/ u = 0 /\ h.state[u] = "empty" /\ r.state[u] = "open"
              /\ r.practice[u] <=> h.practice[u] /\ r.state[u] # "empty"
  <2>1. 0 \in Teams
    BY ClientsFacts
  <2> QED
    BY <2>1, ForceTeams
<1>3. ASSUME NEW t \in Teams
      PROVE  /\ r.state[t] \in Racing => h.state[t] \in Racing
             /\ r.state[t] = "started" =>
                  /\ h.state[t] = "started" /\ (r.practice[t] <=> h.practice[t])
                  /\ \A d \in Alive(h, t) :
                       IF d \in Alive(r, t) THEN r.race[d] = h.race[d]
                                            ELSE Kind[t] # "none" \/ h.started[d]
  <2>1. r.state[t] \in Racing => h.state[t] = r.state[t]
    BY <1>2 DEF Racing
  <2>2. ASSUME r.state[t] = "started", NEW d \in Alive(h, t)
        PROVE  IF d \in Alive(r, t) THEN r.race[d] = h.race[d]
                                    ELSE Kind[t] # "none" \/ h.started[d]
    <3>1. d # c => d \in Alive(r, t)
      BY <1>1, <2>2 DEF Alive, Members
    <3>2. d = c => h.team[c] = t /\ h.tee[c] = "alive"
      BY <2>2 DEF Alive, Members
    <3>3. h.state[t] = "started"
      BY <2>1, <2>2 DEF Racing
    <3> QED
      BY <1>1, <3>1, <3>2, <3>3
  <2>3. r.state[t] = "started" => r.state[t] \in Racing /\ (r.practice[t] <=> h.practice[t])
    BY <1>2 DEF Racing
  <2> QED
    BY <2>1, <2>2, <2>3
<1> QED
  BY <1>1, <1>3 DEF Loses

\* in b some of the tees cs of the team t, which has finished, have left it since a
Left(a, b, cs, t) ==
  /\ b \in Games
  /\ b.tee = a.tee /\ b.race = a.race /\ b.path = a.path /\ b.run = a.run
  /\ b.spoiled = a.spoiled /\ b.ranked = a.ranked
  /\ \A d \in Clients :
       /\ b.team[d] = a.team[d] \/ (d \in cs /\ b.team[d] = 0)
       /\ b.started[d] => a.started[d]
  /\ b.state[t] \in {"finished", "empty"}
  /\ \A u \in Teams \ {0, t} : b.state[u] = a.state[u] /\ (b.practice[u] <=> a.practice[u])

(* OnTeamFinish moves tees of the team that has finished to team 0, and all stays in order. *)
LEMMA FinishMoves ==
  ASSUME NEW h, NEW D, NEW K, Fine(h, D, K), NEW t \in Teams \ {0}, NEW cs \in SUBSET Clients,
         h.state[t] = "finished", cs \cap D = {},
         \A d \in cs : h.team[d] = t /\ h.race[d] = "finished" /\ h.path[d] # "practice"
  PROVE  Fine(OnTeamFinish(h, cs), D, K) /\ Left(h, OnTeamFinish(h, cs), cs, t)
<1> DEFINE Good == {q \in Games : Fine(q, D, K) /\ Left(h, q, cs, t)}
           S == [n \in 0..NumClients |-> Good]
<1>1. NumClients \in Nat /\ 0 \in Teams /\ t \in Teams /\ t # 0
  BY ClientsFacts
<1>2. h \in Good
  <2>1. Left(h, h, cs, t)
    BY DEF Left, Fine
  <2> QED
    BY <2>1 DEF Fine
<1>3. ASSUME NEW n \in 1..NumClients, NEW q \in Good
      PROVE  (IF n \in cs /\ ~q.locked[q.team[n]]
                THEN SetForceCharacterTeam(q, n, 0) ELSE q) \in Good
  <2>1. CASE ~(n \in cs /\ ~q.locked[q.team[n]])
    BY <2>1
  <2>2. CASE n \in cs /\ ~q.locked[q.team[n]]
    <3> DEFINE r == SetForceCharacterTeam(q, n, 0)
    <3>1. q \in Games /\ Peopled(q) /\ Fine(q, D, K) /\ Left(h, q, cs, t) /\ n \in Clients
      BY <1>3 DEF Fine, Clients
    <3>2. Fine(r, D \cup {n}, K)
      BY <3>1, <1>1, ForceKeeps
    <3>3. /\ r.team[n] = 0 /\ ~r.started[n]
          /\ \A d \in Clients \ {n} :
               r.team[d] = q.team[d] /\ r.started[d] = q.started[d]
          /\ r.tee = q.tee /\ r.race = q.race /\ r.path = q.path
          /\ r.run = q.run /\ r.spoiled = q.spoiled /\ r.ranked = q.ranked /\ r \in Games
      BY <3>1, <1>1, ForceFields
    <3>4. /\ Peopled(r)
          /\ \A u \in Teams :
               /\ \/ r.state[u] = q.state[u]
                  \/ r.state[u] = "empty" /\ u = q.team[n]
                  \/ u = 0 /\ q.state[u] = "empty" /\ r.state[u] = "open"
               /\ r.practice[u] <=> q.practice[u] /\ r.state[u] # "empty"
      BY <3>1, <1>1, ForceTeams
    <3> HIDE DEF r
    <3>5. FlagsOk(r, n, K) /\ RaceOk(r, n, K)
      <4>1. r.race[n] = "finished" /\ r.path[n] # "practice"
        BY <2>2, <3>1, <3>3 DEF Left
      <4>2. ~r.practice[0]
        BY <3>4, <1>1 DEF Peopled
      <4> QED
        BY <4>1, <4>2, <3>3, OutOfTeams
    <3>6. Fine(r, D, K)
      BY <3>2, <3>5, FineAll
    <3>7. q.team[n] \in {0, t}
      BY <2>2, <3>1 DEF Left
    <3>8. \A u \in Teams \ {0, t} : r.state[u] = h.state[u] /\ (r.practice[u] <=> h.practice[u])
      <4> SUFFICES ASSUME NEW u \in Teams \ {0, t}
                   PROVE  r.state[u] = h.state[u] /\ (r.practice[u] <=> h.practice[u])
        OBVIOUS
      <4>1. r.state[u] = q.state[u]
        BY <3>4, <3>7
      <4>2. q.state[u] = h.state[u] /\ (q.practice[u] <=> h.practice[u])
        BY <3>1 DEF Left
      <4>3. q.state[u] = "empty" => ~q.practice[u]
        BY <3>1 DEF Peopled
      <4> QED
        BY <3>4, <4>1, <4>2, <4>3
    <3>9. r.state[t] \in {"finished", "empty"}
      BY <3>1, <3>4, <1>1 DEF Left
    <3>10. \A d \in Clients :
             /\ r.team[d] = h.team[d] \/ (d \in cs /\ r.team[d] = 0)
             /\ r.started[d] => h.started[d]
      BY <2>2, <3>1, <3>3 DEF Left
    <3>11. Left(h, r, cs, t)
      BY <3>1, <3>3, <3>8, <3>9, <3>10 DEF Left
    <3>12. r \in Good
      BY <3>3, <3>6, <3>11
    <3> QED
      BY <2>2, <3>12 DEF r
  <2> QED
    BY <2>1, <2>2
<1>4. S \in [0..NumClients -> SUBSET Games]
  OBVIOUS
<1>5. h \in S[0]
  BY <1>1, <1>2
<1>6. \A n \in 1..NumClients : \A q \in S[n - 1] :
        (IF n \in cs /\ ~q.locked[q.team[n]] THEN SetForceCharacterTeam(q, n, 0) ELSE q) \in S[n]
  <2>1. \A n \in 1..NumClients : S[n - 1] = Good /\ S[n] = Good
    BY <1>1
  <2> HIDE DEF S, Good
  <2> QED
    BY <2>1, <1>3
<1>7. S[NumClients] = Good
  BY <1>1
<1> HIDE DEF S
<1>8. OnTeamFinish(h, cs) \in S[NumClients]
  BY <1>4, <1>5, <1>6, FinishLoop
<1> QED
  BY <1>7, <1>8

(* Who is a member of a team that has finished its run, lives, and has started and finished, unless
   the team is spoiled or saved. *)
LEMMA FinishedTeam ==
  ASSUME NEW h, NEW D \in SUBSET Clients, Fine(h, D, Kind), NEW t \in Teams,
         \A d \in D : h.team[d] = t => h.state[t] # "started", TeamFinished(h, t)
  PROVE  /\ h.state[t] = "started" /\ t # 0
         /\ \A c \in Alive(h, t) :
              /\ c \in Clients /\ c \notin D /\ h.team[c] = t /\ h.tee[c] = "alive"
              /\ h.path[c] = "practice" <=> h.practice[t]
         /\ ~h.spoiled[t] /\ Kind[t] = "none" =>
              /\ Alive(h, t) = Members(h, t)
              /\ \A c \in Alive(h, t) :
                   h.started[c] /\ (~h.practice[t] => h.path[c] = "finish" /\ h.race[c] # "none")
<1>1. h.state[t] = "started" /\ t # 0
  BY DEF TeamFinished, Fine, Peopled
<1>2. ASSUME NEW c \in Members(h, t)
      PROVE  /\ c \in Clients /\ c \notin D /\ h.team[c] = t /\ h.finished[c]
             /\ FlagsOk(h, c, Kind) /\ RaceOk(h, c, Kind)
  <2>1. c \in Clients /\ h.team[c] = t /\ h.finished[c] /\ c \notin D
    BY <1>1, <1>2 DEF Members, TeamFinished
  <2> QED
    BY <2>1 DEF Fine
<1>3. ASSUME NEW c \in Alive(h, t)
      PROVE  /\ c \in Members(h, t) /\ h.tee[c] = "alive"
             /\ h.path[c] = "practice" <=> h.practice[t]
  <2>1. c \in Members(h, t) /\ h.tee[c] = "alive"
    BY <1>3 DEF Alive
  <2> QED
    BY <1>2, <2>1 DEF RaceOk
<1>4. ASSUME ~h.spoiled[t], Kind[t] = "none", NEW c \in Members(h, t)
      PROVE  h.tee[c] = "alive" /\ h.started[c]
  BY <1>1, <1>2, <1>4 DEF FlagsOk
<1>5. ASSUME ~h.spoiled[t], Kind[t] = "none", NEW c \in Alive(h, t), ~h.practice[t]
      PROVE  h.path[c] = "finish" /\ h.race[c] # "none"
  <2>1. RaceOk(h, c, Kind) /\ h.team[c] = t /\ h.tee[c] = "alive" /\ h.finished[c]
    BY <1>2, <1>3, <1>5
  <2> QED
    BY <1>1, <1>5, <2>1 DEF RaceOk
<1>6. ~h.spoiled[t] /\ Kind[t] = "none" => Alive(h, t) = Members(h, t)
  BY <1>4 DEF Alive
<1> QED
  BY <1>1, <1>2, <1>3, <1>4, <1>5, <1>6

\* a team that has finished, with its tees cs, before they leave
Cleared(h, t, cs) ==
  [h EXCEPT !.started = [c \in Clients |-> @[c] /\ c \notin cs],
            !.finished = [c \in Clients |-> @[c] /\ c \notin cs],
            !.race = [c \in Clients |-> IF c \in cs THEN "finished" ELSE @[c]],
            !.state[t] = "finished"]

(* CheckTeamFinished clears the flags of the tees of the team. *)
LEMMA ClearedFields ==
  ASSUME NEW h \in Games, NEW t \in Teams, NEW cs \in SUBSET Clients, NEW r, r = Cleared(h, t, cs)
  PROVE  /\ r \in Games
         /\ \A c \in cs : ~r.started[c] /\ ~r.finished[c] /\ r.race[c] = "finished"
         /\ \A c \in Clients \ cs :
              /\ r.started[c] <=> h.started[c]
              /\ r.finished[c] <=> h.finished[c]
              /\ r.race[c] = h.race[c]
         /\ r.state[t] = "finished" /\ \A u \in Teams \ {t} : r.state[u] = h.state[u]
         /\ r.team = h.team /\ r.tee = h.tee /\ r.path = h.path /\ r.locked = h.locked
         /\ r.practice = h.practice /\ r.kill = h.kill /\ r.run = h.run
         /\ r.spoiled = h.spoiled /\ r.ranked = h.ranked
<1>1. /\ h.started \in [Clients -> BOOLEAN] /\ h.finished \in [Clients -> BOOLEAN]
      /\ h.race \in [Clients -> {"none", "started", "finished"}]
      /\ h.state \in [Teams -> {"empty", "open", "started", "unfinishable", "finished"}]
  BY DEF Games
<1>2. /\ r.started = [c \in Clients |-> h.started[c] /\ c \notin cs]
      /\ r.finished = [c \in Clients |-> h.finished[c] /\ c \notin cs]
      /\ r.race = [c \in Clients |-> IF c \in cs THEN "finished" ELSE h.race[c]]
      /\ r.state = [h.state EXCEPT ![t] = "finished"]
      /\ r.team = h.team /\ r.tee = h.tee /\ r.path = h.path /\ r.locked = h.locked
      /\ r.practice = h.practice /\ r.kill = h.kill /\ r.run = h.run
      /\ r.spoiled = h.spoiled /\ r.ranked = h.ranked
  BY DEF Games, Cleared
<1>3. r \in Games
  <2>1. /\ [c \in Clients |-> h.started[c] /\ c \notin cs] \in [Clients -> BOOLEAN]
        /\ [c \in Clients |-> h.finished[c] /\ c \notin cs] \in [Clients -> BOOLEAN]
        /\ [c \in Clients |-> IF c \in cs THEN "finished" ELSE h.race[c]]
             \in [Clients -> {"none", "started", "finished"}]
    BY <1>1
  <2> QED
    BY <2>1 DEF Games, Cleared
<1> QED
  BY <1>1, <1>2, <1>3

(* A team that has finished is in order, before its tees leave and with any ranks. *)
LEMMA ClearedKeeps ==
  ASSUME NEW h, NEW D \in SUBSET Clients, Fine(h, D, Kind), NEW t \in Teams,
         \A d \in D : h.team[d] = t => h.state[t] # "started", TeamFinished(h, t),
         NEW r, r = Cleared(h, t, Alive(h, t))
  PROVE  Fine(r, D, Kind)
<1> DEFINE cs == Alive(h, t)
<1>1. /\ h \in Games /\ Peopled(h) /\ Waiting(h, Kind) /\ Even(h, Kind)
      /\ \A d \in Clients \ D : FlagsOk(h, d, Kind) /\ RaceOk(h, d, Kind)
  BY DEF Fine
<1>2. /\ h.state[t] = "started" /\ t # 0
      /\ \A c \in cs :
           /\ c \in Clients /\ c \notin D /\ h.team[c] = t /\ h.tee[c] = "alive"
           /\ h.path[c] = "practice" <=> h.practice[t]
      /\ ~h.spoiled[t] /\ Kind[t] = "none" => cs = Members(h, t)
      /\ cs = Alive(h, t)
  BY FinishedTeam
<1> HIDE DEF cs
<1>3. /\ r \in Games
      /\ \A c \in cs : ~r.started[c] /\ ~r.finished[c] /\ r.race[c] = "finished"
      /\ \A c \in Clients \ cs :
           /\ r.started[c] <=> h.started[c]
           /\ r.finished[c] <=> h.finished[c]
           /\ r.race[c] = h.race[c]
      /\ r.state[t] = "finished" /\ \A u \in Teams \ {t} : r.state[u] = h.state[u]
      /\ r.team = h.team /\ r.tee = h.tee /\ r.path = h.path /\ r.locked = h.locked
      /\ r.practice = h.practice /\ r.kill = h.kill /\ r.spoiled = h.spoiled
  <2>1. r = Cleared(h, t, cs) /\ cs \in SUBSET Clients
    BY <1>2 DEF cs
  <2> QED
    BY <1>1, <2>1, ClearedFields
<1>4. Peopled(r)
  <2> SUFFICES ASSUME NEW u \in Teams
               PROVE  /\ u # 0 => (r.state[u] = "empty" <=> Members(r, u) = {})
                      /\ r.state[u] = "empty" => ~r.locked[u] /\ ~r.practice[u] /\ ~r.kill[u]
                      /\ u = 0 => /\ r.state[u] \in {"empty", "open"} /\ ~r.locked[u]
                                  /\ ~r.practice[u] /\ ~r.spoiled[u]
    BY DEF Peopled
  <2>1. /\ u # 0 => (h.state[u] = "empty" <=> Members(h, u) = {})
        /\ h.state[u] = "empty" => ~h.locked[u] /\ ~h.practice[u] /\ ~h.kill[u]
        /\ u = 0 => /\ h.state[u] \in {"empty", "open"} /\ ~h.locked[u] /\ ~h.practice[u]
                    /\ ~h.spoiled[u]
    BY <1>1 DEF Peopled
  <2>2. Members(r, u) = Members(h, u)
    BY <1>3 DEF Members
  <2>3. u = t => Members(h, u) # {}
    BY <1>2, <2>1
  <2> QED
    BY <2>1, <2>2, <2>3, <1>2, <1>3
<1>5. Waiting(r, Kind)
  <2> SUFFICES ASSUME NEW u \in Teams, Kind[u] # "none"
               PROVE  /\ u # 0 /\ ~r.practice[u]
                      /\ r.state[u] \in Waits(Kind[u])
    BY DEF Waiting
  <2>1. /\ u # 0 /\ ~h.practice[u]
        /\ h.state[u] \in Waits(Kind[u])
    BY <1>1 DEF Waiting
  <2>2. CASE u # t
    BY <2>1, <2>2, <1>3
  <2>3. CASE u = t
    BY <2>1, <2>3, <1>2, <1>3 DEF Waits
  <2> QED
    BY <2>2, <2>3
<1>6. Even(r, Kind)
  <2> SUFFICES ASSUME NEW u \in Teams \ {0}, r.state[u] = "started", ~r.practice[u],
                      Kind[u] = "none", ~r.spoiled[u], NEW d \in Alive(r, u), NEW e \in Alive(r, u)
               PROVE  r.race[d] = r.race[e]
    BY DEF Even
  <2>1. u # t
    BY <1>3
  <2>2. h.state[u] = "started" /\ ~h.practice[u] /\ ~h.spoiled[u]
    BY <1>3, <2>1
  <2>3. d \in Alive(h, u) /\ e \in Alive(h, u)
    BY <1>3 DEF Alive, Members
  <2>4. d \in Clients \ cs /\ e \in Clients \ cs
    BY <1>2, <2>1, <2>3 DEF Alive, Members
  <2>5. h.race[d] = h.race[e]
    BY <1>1, <2>2, <2>3 DEF Even
  <2> QED
    BY <1>3, <2>4, <2>5
<1>7. ASSUME NEW d \in Clients \ D PROVE FlagsOk(r, d, Kind) /\ RaceOk(r, d, Kind)
  <2>1. CASE d \in cs
    <3>1. /\ r.team[d] = t /\ r.tee[d] = "alive" /\ r.state[t] = "finished"
          /\ ~r.started[d] /\ ~r.finished[d] /\ r.race[d] = "finished"
          /\ r.path[d] = "practice" <=> r.practice[t]
      BY <1>2, <1>3, <2>1
    <3>2. FlagsOk(r, d, Kind)
      BY <3>1 DEF FlagsOk
    <3>3. RaceOk(r, d, Kind)
      BY <1>2, <3>1 DEF RaceOk, Racing
    <3> QED
      BY <3>2, <3>3
  <2>2. CASE d \notin cs /\ h.team[d] = t
    <3>1. d \in Members(h, t) /\ h.tee[d] # "alive"
      BY <1>2, <2>2 DEF Members, Alive
    <3>2. h.spoiled[t] \/ Kind[t] # "none"
      BY <1>2, <2>2, <3>1
    <3>3. /\ FlagsOk(h, d, Kind)
          /\ r.started[d] <=> h.started[d]
          /\ r.finished[d] <=> h.finished[d]
      BY <1>1, <1>3, <2>2
    <3>4. FlagsOk(r, d, Kind)
      BY <1>2, <1>3, <2>2, <3>1, <3>2, <3>3 DEF FlagsOk
    <3> QED
      BY <1>3, <3>1, <3>4 DEF RaceOk
  <2>3. CASE d \notin cs /\ h.team[d] # t
    <3>1. d \in Clients /\ h.team[d] \in Teams /\ h.team[d] # t
      <4>1. h.team \in [Clients -> Teams]
        BY <1>1 DEF Games
      <4> QED
        BY <2>3, <4>1
    <3>2. r.state[h.team[d]] = h.state[h.team[d]]
      BY <1>3, <3>1
    <3>3. FlagsOk(h, d, Kind) /\ RaceOk(h, d, Kind)
      BY <1>1
    <3>4. /\ r.team[d] = h.team[d] /\ r.tee[d] = h.tee[d] /\ r.race[d] = h.race[d]
          /\ r.path[d] = h.path[d] /\ (r.started[d] <=> h.started[d])
          /\ (r.finished[d] <=> h.finished[d]) /\ r.practice = h.practice
          /\ r.spoiled = h.spoiled
      BY <1>3, <2>3
    <3>5. r.started[d] = h.started[d] /\ r.finished[d] = h.finished[d]
      <4>1. /\ h.started[d] \in BOOLEAN /\ h.finished[d] \in BOOLEAN
            /\ r.started[d] \in BOOLEAN /\ r.finished[d] \in BOOLEAN
        BY <1>1, <1>3 DEF Games
      <4> QED
        BY <3>4, <4>1
    <3> QED
      BY <3>2, <3>3, <3>4, <3>5, TeeSame
  <2> QED
    BY <2>1, <2>2, <2>3
<1> QED
  BY <1>3, <1>4, <1>5, <1>6, <1>7 DEF Fine

(* Ranks are history: nothing depends on them. *)
LEMMA RankedSame ==
  ASSUME NEW h \in Games, NEW k,
         k \in [who : SUBSET Clients, run : 0..MaxRuns, spoiled : BOOLEAN, saved : BOOLEAN],
         NEW r, r = [h EXCEPT !.ranked = k]
  PROVE  /\ r \in Games /\ r.ranked = k
         /\ r.team = h.team /\ r.tee = h.tee /\ r.race = h.race /\ r.path = h.path
         /\ r.started = h.started /\ r.finished = h.finished /\ r.state = h.state
         /\ r.locked = h.locked /\ r.practice = h.practice /\ r.kill = h.kill /\ r.run = h.run
         /\ r.spoiled = h.spoiled
         /\ \A D, K : Fine(h, D, K) => Fine(r, D, K)
<1>1. /\ r \in Games /\ r.ranked = k
      /\ r.team = h.team /\ r.tee = h.tee /\ r.race = h.race /\ r.path = h.path
      /\ r.started = h.started /\ r.finished = h.finished /\ r.state = h.state
      /\ r.locked = h.locked /\ r.practice = h.practice /\ r.kill = h.kill /\ r.run = h.run
      /\ r.spoiled = h.spoiled
  BY DEF Games
<1>2. ASSUME NEW D, NEW K, Fine(h, D, K) PROVE Fine(r, D, K)
  <2>1. Peopled(r) /\ Waiting(r, K) /\ Even(r, K)
    BY <1>1, <1>2 DEF Fine, Peopled, Waiting, Even, Members, Alive
  <2>2. \A c \in Clients \ D : FlagsOk(r, c, K) /\ RaceOk(r, c, K)
    BY <1>1, <1>2 DEF Fine, FlagsOk, RaceOk
  <2> QED
    BY <1>1, <2>1, <2>2 DEF Fine
<1> QED
  BY <1>1, <1>2

(* CheckTeamFinished leaves all in order; it ends the run of a team that had started as a whole,
   ranks it if it did not practice, and does nothing to any other team. *)
LEMMA CheckKeeps ==
  ASSUME NEW h, NEW D \in SUBSET Clients, Fine(h, D, Kind), NEW t \in Teams,
         \A d \in D : h.team[d] = t => h.state[t] # "started",
         NEW r, r = CheckTeamFinished(h, t)
  PROVE  /\ Fine(r, D, Kind) /\ Loses(h, r) /\ Ranks(h, r)
         /\ r.tee = h.tee
         /\ h.state[t] # "started" => r = h
         /\ h.practice[t] => r.ranked = h.ranked
<1> DEFINE cs == Alive(h, t)
           k == Rank(cs, h.run[t], h.spoiled[t], Kind[t] # "none")
           q == Cleared(h, t, cs)
           e == IF h.practice[t] THEN q ELSE OnTeamFinish([q EXCEPT !.ranked = k], cs)
<1>1. /\ h \in Games /\ Peopled(h)
      /\ h.state[t] # "started" => ~TeamFinished(h, t)
  BY DEF Fine, TeamFinished
<1>2. r = IF ~TeamFinished(h, t) \/ cs = {} THEN h ELSE e
  BY DEF CheckTeamFinished, Cleared, GetSaving, Kind
<1>3. CASE ~TeamFinished(h, t) \/ cs = {}
  <2>1. r = h
    BY <1>2, <1>3
  <2> QED
    BY <2>1, LosesSame DEF Ranks
<1>4. CASE TeamFinished(h, t) /\ cs # {}
  <2>1. r = e
    BY <1>2, <1>4
  <2> HIDE DEF e
  <2>2. /\ h.state[t] = "started" /\ t # 0 /\ cs \in SUBSET Clients
        /\ \A c \in cs :
             /\ c \in Clients /\ c \notin D /\ h.team[c] = t /\ h.tee[c] = "alive"
             /\ h.path[c] = "practice" <=> h.practice[t]
        /\ ~h.spoiled[t] /\ Kind[t] = "none" =>
             \A c \in cs :
               h.started[c] /\ (~h.practice[t] => h.path[c] = "finish" /\ h.race[c] # "none")
    <3>1. cs \in SUBSET Clients
      BY DEF Alive, Members
    <3> QED
      BY <1>4, <3>1, FinishedTeam
  <2>3. Fine(q, D, Kind)
    BY <1>4, ClearedKeeps
  <2> HIDE DEF cs
  <2>4. /\ q \in Games
        /\ \A c \in cs : ~q.started[c] /\ ~q.finished[c] /\ q.race[c] = "finished"
        /\ \A c \in Clients \ cs :
             /\ q.started[c] <=> h.started[c]
             /\ q.race[c] = h.race[c]
        /\ q.state[t] = "finished" /\ \A u \in Teams \ {t} : q.state[u] = h.state[u]
        /\ q.team = h.team /\ q.tee = h.tee /\ q.path = h.path
        /\ q.practice = h.practice /\ q.run = h.run
        /\ q.spoiled = h.spoiled /\ q.ranked = h.ranked
    BY <1>1, <2>2, ClearedFields
  <2> HIDE DEF q
  <2>5. /\ k \in [who : SUBSET Clients, run : 0..MaxRuns, spoiled : BOOLEAN, saved : BOOLEAN]
        /\ k.who = cs /\ k.run = h.run[t]
        /\ k.spoiled = h.spoiled[t] /\ k.saved = (Kind[t] # "none")
    <3>1. h.run[t] \in 0..MaxRuns /\ h.spoiled[t] \in BOOLEAN
      BY <1>1 DEF Games
    <3> QED
      BY <2>2, <3>1 DEF Rank
  <2> DEFINE p == [q EXCEPT !.ranked = k]
  <2>6. /\ p \in Games /\ p.ranked = k
        /\ p.team = q.team /\ p.tee = q.tee /\ p.race = q.race /\ p.path = q.path
        /\ p.started = q.started /\ p.state = q.state
        /\ p.practice = q.practice /\ p.run = q.run /\ p.spoiled = q.spoiled
        /\ Fine(p, D, Kind)
    <3> HIDE DEF k
    <3> QED
      BY <2>3, <2>4, <2>5, RankedSame
  <2>7. r = IF h.practice[t] THEN q ELSE OnTeamFinish(p, cs)
    BY <2>1 DEF e
  <2> HIDE DEF p, k
  <2>8. ~h.practice[t] => Fine(OnTeamFinish(p, cs), D, Kind) /\ Left(p, OnTeamFinish(p, cs), cs, t)
    <3>1. CASE ~h.practice[t]
      <4>1. p.state[t] = "finished" /\ cs \cap D = {} /\ t \in Teams \ {0} /\ cs \in SUBSET Clients
        BY <2>2, <2>4, <2>6
      <4>2. \A d \in cs : p.team[d] = t /\ p.race[d] = "finished" /\ p.path[d] # "practice"
        BY <2>2, <2>4, <2>6, <3>1
      <4> QED
        BY <2>6, <4>1, <4>2, FinishMoves
    <3> QED
      BY <3>1
  <2>9. Left(q, r, cs, t) \/ Left(p, r, cs, t)
    <3>1. Left(q, q, cs, t)
      BY <2>4 DEF Left
    <3> QED
      BY <2>7, <2>8, <3>1
  <2>10. /\ r.tee = h.tee /\ r.path = h.path /\ r.run = h.run /\ r.spoiled = h.spoiled
         /\ \A d \in Clients :
              /\ r.team[d] = h.team[d] \/ (d \in cs /\ r.team[d] = 0)
              /\ r.started[d] => h.started[d]
              /\ d \notin cs => r.race[d] = h.race[d]
         /\ r.state[t] \in {"finished", "empty"}
         /\ \A u \in Teams \ {0, t} :
              r.state[u] = h.state[u] /\ (r.practice[u] <=> h.practice[u])
    <3>1. CASE Left(q, r, cs, t)
      BY <2>2, <2>4, <3>1 DEF Left
    <3>2. CASE Left(p, r, cs, t)
      BY <2>2, <2>4, <2>6, <3>2 DEF Left
    <3> QED
      BY <2>9, <3>1, <3>2
  <2>11. Fine(r, D, Kind)
    BY <2>3, <2>7, <2>8
  <2>12. Loses(h, r)
    <3>1. ASSUME NEW u \in Teams, r.state[u] \in Racing
          PROVE  u # 0 /\ u # t /\ r.state[u] = h.state[u] /\ (r.practice[u] <=> h.practice[u])
      <4>1. u # t
        BY <2>10, <3>1 DEF Racing
      <4>2. u # 0
        BY <2>11, <3>1 DEF Fine, Peopled, Racing
      <4> QED
        BY <2>10, <4>1, <4>2
    <3>2. ASSUME NEW u \in Teams, r.state[u] = "started", NEW c \in Alive(h, u)
          PROVE  c \in Alive(r, u) /\ r.race[c] = h.race[c]
      <4>1. u # t /\ c \in Clients /\ h.team[c] = u /\ h.tee[c] = "alive"
        BY <3>1, <3>2 DEF Alive, Members, Racing
      <4>2. c \notin cs
        BY <2>2, <4>1
      <4> QED
        BY <2>10, <4>1, <4>2 DEF Alive, Members
    <3>3. \A u \in Teams : r.state[u] = "started" => r.state[u] \in Racing
      BY DEF Racing
    <3> QED
      BY <2>10, <3>1, <3>2, <3>3 DEF Loses
  <2>13. h.practice[t] => r.ranked = h.ranked
    BY <2>4, <2>7
  <2>14. ~h.practice[t] => Finishes(h, r, t)
    <3>1. CASE ~h.practice[t]
      <4>1. r.ranked = k
        BY <2>6, <2>7, <2>8, <3>1 DEF Left
      <4>2. /\ r.ranked.run = h.run[t] /\ r.ranked.who = cs
            /\ r.ranked.spoiled = h.spoiled[t] /\ r.ranked.saved = (Kind[t] # "none")
        BY <4>1, <2>5
      <4>3. r.state[t] \notin Racing
        BY <2>10 DEF Racing
      <4>4. ~h.spoiled[t] /\ Kind[t] = "none" =>
              \A c \in cs :
                /\ h.race[c] # "none" /\ r.tee[c] = "alive" /\ r.path[c] = "finish"
                /\ r.team[c] \in {t, 0}
        BY <2>2, <2>10, <3>1 DEF Alive, Members
      <4>5. ~h.spoiled[t] /\ Kind[t] = "none" => \A c \in Alive(h, t) : h.started[c]
        BY <2>2 DEF cs
      <4>6. cs \subseteq Alive(h, t)
        BY DEF cs
      <4> QED
        BY <1>4, <2>2, <3>1, <4>2, <4>3, <4>4, <4>5, <4>6 DEF Finishes
    <3> QED
      BY <3>1
  <2>15. Ranks(h, r)
    BY <2>2, <2>13, <2>14 DEF Ranks
  <2> QED
    BY <2>2, <2>10, <2>11, <2>12, <2>13, <2>15
<1> QED
  BY <1>3, <1>4

(* Ranks after losses are ranks of the teams before. *)
LEMMA RanksAfter ==
  ASSUME NEW a, NEW b, NEW d, Loses(a, b), b.ranked = a.ranked, Ranks(b, d)
  PROVE  Ranks(a, d)
<1>1. CASE d.ranked = b.ranked
  BY <1>1 DEF Ranks
<1>2. ASSUME NEW t \in Teams \ {0}, Finishes(b, d, t) PROVE Finishes(a, d, t)
  <2>1. /\ b.state[t] = "started" /\ ~b.practice[t] /\ d.state[t] \notin Racing
        /\ d.ranked.run = b.run[t] /\ d.ranked.who # {} /\ d.ranked.who \subseteq Alive(b, t)
        /\ d.ranked.spoiled = b.spoiled[t] /\ d.ranked.saved = (Kind[t] # "none")
        /\ ~d.ranked.spoiled /\ ~d.ranked.saved =>
             /\ \A c \in Alive(b, t) : b.started[c]
             /\ \A c \in d.ranked.who :
                  /\ b.race[c] # "none" /\ d.tee[c] = "alive" /\ d.path[c] = "finish"
                  /\ d.team[c] \in {t, 0}
    BY <1>2 DEF Finishes
  <2>2. /\ a.state[t] = "started" /\ ~a.practice[t] /\ b.run = a.run /\ b.spoiled = a.spoiled
        /\ \A c \in Alive(a, t) :
             IF c \in Alive(b, t) THEN b.race[c] = a.race[c]
                                  ELSE Kind[t] # "none" \/ a.started[c]
    BY <2>1 DEF Loses
  <2>3. Alive(b, t) \subseteq Alive(a, t)
    BY DEF Loses, Alive, Members
  <2>4. ~d.ranked.spoiled /\ ~d.ranked.saved => \A c \in Alive(a, t) : a.started[c]
    <3> SUFFICES ASSUME ~d.ranked.spoiled, ~d.ranked.saved, NEW c \in Alive(a, t)
                 PROVE  a.started[c]
      OBVIOUS
    <3>1. c \in Clients
      BY DEF Alive, Members
    <3>2. b.started[c] => a.started[c]
      BY <3>1 DEF Loses
    <3> QED
      BY <2>1, <2>2, <3>2
  <2> QED
    BY <2>1, <2>2, <2>3, <2>4 DEF Finishes
<1> QED
  BY <1>1, <1>2 DEF Ranks

(* Losses after ranks leave the ranks, when who is ranked lives on. *)
LEMMA RanksBefore ==
  ASSUME NEW a, NEW b, NEW d, Ranks(a, b), Loses(b, d), d.ranked = b.ranked,
         \A c \in b.ranked.who : c \in Clients /\ (b.tee[c] = "alive" => d.tee[c] = "alive")
  PROVE  Ranks(a, d)
<1>1. CASE b.ranked = a.ranked
  BY <1>1 DEF Ranks
<1>2. ASSUME NEW t \in Teams \ {0}, Finishes(a, b, t) PROVE Finishes(a, d, t)
  <2>1. d.state[t] \notin Racing
    BY <1>2 DEF Finishes, Loses
  <2>2. ~d.ranked.spoiled /\ ~d.ranked.saved =>
          \A c \in d.ranked.who :
            /\ a.race[c] # "none" /\ d.tee[c] = "alive" /\ d.path[c] = "finish"
            /\ d.team[c] \in {t, 0}
    BY <1>2 DEF Finishes, Loses
  <2> QED
    BY <1>2, <2>1, <2>2 DEF Finishes
<1> QED
  BY <1>1, <1>2 DEF Ranks

\* h is a but for the tee c, which may have died
Fallen(a, h, c) ==
  /\ a \in Games /\ h \in Games
  /\ \A d \in Clients \ {c} : h.tee[d] = a.tee[d]
  /\ h.tee[c] = "alive" => a.tee[c] = "alive"
  /\ h.team = a.team /\ h.race = a.race /\ h.path = a.path /\ h.started = a.started
  /\ h.finished = a.finished /\ h.state = a.state /\ h.locked = a.locked
  /\ h.practice = a.practice /\ h.kill = a.kill /\ h.run = a.run
  /\ h.spoiled = a.spoiled /\ h.ranked = a.ranked

(* A tee dies. *)
LEMMA TeeDies ==
  ASSUME NEW a \in Games, NEW c \in Clients, NEW x \in {"dead", "corpse", "out"},
         NEW h, h = [a EXCEPT !.tee[c] = x]
  PROVE  Fallen(a, h, c) /\ h.tee[c] = x
<1>1. /\ h \in Games /\ h.tee = [a.tee EXCEPT ![c] = x]
      /\ h.team = a.team /\ h.race = a.race /\ h.path = a.path /\ h.started = a.started
      /\ h.finished = a.finished /\ h.state = a.state /\ h.locked = a.locked
      /\ h.practice = a.practice /\ h.kill = a.kill /\ h.run = a.run
      /\ h.spoiled = a.spoiled /\ h.ranked = a.ranked
  BY DEF Games
<1>2. h.tee[c] = x /\ \A d \in Clients \ {c} : h.tee[d] = a.tee[d]
  BY <1>1 DEF Games
<1> QED
  BY <1>1, <1>2 DEF Fallen

(* The others are in order whether a tee lives or not. *)
LEMMA FallenKeeps ==
  ASSUME NEW a, NEW h, NEW c \in Clients, NEW D, NEW K, Fallen(a, h, c), Fine(a, D, K), c \in D
  PROVE  Fine(h, D, K)
<1>1. /\ a \in Games /\ h \in Games
      /\ \A d \in Clients \ {c} : h.tee[d] = a.tee[d]
      /\ h.tee[c] = "alive" => a.tee[c] = "alive"
      /\ h.team = a.team /\ h.race = a.race /\ h.path = a.path /\ h.started = a.started
      /\ h.finished = a.finished /\ h.state = a.state /\ h.locked = a.locked
      /\ h.practice = a.practice /\ h.kill = a.kill /\ h.spoiled = a.spoiled
  BY DEF Fallen
<1>2. Peopled(h) /\ Waiting(h, K)
  BY <1>1 DEF Fine, Peopled, Waiting, Members
<1>3. Even(h, K)
  <2>1. \A t : \A d \in Alive(h, t) : d \in Alive(a, t)
    BY <1>1 DEF Alive, Members
  <2> QED
    BY <1>1, <2>1 DEF Fine, Even
<1>4. ASSUME NEW d \in Clients \ D PROVE FlagsOk(h, d, K) /\ RaceOk(h, d, K)
  <2>1. FlagsOk(a, d, K) /\ RaceOk(a, d, K) /\ h.tee[d] = a.tee[d]
    BY <1>1, <1>4 DEF Fine
  <2> QED
    BY <1>1, <2>1, TeeSame
<1> QED
  BY <1>1, <1>2, <1>3, <1>4 DEF Fine

\* a team that the tee c leaves by its death: it cannot finish if c has not started
Abandoned(h, c) ==
  LET t == h.team[c]
      unstarted == h.state[t] = "started" /\ ~h.started[c]
  IN  [h EXCEPT !.kill[t] = @ \/ unstarted,
                !.state[t] = IF unstarted THEN "unfinishable" ELSE @]

(* A team that cannot finish any more is in order. *)
LEMMA AbandonedKeeps ==
  ASSUME NEW h, NEW D, NEW c \in Clients, Fine(h, D, Kind), Kind[h.team[c]] = "none",
         NEW r, r = Abandoned(h, c)
  PROVE  /\ Fine(r, D, Kind)
         /\ r.team = h.team /\ r.tee = h.tee /\ r.race = h.race /\ r.path = h.path
         /\ r.started = h.started /\ r.finished = h.finished /\ r.locked = h.locked
         /\ r.practice = h.practice /\ r.run = h.run
         /\ r.spoiled = h.spoiled /\ r.ranked = h.ranked
         /\ \A u \in Teams \ {h.team[c]} : r.state[u] = h.state[u]
         /\ r.state[h.team[c]] = IF h.state[h.team[c]] = "started" /\ ~h.started[c]
                                   THEN "unfinishable" ELSE h.state[h.team[c]]
<1> DEFINE t == h.team[c]
           unstarted == h.state[t] = "started" /\ ~h.started[c]
<1>1. /\ h \in Games /\ Peopled(h) /\ Waiting(h, Kind) /\ Even(h, Kind) /\ t \in Teams
      /\ \A d \in Clients \ D : FlagsOk(h, d, Kind) /\ RaceOk(h, d, Kind)
  BY DEF Fine, Games
<1>2. /\ r \in Games
      /\ r.kill = [h.kill EXCEPT ![t] = @ \/ unstarted]
      /\ r.state = [h.state EXCEPT ![t] = IF unstarted THEN "unfinishable" ELSE @]
      /\ r.team = h.team /\ r.tee = h.tee /\ r.race = h.race /\ r.path = h.path
      /\ r.started = h.started /\ r.finished = h.finished /\ r.locked = h.locked
      /\ r.practice = h.practice /\ r.run = h.run
      /\ r.spoiled = h.spoiled /\ r.ranked = h.ranked
  BY <1>1 DEF Abandoned, Games
<1>3. /\ \A u \in Teams \ {t} : r.state[u] = h.state[u] /\ r.kill[u] = h.kill[u]
      /\ r.state[t] = IF unstarted THEN "unfinishable" ELSE h.state[t]
      /\ ~unstarted => (r.kill[t] <=> h.kill[t])
  <2>1. h.state \in [Teams -> {"empty", "open", "started", "unfinishable", "finished"}]
        /\ h.kill \in [Teams -> BOOLEAN]
    BY <1>1 DEF Games
  <2> QED
    BY <1>1, <1>2, <2>1
<1> HIDE DEF t, unstarted
<1>4. /\ \A u \in Teams : Members(r, u) = Members(h, u)
      /\ \A u \in Teams : Alive(r, u) = Alive(h, u)
  BY <1>2 DEF Members, Alive
<1>5. unstarted => h.state[t] = "started" /\ t # 0
  BY <1>1 DEF unstarted, Peopled
<1>6. Peopled(r)
  <2> SUFFICES ASSUME NEW u \in Teams
               PROVE  /\ u # 0 => (r.state[u] = "empty" <=> Members(r, u) = {})
                      /\ r.state[u] = "empty" => ~r.locked[u] /\ ~r.practice[u] /\ ~r.kill[u]
                      /\ u = 0 => /\ r.state[u] \in {"empty", "open"} /\ ~r.locked[u]
                                  /\ ~r.practice[u] /\ ~r.spoiled[u]
    BY DEF Peopled
  <2>1. /\ u # 0 => (h.state[u] = "empty" <=> Members(h, u) = {})
        /\ h.state[u] = "empty" => ~h.locked[u] /\ ~h.practice[u] /\ ~h.kill[u]
        /\ u = 0 => /\ h.state[u] \in {"empty", "open"} /\ ~h.locked[u]
                    /\ ~h.practice[u] /\ ~h.spoiled[u]
    BY <1>1 DEF Peopled
  <2>2. CASE u = t /\ unstarted
    BY <1>2, <1>3, <1>4, <1>5, <2>1, <2>2
  <2>3. CASE ~(u = t /\ unstarted)
    <3>1. r.state[u] = h.state[u] /\ (r.kill[u] <=> h.kill[u])
      BY <1>3, <2>3
    <3> QED
      BY <1>2, <1>4, <2>1, <3>1
  <2> QED
    BY <2>2, <2>3
<1>7. Waiting(r, Kind)
  <2> SUFFICES ASSUME NEW u \in Teams, Kind[u] # "none"
               PROVE  /\ u # 0 /\ ~r.practice[u]
                      /\ r.state[u] \in Waits(Kind[u])
    BY DEF Waiting
  <2>1. u # t
    BY DEF t
  <2> QED
    BY <1>1, <1>2, <1>3, <2>1 DEF Waiting
<1>8. Even(r, Kind)
  <2>1. \A u \in Teams : r.state[u] = "started" => h.state[u] = "started"
    BY <1>3, <1>5
  <2> QED
    BY <1>1, <1>2, <1>4, <2>1 DEF Even
<1>9. ASSUME NEW d \in Clients \ D PROVE FlagsOk(r, d, Kind) /\ RaceOk(r, d, Kind)
  <2>1. FlagsOk(h, d, Kind) /\ RaceOk(h, d, Kind) /\ h.team[d] \in Teams
    BY <1>1 DEF Games
  <2>2. CASE h.team[d] = t /\ unstarted
    <3>1. h.state[t] = "started" /\ r.state[t] = "unfinishable"
      BY <1>3, <1>5, <2>2
    <3>2. FlagsOk(r, d, Kind)
      BY <1>2, <2>1, <2>2, <3>1 DEF FlagsOk
    <3>3. RaceOk(r, d, Kind)
      BY <1>2, <2>1, <2>2, <3>1 DEF RaceOk, Racing
    <3> QED
      BY <3>2, <3>3
  <2>3. CASE ~(h.team[d] = t /\ unstarted)
    <3>1. r.state[h.team[d]] = h.state[h.team[d]]
      BY <1>3, <2>1, <2>3
    <3> QED
      BY <1>2, <2>1, <3>1, TeeSame
  <2> QED
    BY <2>2, <2>3
<1> QED
  BY <1>2, <1>3, <1>6, <1>7, <1>8, <1>9 DEF Fine, t, unstarted

\* a death of the tee c is the death of its team, which is locked
Locks(h, c, weapon) == h.locked[h.team[c]] /\ weapon # "game"

\* a team that a death opens again, which practices on if it was open
Reopened(h, t, open) == [h EXCEPT !.state[t] = "open", !.practice[t] = @ /\ open]

(* A team opens again. *)
LEMMA ReopenedFields ==
  ASSUME NEW h \in Games, NEW t \in Teams, NEW open \in BOOLEAN, NEW r,
         r = Reopened(h, t, open)
  PROVE  /\ r \in Games /\ r.team = h.team /\ r.tee = h.tee /\ r.race = h.race
         /\ r.path = h.path /\ r.started = h.started /\ r.finished = h.finished
         /\ r.locked = h.locked /\ r.kill = h.kill /\ r.run = h.run
         /\ r.spoiled = h.spoiled /\ r.ranked = h.ranked
         /\ r.state[t] = "open" /\ (r.practice[t] <=> h.practice[t] /\ open)
         /\ \A u \in Teams \ {t} : r.state[u] = h.state[u] /\ r.practice[u] = h.practice[u]
<1>1. /\ h.state \in [Teams -> {"empty", "open", "started", "unfinishable", "finished"}]
      /\ h.practice \in [Teams -> BOOLEAN]
  BY DEF Games
<1>2. /\ r \in Games /\ r.team = h.team /\ r.tee = h.tee /\ r.race = h.race
      /\ r.path = h.path /\ r.started = h.started /\ r.finished = h.finished
      /\ r.locked = h.locked /\ r.kill = h.kill /\ r.run = h.run
      /\ r.spoiled = h.spoiled /\ r.ranked = h.ranked
      /\ r.state = [h.state EXCEPT ![t] = "open"]
      /\ r.practice = [h.practice EXCEPT ![t] = @ /\ open]
  BY DEF Games, Reopened
<1> QED
  BY <1>1, <1>2

(* Dies, by cases. *)
LEMMA DiesCases ==
  ASSUME NEW h, NEW c, h.team[c] \in Teams, NEW weapon, NEW r, r = Dies(h, c, weapon)
  PROVE  /\ Kind[h.team[c]] # "none" => r = h
         /\ Kind[h.team[c]] = "none" /\ Locks(h, c, weapon) =>
              r = Reopened(SetForceCharacterTeam(h, c, h.team[c]), h.team[c],
                           h.state[h.team[c]] = "open")
         /\ Kind[h.team[c]] = "none" /\ ~Locks(h, c, weapon) =>
              r = CheckTeamFinished(SetForceCharacterTeam(Abandoned(h, c), c, 0), h.team[c])
<1>1. GetSaving(h.team[c]) <=> Kind[h.team[c]] # "none"
  BY DEF GetSaving, Kind
<1> QED
  BY <1>1 DEF Dies, Locks, Abandoned, Reopened

\* the team of c does not wait for the database
Free(h, c) == Kind[h.team[c]] = "none"

\* the team of c has none of the tees D, but c, when it races
Calm(h, c, D) == \A d \in D \ {c} : h.team[d] = h.team[c] => h.state[h.team[c]] # "started"

\* r comes of h when c leaves for team 0, with the tees D out of order
Leaves(a, h, c, D, r) ==
  LET t == h.team[c]
  IN  /\ Fine(r, D, Kind) /\ Loses(a, r) /\ Ranks(a, r)
      /\ r.tee = h.tee /\ r.team[c] = 0
      /\ h.state[t] # "started" \/ h.practice[t] => r.ranked = a.ranked
      /\ r.ranked = a.ranked \/ c \notin r.ranked.who
      /\ h.state[t] # "started" =>
           /\ r.state[t] \in {h.state[t], "empty"} \/ t = 0
           /\ \A d \in Clients \ {c} : r.team[d] = h.team[d]

(* Who dies or goes, and does not take a locked team along, leaves for team 0; the team cannot
   finish any more, or finishes without the tee. *)
LEMMA DiesLeaves ==
  ASSUME NEW a, NEW h, NEW c \in Clients, Fallen(a, h, c), NEW D \in SUBSET Clients,
         c \in D, Fine(a, D, Kind), Free(h, c), NEW weapon, ~Locks(h, c, weapon), Calm(h, c, D),
         NEW r, r = Dies(h, c, weapon)
  PROVE  Leaves(a, h, c, D, r)
<1> DEFINE t == h.team[c]
           b == Abandoned(h, c)
           s == SetForceCharacterTeam(b, c, 0)
<1>1. Fine(h, D, Kind)
  BY FallenKeeps
<1>2. h \in Games /\ Peopled(h) /\ t \in Teams /\ 0 \in Teams
  BY <1>1, ClientsFacts DEF Fine, Games
<1>3. /\ Fine(b, D, Kind)
      /\ b.team = h.team /\ b.tee = h.tee /\ b.race = h.race /\ b.path = h.path
      /\ b.started = h.started /\ b.practice = h.practice /\ b.run = h.run
      /\ b.spoiled = h.spoiled /\ b.ranked = h.ranked
      /\ \A u \in Teams \ {t} : b.state[u] = h.state[u]
      /\ b.state[t] = IF h.state[t] = "started" /\ ~h.started[c] THEN "unfinishable" ELSE h.state[t]
  <2>1. Kind[h.team[c]] = "none"
    BY DEF Free
  <2> QED
    BY <1>1, <1>2, <2>1, AbandonedKeeps
<1>4. r = CheckTeamFinished(s, t) /\ Kind[t] = "none"
  BY <1>2, DiesCases DEF Free
<1> HIDE DEF b
<1>5. b \in Games /\ Peopled(b)
  BY <1>3 DEF Fine
<1>6. Fine(s, D \cup {c}, Kind)
  BY <1>2, <1>3, ForceKeeps
<1>7. Fine(s, D, Kind)
  <2>1. D \cup {c} = D
    OBVIOUS
  <2> QED
    BY <1>6, <2>1
<1>8. /\ s.team[c] = 0 /\ ~s.started[c]
      /\ \A d \in Clients \ {c} : s.team[d] = b.team[d] /\ s.started[d] = b.started[d]
      /\ s.tee = b.tee /\ s.race = b.race /\ s.path = b.path /\ s.run = b.run
      /\ s.spoiled = b.spoiled
      /\ s.ranked = b.ranked
  BY <1>2, <1>5, ForceFields
<1>9. /\ Peopled(s)
      /\ \A u \in Teams :
           /\ \/ s.state[u] = b.state[u]
              \/ s.state[u] = "empty" /\ u = b.team[c]
              \/ u = 0 /\ b.state[u] = "empty" /\ s.state[u] = "open"
           /\ s.practice[u] <=> b.practice[u] /\ s.state[u] # "empty"
  BY <1>2, <1>5, ForceTeams
<1> HIDE DEF s
<1>10. /\ a \in Games
       /\ \A d \in Clients \ {c} : h.tee[d] = a.tee[d]
       /\ h.tee[c] = "alive" => a.tee[c] = "alive"
       /\ h.team = a.team /\ h.race = a.race /\ h.path = a.path /\ h.started = a.started
       /\ h.state = a.state /\ h.practice = a.practice /\ h.run = a.run
       /\ h.spoiled = a.spoiled /\ h.ranked = a.ranked
  BY DEF Fallen
<1>11. ASSUME NEW u \in Teams, s.state[u] \in Racing
       PROVE  /\ a.state[u] \in Racing
              /\ s.state[u] = "started" =>
                   /\ a.state[u] = "started" /\ (s.practice[u] <=> a.practice[u])
                   /\ u = t => a.started[c]
  <2>1. s.state[u] = b.state[u]
    BY <1>9, <1>11 DEF Racing
  <2>2. s.practice[u] <=> b.practice[u]
    BY <1>9, <1>11 DEF Racing
  <2>3. b.state[u] = "started" => h.state[u] = "started" /\ (u = t => h.started[c])
    BY <1>3
  <2>4. b.state[u] = "unfinishable" => h.state[u] \in Racing
    BY <1>3 DEF Racing
  <2> QED
    BY <1>3, <1>10, <1>11, <2>1, <2>2, <2>3, <2>4 DEF Racing
<1>12. Loses(a, s)
  <2>1. ASSUME NEW d \in Clients
        PROVE  /\ s.team[d] \in {a.team[d], 0}
               /\ s.tee[d] = "alive" => a.tee[d] = "alive" /\ s.path[d] = a.path[d]
               /\ s.started[d] => a.started[d]
    BY <1>3, <1>8, <1>10
  <2>2. ASSUME NEW u \in Teams, s.state[u] = "started", NEW d \in Alive(a, u)
        PROVE  IF d \in Alive(s, u) THEN s.race[d] = a.race[d]
                                    ELSE Kind[u] # "none" \/ a.started[d]
    <3>1. d = c => a.started[d]
      <4>1. d = c => u = t
        BY <2>2, <1>10 DEF Alive, Members
      <4> QED
        BY <1>11, <2>2, <4>1 DEF Racing
    <3>2. d # c => d \in Alive(s, u)
      BY <1>3, <1>8, <1>10, <2>2 DEF Alive, Members
    <3> QED
      BY <1>3, <1>8, <1>10, <3>1, <3>2
  <2>3. \A u \in Teams : s.state[u] = "started" => s.state[u] \in Racing
    BY DEF Racing
  <2> QED
    BY <1>3, <1>8, <1>10, <1>11, <2>1, <2>2, <2>3 DEF Loses
<1>13. s.state[t] = "started" => h.state[t] = "started"
  BY <1>10, <1>11, <1>2 DEF Racing
<1>14. \A d \in D : s.team[d] = t => s.state[t] # "started"
  <2> SUFFICES ASSUME NEW d \in D, s.team[d] = t, s.state[t] = "started" PROVE FALSE
    OBVIOUS
  <2>0. s.state[t] = "started"
    OBVIOUS
  <2>1. t # 0
    BY <1>2, <1>9, <2>0 DEF Peopled
  <2>2. d \in D \ {c} /\ d \in Clients
    BY <1>8, <2>1
  <2> QED
    BY <1>3, <1>8, <1>13, <2>2 DEF Calm
<1>15. /\ Fine(r, D, Kind) /\ Loses(s, r) /\ Ranks(s, r) /\ r.tee = s.tee
       /\ s.state[t] # "started" => r = s
       /\ s.practice[t] => r.ranked = s.ranked
  BY <1>2, <1>4, <1>7, <1>14, CheckKeeps
<1>16. Loses(a, r)
  BY <1>12, <1>15, LosesMore
<1>17. s.ranked = a.ranked
  BY <1>3, <1>8, <1>10
<1>18. Ranks(a, r)
  BY <1>12, <1>15, <1>17, RanksAfter
<1>19. r.team[c] = 0
  BY <1>8, <1>15 DEF Loses
<1>20. h.state[t] # "started" \/ h.practice[t] => r.ranked = a.ranked
  <2>1. s.state[t] = "started" /\ h.practice[t] => s.practice[t]
    BY <1>2, <1>3, <1>9
  <2> QED
    BY <1>13, <1>15, <1>17, <2>1
<1>21. r.ranked = a.ranked \/ c \notin r.ranked.who
  <2>1. CASE r.ranked = s.ranked
    BY <1>17, <2>1
  <2>2. ASSUME NEW u \in Teams \ {0}, Finishes(s, r, u) PROVE c \notin r.ranked.who
    <3>1. c \notin Alive(s, u)
      BY <1>8 DEF Alive, Members
    <3> QED
      BY <2>2, <3>1 DEF Finishes
  <2> QED
    BY <1>15, <2>1, <2>2 DEF Ranks
<1>22. ASSUME h.state[t] # "started"
       PROVE  /\ r.state[t] \in {h.state[t], "empty"} \/ t = 0
              /\ \A d \in Clients \ {c} : r.team[d] = h.team[d]
  <2>1. r = s
    BY <1>13, <1>15, <1>22
  <2>2. b.state[t] = h.state[t]
    BY <1>3, <1>22
  <2> QED
    BY <1>2, <1>3, <1>8, <1>9, <2>1, <2>2
<1> QED
  BY <1>3, <1>8, <1>15, <1>16, <1>18, <1>19, <1>20, <1>21, <1>22 DEF Leaves

\* r comes of h by the death of c in a locked team, with the tees D out of order before
Opens(a, h, c, D, r) ==
  LET t == h.team[c]
  IN  /\ t # 0 /\ r \in Games /\ r.team = h.team /\ r.tee = h.tee
      /\ r.ranked = a.ranked
      /\ ~r.started[c] /\ \A d \in Clients \ {c} : r.started[d] = h.started[d]
      /\ r.state[t] = "open"
      /\ Loses(a, r)
      /\ Fine(r, D \cup Members(h, t), Kind)
      /\ h.state[t] = "open" => Fine(r, D, Kind)
      /\ h.tee[c] # "alive" => FlagsOk(r, c, Kind) /\ RaceOk(r, c, Kind)
      /\ \A d \in Members(h, t) \ D :
           h.tee[d] # "alive" => FlagsOk(r, d, Kind) /\ RaceOk(r, d, Kind)

(* A death in a locked team opens the team again; the dead tee stays in it without its start. *)
LEMMA DiesLocked ==
  ASSUME NEW a, NEW h, NEW c \in Clients, Fallen(a, h, c), NEW D \in SUBSET Clients,
         c \in D, Fine(a, D, Kind), Free(h, c), NEW weapon, Locks(h, c, weapon),
         NEW r, r = Dies(h, c, weapon)
  PROVE  Opens(a, h, c, D, r)
<1> DEFINE t == h.team[c]
           s == SetForceCharacterTeam(h, c, t)
           open == h.state[t] = "open"
<1>1. Fine(h, D, Kind)
  BY FallenKeeps
<1>2. /\ h \in Games /\ Peopled(h) /\ Waiting(h, Kind) /\ Even(h, Kind)
      /\ \A d \in Clients \ D : FlagsOk(h, d, Kind) /\ RaceOk(h, d, Kind)
  BY <1>1 DEF Fine
<1>3. t \in Teams /\ t # 0 /\ c \in Members(h, t) /\ h.locked[t]
  <2>1. t \in Teams /\ h.locked[t]
    BY <1>2 DEF Games, Locks
  <2> QED
    BY <2>1, <1>2 DEF Peopled, Members
<1>4. r = Reopened(s, t, open) /\ Kind[t] = "none"
  BY <1>3, DiesCases DEF Free
<1>5. /\ s \in Games /\ s.team[c] = t /\ ~s.started[c] /\ ~s.finished[c]
      /\ \A d \in Clients \ {c} :
           /\ s.team[d] = h.team[d]
           /\ s.started[d] = h.started[d] /\ s.finished[d] = h.finished[d]
      /\ s.tee = h.tee /\ s.race = h.race /\ s.path = h.path /\ s.run = h.run
      /\ s.spoiled = h.spoiled
      /\ s.ranked = h.ranked
  BY <1>2, <1>3, ForceFields
<1>6. /\ Peopled(s)
      /\ \A u \in Teams :
           /\ \/ s.state[u] = h.state[u]
              \/ s.state[u] = "empty" /\ u = t
              \/ u = t /\ h.state[u] = "empty" /\ s.state[u] = "open"
           /\ s.locked[u] <=> h.locked[u] /\ s.state[u] # "empty"
           /\ s.practice[u] <=> h.practice[u] /\ s.state[u] # "empty"
           /\ s.kill[u] <=> h.kill[u] /\ s.state[u] # "empty"
           /\ u = t => s.state[u] = h.state[u] \/ u = 0
  BY <1>2, <1>3, ForceTeams
<1>7. Waiting(s, Kind) /\ Even(s, Kind)
  <2>1. Fine(s, D \cup {c}, Kind)
    BY <1>1, <1>3, ForceKeeps
  <2> QED
    BY <2>1 DEF Fine
<1> HIDE DEF s
<1>8. /\ r \in Games /\ r.team = s.team /\ r.tee = s.tee /\ r.race = s.race /\ r.path = s.path
      /\ r.started = s.started /\ r.finished = s.finished /\ r.locked = s.locked
      /\ r.kill = s.kill /\ r.run = s.run /\ r.spoiled = s.spoiled /\ r.ranked = s.ranked
  <2>1. open \in BOOLEAN /\ s \in Games /\ t \in Teams
    BY <1>3, <1>5
  <2> HIDE DEF t, open
  <2> QED
    BY <1>4, <2>1, ReopenedFields
<1>9. /\ r.state[t] = "open" /\ (r.practice[t] <=> s.practice[t] /\ open)
      /\ \A u \in Teams \ {t} : r.state[u] = s.state[u] /\ r.practice[u] = s.practice[u]
  <2>1. open \in BOOLEAN /\ s \in Games /\ t \in Teams
    BY <1>3, <1>5
  <2> HIDE DEF t, open
  <2> QED
    BY <1>4, <2>1, ReopenedFields
<1>10. r.team = h.team
  <2>1. /\ h.team \in [Clients -> Teams] /\ s.team \in [Clients -> Teams]
    BY <1>2, <1>5 DEF Games
  <2>2. \A d \in Clients : s.team[d] = h.team[d]
    BY <1>5
  <2> QED
    BY <1>8, <2>1, <2>2
<1> HIDE DEF t
<1>11. \A u \in Teams : Members(r, u) = Members(h, u) /\ Alive(r, u) = Alive(h, u)
  BY <1>5, <1>8, <1>10 DEF Members, Alive
<1>12. \A u \in Teams \ {t} :
         r.state[u] = h.state[u] /\ (r.practice[u] <=> h.practice[u])
         /\ (r.locked[u] <=> h.locked[u]) /\ (r.kill[u] <=> h.kill[u])
  <2> SUFFICES ASSUME NEW u \in Teams \ {t}
               PROVE  r.state[u] = h.state[u] /\ (r.practice[u] <=> h.practice[u])
                      /\ (r.locked[u] <=> h.locked[u]) /\ (r.kill[u] <=> h.kill[u])
    OBVIOUS
  <2>1. s.state[u] = h.state[u] /\ r.state[u] = s.state[u] /\ r.practice[u] = s.practice[u]
    BY <1>6, <1>9
  <2>2. h.state[u] = "empty" => ~h.locked[u] /\ ~h.practice[u] /\ ~h.kill[u]
    BY <1>2 DEF Peopled
  <2> QED
    BY <1>6, <1>8, <2>1, <2>2
<1>13. Peopled(r)
  <2> SUFFICES ASSUME NEW u \in Teams
               PROVE  /\ u # 0 => (r.state[u] = "empty" <=> Members(r, u) = {})
                      /\ r.state[u] = "empty" => ~r.locked[u] /\ ~r.practice[u] /\ ~r.kill[u]
                      /\ u = 0 => /\ r.state[u] \in {"empty", "open"} /\ ~r.locked[u]
                                  /\ ~r.practice[u] /\ ~r.spoiled[u]
    BY DEF Peopled
  <2>1. /\ u # 0 => (h.state[u] = "empty" <=> Members(h, u) = {})
        /\ h.state[u] = "empty" => ~h.locked[u] /\ ~h.practice[u] /\ ~h.kill[u]
        /\ u = 0 => /\ h.state[u] \in {"empty", "open"} /\ ~h.locked[u]
                    /\ ~h.practice[u] /\ ~h.spoiled[u]
    BY <1>2 DEF Peopled
  <2>2. CASE u = t
    BY <1>3, <1>9, <1>11, <2>2
  <2>3. CASE u # t
    BY <1>5, <1>8, <1>11, <1>12, <2>1, <2>3
  <2> QED
    BY <2>2, <2>3
<1>14. Waiting(r, Kind)
  <2> SUFFICES ASSUME NEW u \in Teams, Kind[u] # "none"
               PROVE  /\ u # 0 /\ ~r.practice[u]
                      /\ r.state[u] \in Waits(Kind[u])
    BY DEF Waiting
  <2>1. u # t
    BY <1>4
  <2> QED
    BY <1>2, <1>12, <2>1 DEF Waiting
<1>15. Even(r, Kind)
  <2>1. \A u \in Teams : r.state[u] = "started" => u # t
    BY <1>9
  <2> QED
    BY <1>2, <1>5, <1>8, <1>11, <1>12, <2>1 DEF Even
<1>16. ASSUME NEW d \in Clients, h.team[d] # t \/ open, d \notin D
       PROVE  FlagsOk(r, d, Kind) /\ RaceOk(r, d, Kind)
  <2>1. FlagsOk(h, d, Kind) /\ RaceOk(h, d, Kind) /\ h.team[d] \in Teams
    BY <1>2, <1>16 DEF Games
  <2>2. r.state[h.team[d]] = h.state[h.team[d]] /\ (r.practice[h.team[d]] <=> h.practice[h.team[d]])
    <3>1. CASE h.team[d] # t
      BY <1>12, <2>1, <3>1
    <3>2. CASE h.team[d] = t
      <4>1. h.state[t] = "open" /\ s.state[t] = "open"
        BY <1>3, <1>6, <1>16, <3>2
      <4> QED
        BY <1>3, <1>6, <1>9, <3>2, <4>1
    <3> QED
      BY <3>1, <3>2
  <2>3. d # c
    BY <1>16
  <2>4. /\ r.team[d] = h.team[d] /\ r.tee[d] = h.tee[d] /\ r.race[d] = h.race[d]
        /\ r.path[d] = h.path[d] /\ r.started[d] = h.started[d]
        /\ r.finished[d] = h.finished[d] /\ r.spoiled = h.spoiled
    BY <1>5, <1>8, <1>10, <2>3
  <2> QED
    BY <2>1, <2>2, <2>4, TeeSame
<1>17. Fine(r, D \cup Members(h, t), Kind)
  <2>1. \A d \in Clients \ (D \cup Members(h, t)) : h.team[d] # t /\ d \notin D
    BY <1>3 DEF Members
  <2> QED
    BY <1>8, <1>13, <1>14, <1>15, <1>16, <2>1 DEF Fine
<1>18. open => Fine(r, D, Kind)
  BY <1>8, <1>13, <1>14, <1>15, <1>16 DEF Fine
<1>19. ASSUME NEW d \in Members(h, t), h.tee[d] # "alive", d = c \/ d \notin D
       PROVE  FlagsOk(r, d, Kind) /\ RaceOk(r, d, Kind)
  <2>1. d \in Clients /\ r.team[d] = t /\ r.tee[d] # "alive"
    BY <1>5, <1>8, <1>10, <1>19 DEF Members
  <2>2. ~r.spoiled[t] => ~r.started[d] /\ ~r.finished[d]
    <3>1. CASE d = c
      BY <1>5, <1>8, <3>1
    <3>2. CASE d # c
      <4>1. FlagsOk(h, d, Kind) /\ h.team[d] = t
        BY <1>2, <1>19, <3>2 DEF Members
      <4>2. ~h.spoiled[t] => ~h.started[d] /\ ~h.finished[d]
        BY <1>3, <1>4, <1>19, <4>1 DEF FlagsOk, t
      <4> QED
        BY <1>5, <1>8, <2>1, <3>2, <4>2
    <3> QED
      BY <3>1, <3>2
  <2>3. FlagsOk(r, d, Kind)
    BY <1>9, <2>1, <2>2 DEF FlagsOk
  <2>4. RaceOk(r, d, Kind)
    BY <2>1 DEF RaceOk
  <2> QED
    BY <2>3, <2>4
<1>20. Loses(a, r)
  <2>1. /\ a \in Games
        /\ \A d \in Clients \ {c} : h.tee[d] = a.tee[d]
        /\ h.tee[c] = "alive" => a.tee[c] = "alive"
        /\ h.team = a.team /\ h.race = a.race /\ h.path = a.path /\ h.started = a.started
        /\ h.state = a.state /\ h.practice = a.practice /\ h.run = a.run
        /\ h.spoiled = a.spoiled
    BY DEF Fallen
  <2>2. ASSUME NEW d \in Clients
        PROVE  /\ r.team[d] \in {a.team[d], 0}
               /\ r.tee[d] = "alive" => a.tee[d] = "alive" /\ r.path[d] = a.path[d]
               /\ r.started[d] => a.started[d]
    BY <1>5, <1>8, <1>10, <2>1
  <2>3. ASSUME NEW u \in Teams, r.state[u] \in Racing
        PROVE  /\ u # t /\ a.state[u] = r.state[u] /\ (r.practice[u] <=> a.practice[u])
               /\ \A d \in Alive(a, u) : d \in Alive(r, u) /\ r.race[d] = a.race[d]
    <3>1. u # t
      BY <1>9, <2>3 DEF Racing
    <3>2. \A d \in Alive(a, u) : d # c
      BY <2>1, <3>1 DEF Alive, Members, t
    <3>3. \A d \in Alive(a, u) : d \in Alive(r, u)
      BY <1>5, <1>8, <1>10, <2>1, <3>2 DEF Alive, Members
    <3> QED
      BY <1>5, <1>8, <1>12, <2>1, <3>1, <3>3
  <2>4. \A u \in Teams : r.state[u] = "started" => r.state[u] \in Racing
    BY DEF Racing
  <2> QED
    BY <1>5, <1>8, <2>1, <2>2, <2>3, <2>4 DEF Loses
<1>21. r.ranked = a.ranked
  BY <1>5, <1>8 DEF Fallen
<1> HIDE DEF open
<1>22. /\ h.tee[c] # "alive" => FlagsOk(r, c, Kind) /\ RaceOk(r, c, Kind)
       /\ \A d \in Members(h, t) \ D :
              h.tee[d] # "alive" => FlagsOk(r, d, Kind) /\ RaceOk(r, d, Kind)
  BY <1>3, <1>19
<1>23. /\ ~r.started[c] /\ \A d \in Clients \ {c} : r.started[d] = h.started[d]
       /\ r.tee = h.tee
  BY <1>5, <1>8
<1> QED
  BY <1>3, <1>8, <1>9, <1>10, <1>17, <1>18, <1>20, <1>21, <1>22, <1>23 DEF t, open, Opens

\* the team t with the lock set or not
Locked(h, t, lock) == [h EXCEPT !.locked[t] = lock]

(* A lock is nothing that the tees of a team depend on. *)
LEMMA LockedSame ==
  ASSUME NEW h, NEW D, NEW K, Fine(h, D, K), NEW t \in Teams \ {0}, NEW lock \in BOOLEAN,
         Members(h, t) # {} \/ ~lock,
         NEW r, r = Locked(h, t, lock)
  PROVE  /\ Fine(r, D, K) /\ Loses(h, r)
         /\ r.team = h.team /\ r.tee = h.tee /\ r.race = h.race /\ r.path = h.path
         /\ r.started = h.started /\ r.finished = h.finished /\ r.state = h.state
         /\ r.practice = h.practice /\ r.kill = h.kill /\ r.run = h.run
         /\ r.spoiled = h.spoiled /\ r.ranked = h.ranked
         /\ r.locked[t] = lock
<1>1. /\ h \in Games /\ Peopled(h) /\ Waiting(h, K) /\ Even(h, K)
      /\ \A d \in Clients \ D : FlagsOk(h, d, K) /\ RaceOk(h, d, K)
  BY DEF Fine
<1>2. /\ r \in Games /\ r.team = h.team /\ r.tee = h.tee /\ r.race = h.race /\ r.path = h.path
      /\ r.started = h.started /\ r.finished = h.finished /\ r.state = h.state
      /\ r.practice = h.practice /\ r.kill = h.kill /\ r.run = h.run
      /\ r.spoiled = h.spoiled /\ r.ranked = h.ranked
      /\ r.locked = [h.locked EXCEPT ![t] = lock]
  BY <1>1 DEF Games, Locked
<1>3. r.locked[t] = lock /\ \A u \in Teams \ {t} : r.locked[u] = h.locked[u]
  BY <1>1, <1>2 DEF Games
<1>4. Peopled(r)
  <2>1. h.state[t] = "empty" => ~lock
    BY <1>1 DEF Peopled
  <2> QED
    BY <1>1, <1>2, <1>3, <2>1 DEF Peopled, Members
<1>5. Waiting(r, K) /\ Even(r, K)
  BY <1>1, <1>2 DEF Waiting, Even, Alive, Members
<1>6. \A d \in Clients \ D : FlagsOk(r, d, K) /\ RaceOk(r, d, K)
  BY <1>1, <1>2, TeeSame
<1>7. Loses(h, r)
  BY <1>2 DEF Loses, Alive, Members
<1> QED
  BY <1>2, <1>3, <1>4, <1>5, <1>6, <1>7 DEF Fine

(* It does not matter which way a tee does not live. *)
LEMMA DeadSame ==
  ASSUME NEW h, NEW D, NEW K, Fine(h, D, K), NEW c \in Clients, h.tee[c] # "alive",
         NEW x \in {"dead", "corpse", "out"}, NEW r, r = [h EXCEPT !.tee[c] = x]
  PROVE  /\ Fine(r, D, K) /\ Loses(h, r)
         /\ r.team = h.team /\ r.race = h.race /\ r.path = h.path
         /\ r.started = h.started /\ r.finished = h.finished /\ r.state = h.state
         /\ r.locked = h.locked
         /\ r.practice = h.practice /\ r.kill = h.kill /\ r.run = h.run
         /\ r.spoiled = h.spoiled /\ r.ranked = h.ranked
         /\ r.tee[c] = x /\ \A d \in Clients \ {c} : r.tee[d] = h.tee[d]
<1>1. h \in Games
  BY DEF Fine
<1>2. Fallen(h, r, c) /\ r.tee[c] = x
  BY <1>1, TeeDies
<1>3. Fine(h, D \cup {c}, K)
  BY DEF Fine
<1>4. Fine(r, D \cup {c}, K)
  BY <1>2, <1>3, FallenKeeps
<1>5. /\ r.team = h.team /\ r.race = h.race /\ r.path = h.path
      /\ r.started = h.started /\ r.finished = h.finished /\ r.state = h.state
      /\ r.locked = h.locked
      /\ r.practice = h.practice /\ r.kill = h.kill /\ r.run = h.run
      /\ r.spoiled = h.spoiled /\ r.ranked = h.ranked
      /\ \A d \in Clients \ {c} : r.tee[d] = h.tee[d]
  BY <1>2 DEF Fallen
<1>6. ASSUME c \notin D PROVE Fine(r, D, K)
  <2>1. FlagsOk(h, c, K)
    BY <1>6 DEF Fine
  <2>2. FlagsOk(r, c, K)
    BY <1>2, <1>5, <2>1 DEF FlagsOk
  <2>3. RaceOk(r, c, K)
    BY <1>2 DEF RaceOk
  <2> QED
    BY <1>4, <2>2, <2>3, FineAll
<1>7. ASSUME c \in D PROVE Fine(r, D, K)
  BY <1>4, <1>7 DEF Fine
<1>8. Loses(h, r)
  <2>1. \A t \in Teams : Alive(r, t) = Alive(h, t)
    BY <1>2, <1>5 DEF Alive, Members
  <2> QED
    BY <1>2, <1>5, <2>1 DEF Loses
<1> QED
  BY <1>2, <1>5, <1>6, <1>7, <1>8

\* the tees of cs after n that live, and are not in order while they wait to be killed
Unkilled(q, cs, n) == {d \in cs : d > n /\ q.tee[d] = "alive"}

(* Who dies in a team that is open stays in it, in order, or leaves it for team 0. *)
LEMMA DiesOpen ==
  ASSUME NEW n \in Clients, NEW q, NEW h, Fallen(q, h, n), h.tee[n] = "dead",
         NEW t, h.team[n] = t, h.state[t] = "open", Kind[t] = "none",
         NEW D \in SUBSET Clients, n \in D, Fine(q, D, Kind),
         NEW r, r = Dies(h, n, "self")
  PROVE  /\ Fine(r, D, Kind) /\ Loses(q, r) /\ r.ranked = q.ranked /\ r.tee = h.tee
         /\ r.state[t] \in {"open", "empty"}
         /\ \A d \in Clients \ {n} : r.team[d] = h.team[d]
         /\ FlagsOk(r, n, Kind) /\ RaceOk(r, n, Kind)
<1>1. /\ n \in Clients /\ D \in SUBSET Clients
      /\ n \in D /\ Fallen(q, h, n) /\ Fine(q, D, Kind) /\ r = Dies(h, n, "self")
  OBVIOUS
<1>2. Free(h, n) /\ Calm(h, n, D)
  BY DEF Free, Calm
<1>3. CASE Locks(h, n, "self")
  <2>1. Opens(q, h, n, D, r)
    BY <1>1, <1>2, <1>3, DiesLocked
  <2> QED
    BY <2>1 DEF Opens
<1>4. CASE ~Locks(h, n, "self")
  <2>1. Leaves(q, h, n, D, r)
    BY <1>1, <1>2, <1>4, DiesLeaves
  <2>2. /\ Fine(r, D, Kind) /\ Loses(q, r) /\ r.tee = h.tee /\ r.team[n] = 0
        /\ r.ranked = q.ranked
        /\ r.state[t] \in {"open", "empty"} \/ t = 0
        /\ \A d \in Clients \ {n} : r.team[d] = h.team[d]
    BY <2>1 DEF Leaves
  <2>3. FlagsOk(r, n, Kind) /\ RaceOk(r, n, Kind)
    BY <2>2, OutOfTeams
  <2>4. Peopled(r) /\ 0 \in Teams
    BY <2>2, ClientsFacts DEF Fine
  <2>5. t = 0 => r.state[t] \in {"open", "empty"}
    BY <2>4 DEF Peopled
  <2> QED
    BY <2>2, <2>3, <2>5
<1> QED
  BY <1>3, <1>4

(* A pass of KillEach in a team that is open. *)
LEMMA KillPass ==
  ASSUME NEW n \in Clients, NEW q, NEW t \in Teams \ {0}, NEW cs \in SUBSET Clients,
         Kind[t] = "none", Fine(q, Unkilled(q, cs, n - 1), Kind),
         \A d \in cs : d > n - 1 => q.team[d] = t, q.state[t] \in {"open", "empty"},
         NEW r, r = IF n \in cs /\ q.tee[n] \in {"corpse", "alive"}
                      THEN Dies([q EXCEPT !.tee[n] = "dead"], n, "self") ELSE q
  PROVE  /\ Fine(r, Unkilled(r, cs, n), Kind) /\ Loses(q, r) /\ r.ranked = q.ranked
         /\ r.state[t] \in {"open", "empty"}
         /\ \A d \in Clients \ {n} : r.team[d] = q.team[d] /\ r.tee[d] = q.tee[d]
         /\ n \notin cs => r.tee[n] = q.tee[n]
         /\ n \in cs => r.tee[n] # "alive"
<1> DEFINE D == Unkilled(q, cs, n)
           E == D \cup {n}
<1>1. D \in SUBSET Clients /\ n \notin D /\ n \in Nat /\ \A d \in Clients : d \in Nat
  BY TeamsAssumption DEF Unkilled, Clients
<1>2. Unkilled(q, cs, n - 1) \subseteq E
  BY <1>1 DEF Unkilled
<1>3. q \in Games
  BY DEF Fine
<1>4. CASE n \in cs /\ q.tee[n] \in {"corpse", "alive"}
  <2> DEFINE h == [q EXCEPT !.tee[n] = "dead"]
  <2>1. Fallen(q, h, n) /\ h.tee[n] = "dead"
    BY <1>3, TeeDies
  <2>2. Fine(q, E, Kind)
    BY <1>2 DEF Fine
  <2>3. r = Dies(h, n, "self")
    BY <1>4
  <2> HIDE DEF h
  <2>4. q.team[n] = t /\ h.team[n] = t /\ h.state[t] = "open"
    <3>1. q.team[n] = t
      BY <1>1, <1>4
    <3>2. n \in Members(q, t)
      BY <3>1 DEF Members
    <3>3. q.state[t] # "empty"
      BY <3>2 DEF Fine, Peopled
    <3> QED
      BY <2>1, <3>1, <3>3 DEF Fallen
  <2>5. \A d \in Clients \ {n} : h.team[d] = q.team[d] /\ h.tee[d] = q.tee[d]
    BY <2>1 DEF Fallen
  <2>6. /\ Fine(r, E, Kind) /\ Loses(q, r) /\ r.ranked = q.ranked /\ r.tee = h.tee
        /\ r.state[t] \in {"open", "empty"}
        /\ \A d \in Clients \ {n} : r.team[d] = h.team[d]
        /\ FlagsOk(r, n, Kind) /\ RaceOk(r, n, Kind)
    <3>1. E \in SUBSET Clients /\ n \in E /\ n \in Clients /\ Kind[t] = "none"
      BY <1>1
    <3> HIDE DEF E
    <3> QED
      BY <2>1, <2>2, <2>3, <2>4, <3>1, DiesOpen
  <2>7. Fine(r, D, Kind)
    <3>1. \A d \in E \ D : d = n
      OBVIOUS
    <3> HIDE DEF D, E
    <3> QED
      BY <2>6, <3>1, FineLess
  <2>8. Unkilled(r, cs, n) = D
    <3>1. \A d \in cs : d > n => r.tee[d] = q.tee[d]
      BY <1>1, <2>5, <2>6
    <3> QED
      BY <3>1 DEF Unkilled
  <2>9. r.tee[n] = "dead"
    BY <2>1, <2>6
  <2> QED
    BY <1>4, <2>5, <2>6, <2>7, <2>8, <2>9
<1>5. CASE ~(n \in cs /\ q.tee[n] \in {"corpse", "alive"})
  <2>1. r = q
    BY <1>5
  <2>2. n \in cs => q.tee[n] # "alive"
    BY <1>5
  <2>3. Unkilled(q, cs, n - 1) = D
    <3>1. \A d \in cs : d > n - 1 /\ q.tee[d] = "alive" => d > n
      BY <1>1, <2>2
    <3>2. \A d \in cs : d > n => d > n - 1
      BY <1>1
    <3> QED
      BY <3>1, <3>2 DEF Unkilled
  <2> QED
    BY <2>1, <2>2, <2>3, LosesSame
<1> QED
  BY <1>4, <1>5

\* the tees cs are in the team t, which is open
Gathered(h, cs, t) ==
  Kind[t] = "none" /\ h.state[t] = "open" /\ \A d \in cs : h.team[d] = t

\* r comes of h when the tees cs are killed
Killed(h, cs, r) ==
  /\ Fine(r, {}, Kind) /\ Loses(h, r) /\ r.ranked = h.ranked
  /\ \A d \in Clients \ cs : r.tee[d] = h.tee[d]

(* KillEach leaves all in order, and none of the tees alive. *)
LEMMA KillEachKeeps ==
  ASSUME NEW h, NEW t \in Teams \ {0}, NEW cs \in SUBSET Clients,
         Gathered(h, cs, t), Fine(h, Unkilled(h, cs, 0), Kind),
         NEW r, r = KillEach(h, cs, "self")
  PROVE  Killed(h, cs, r)
<1> DEFINE Good(n) == {q \in Games :
             /\ Fine(q, Unkilled(q, cs, n), Kind) /\ Loses(h, q) /\ q.ranked = h.ranked
             /\ q.state[t] \in {"open", "empty"}
             /\ \A d \in cs : d > n => q.team[d] = t
             /\ \A d \in Clients \ cs : q.tee[d] = h.tee[d]}
           S == [n \in 0..NumClients |-> Good(n)]
           Pass(q, n) == IF n \in cs /\ q.tee[n] \in {"corpse", "alive"}
                           THEN Dies([q EXCEPT !.tee[n] = "dead"], n, "self") ELSE q
<1>1. NumClients \in Nat /\ Clients = 1..NumClients
  BY TeamsAssumption DEF Clients
<1>2. h \in Good(0)
  BY LosesSame DEF Fine, Gathered
<1>3. ASSUME NEW n \in 1..NumClients, NEW q \in Good(n - 1) PROVE Pass(q, n) \in Good(n)
  <2> DEFINE p == Pass(q, n)
  <2>1. /\ Fine(q, Unkilled(q, cs, n - 1), Kind) /\ Loses(h, q) /\ q.ranked = h.ranked
        /\ q.state[t] \in {"open", "empty"}
        /\ \A d \in cs : d > n - 1 => q.team[d] = t
        /\ \A d \in Clients \ cs : q.tee[d] = h.tee[d]
        /\ n \in Clients /\ Kind[t] = "none"
    BY <1>1 DEF Gathered
  <2>2. p = IF n \in cs /\ q.tee[n] \in {"corpse", "alive"}
              THEN Dies([q EXCEPT !.tee[n] = "dead"], n, "self") ELSE q
    OBVIOUS
  <2> HIDE DEF p, Pass, Good
  <2>3. /\ Fine(p, Unkilled(p, cs, n), Kind) /\ Loses(q, p) /\ p.ranked = q.ranked
        /\ p.state[t] \in {"open", "empty"}
        /\ \A d \in Clients \ {n} : p.team[d] = q.team[d] /\ p.tee[d] = q.tee[d]
        /\ n \notin cs => p.tee[n] = q.tee[n]
    BY <2>1, <2>2, KillPass
  <2>4. p \in Games /\ Loses(h, p)
    BY <2>1, <2>3, LosesMore DEF Fine
  <2>5. \A d \in cs : d > n => p.team[d] = t
    <3> SUFFICES ASSUME NEW d \in cs, d > n PROVE p.team[d] = t
      OBVIOUS
    <3>1. d > n - 1 /\ d # n /\ d \in Clients
      BY <1>1
    <3> QED
      BY <2>1, <2>3, <3>1
  <2>6. \A d \in Clients \ cs : p.tee[d] = h.tee[d]
    BY <2>1, <2>3
  <2>7. p \in Good(n)
    BY <2>1, <2>3, <2>4, <2>5, <2>6 DEF Good
  <2> QED
    BY <2>7 DEF p
<1>4. S \in [0..NumClients -> SUBSET Games]
  OBVIOUS
<1>5. h \in S[0]
  BY <1>1, <1>2
<1>6. \A n \in 1..NumClients : \A q \in S[n - 1] : Pass(q, n) \in S[n]
  <2>1. \A n \in 1..NumClients : S[n - 1] = Good(n - 1) /\ S[n] = Good(n)
    BY <1>1
  <2> HIDE DEF S, Good, Pass
  <2> QED
    BY <2>1, <1>3
<1>7. S[NumClients] = Good(NumClients)
  BY <1>1
<1> HIDE DEF S
<1>8. KillEach(h, cs, "self") \in S[NumClients]
  BY <1>4, <1>5, <1>6, KillEachLoop
<1>9. r \in Good(NumClients)
  BY <1>7, <1>8
<1>10. Unkilled(r, cs, NumClients) = {}
  <2>1. \A d \in cs : d \in 1..NumClients
    BY <1>1
  <2>2. \A d \in cs : ~(d > NumClients)
    BY <1>1, <2>1
  <2> QED
    BY <2>2 DEF Unkilled
<1> QED
  BY <1>9, <1>10 DEF Killed

\* r comes of h by the death of c, and all is in order
Died(a, h, c, r) ==
  LET t == h.team[c]
  IN  /\ Fine(r, {}, Kind) /\ Loses(a, r) /\ Ranks(a, r)
      /\ r.tee[c] = h.tee[c]
      /\ h.state[t] # "started" \/ h.practice[t] \/ Kind[t] # "none" => r.ranked = a.ranked

\* the death of c is the death of all of its team
All(h, c, weapon) ==
  /\ Free(h, c) /\ Locks(h, c, weapon) /\ h.state[h.team[c]] # "open"
  /\ Members(h, h.team[c]) # {c}

(* OnCharacterDeath, by cases. *)
LEMMA DeathCases ==
  ASSUME NEW h, NEW c \in Clients, h.team[c] \in Teams, NEW weapon, NEW r,
         r = OnCharacterDeath(h, c, weapon)
  PROVE  /\ ~All(h, c, weapon) => r = Dies(h, c, weapon)
         /\ All(h, c, weapon) =>
              \E lock \in BOOLEAN :
                r = KillEach(IF lock THEN [Dies(h, c, weapon) EXCEPT !.locked[h.team[c]] = FALSE]
                                     ELSE Dies(h, c, weapon),
                             Members(Dies(h, c, weapon), h.team[c]) \ {c}, "self")
<1> DEFINE t == h.team[c]
           one == Dies(h, c, weapon)
           cs == Members(one, t) \ {c}
           big == Cardinality(Members(h, t)) > MaxTeamSize
<1>1. GetSaving(t) <=> Kind[t] # "none"
  BY DEF GetSaving, Kind
<1>2. c \in Members(h, t)
  BY DEF Members
<1>3. Cardinality(Members(h, t)) \in Nat
  <2>1. Members(h, t) \in SUBSET Clients
    BY DEF Members
  <2> QED
    BY <2>1, ClientsFacts
<1>4. Cardinality(Members(h, t)) > 1 <=> Members(h, t) # {c}
  <2>1. Cardinality(Members(h, t)) <= 1 <=> Members(h, t) = {c}
    BY <1>2, OnlyMember
  <2> QED
    BY <1>3, <2>1
<1>5. r = IF /\ ~GetSaving(t) /\ h.locked[t] /\ weapon # "game" /\ h.state[t] # "open"
             /\ Cardinality(Members(h, t)) > 1
            THEN KillEach(IF big THEN [one EXCEPT !.locked[t] = FALSE] ELSE one, cs, "self")
            ELSE one
  BY DEF OnCharacterDeath
<1>6. (/\ ~GetSaving(t) /\ h.locked[t] /\ weapon # "game" /\ h.state[t] # "open"
       /\ Cardinality(Members(h, t)) > 1) <=> All(h, c, weapon)
  BY <1>1, <1>4 DEF All, Free, Locks
<1>7. r = IF All(h, c, weapon)
            THEN KillEach(IF big THEN [one EXCEPT !.locked[t] = FALSE] ELSE one, cs, "self")
            ELSE one
  BY <1>5, <1>6
<1>8. big \in BOOLEAN
  OBVIOUS
<1> HIDE DEF big, one, cs
<1> QED
  BY <1>7, <1>8 DEF one, cs

(* A death that is not the death of others leaves all in order. *)
LEMMA DiesKeeps ==
  ASSUME NEW a, NEW h, NEW c \in Clients, Fallen(a, h, c), Fine(a, {}, Kind), h.tee[c] # "alive",
         NEW weapon, ~All(h, c, weapon), NEW r, r = Dies(h, c, weapon)
  PROVE  Died(a, h, c, r)
<1> DEFINE t == h.team[c]
<1>1. /\ c \in {c} /\ {c} \in SUBSET Clients /\ Fine(a, {c}, Kind) /\ Calm(h, c, {c})
      /\ Fallen(a, h, c) /\ r = Dies(h, c, weapon)
  BY DEF Fine, Calm
<1>2. t \in Teams
  BY DEF Fallen, Games
<1>3. CASE ~Free(h, c)
  <2>1. r = h
    BY <1>2, <1>3, DiesCases DEF Free
  <2>2. Fine(h, {c}, Kind)
    BY <1>1, FallenKeeps
  <2>3. t # 0
    BY <1>2, <1>3, <2>2 DEF Free, Fine, Waiting
  <2>4. h.team = a.team /\ h.state = a.state /\ h.started = a.started /\ h.finished = a.finished
        /\ h.path = a.path /\ h.run = a.run
        /\ h.spoiled = a.spoiled /\ h.practice = a.practice /\ h.race = a.race
        /\ h.ranked = a.ranked
    BY DEF Fallen
  <2>5. FlagsOk(h, c, Kind)
    <3>1. FlagsOk(a, c, Kind)
      BY DEF Fine
    <3> QED
      BY <1>3, <2>3, <2>4, <3>1 DEF FlagsOk, Free
  <2>6. RaceOk(h, c, Kind)
    BY DEF RaceOk
  <2>7. Fine(h, {}, Kind)
    <3>1. \A d \in {c} \ {} : FlagsOk(h, d, Kind) /\ RaceOk(h, d, Kind)
      BY <2>5, <2>6
    <3> QED
      BY <2>2, <3>1, FineLess
  <2>8. Loses(a, h)
    <3>1. ASSUME NEW u \in Teams, NEW d \in Alive(a, u)
          PROVE  d \in Alive(h, u) \/ Kind[u] # "none"
      <4>1. d # c => d \in Alive(h, u)
        BY <2>4 DEF Fallen, Alive, Members
      <4>2. d = c => u = t
        BY <2>4 DEF Alive, Members
      <4> QED
        BY <1>3, <4>1, <4>2 DEF Free
    <3>2. \A d \in Clients : h.tee[d] = "alive" => a.tee[d] = "alive"
      BY DEF Fallen
    <3> QED
      BY <2>4, <3>1, <3>2 DEF Loses
  <2>9. Ranks(a, h)
    BY <2>4 DEF Ranks
  <2> QED
    BY <2>1, <2>4, <2>7, <2>8, <2>9 DEF Died
<1>4. CASE Free(h, c) /\ ~Locks(h, c, weapon)
  <2>1. Leaves(a, h, c, {c}, r)
    BY <1>1, <1>4, DiesLeaves
  <2>2. /\ Fine(r, {c}, Kind) /\ Loses(a, r) /\ Ranks(a, r)
        /\ r.tee = h.tee /\ r.team[c] = 0
        /\ h.state[t] # "started" \/ h.practice[t] => r.ranked = a.ranked
    BY <2>1 DEF Leaves
  <2>3. FlagsOk(r, c, Kind) /\ RaceOk(r, c, Kind)
    BY <2>2, OutOfTeams
  <2>4. Fine(r, {}, Kind)
    <3>1. \A d \in {c} \ {} : FlagsOk(r, d, Kind) /\ RaceOk(r, d, Kind)
      BY <2>3
    <3> QED
      BY <2>2, <3>1, FineLess
  <2> QED
    BY <1>4, <2>2, <2>4 DEF Died, Free
<1>5. CASE Free(h, c) /\ Locks(h, c, weapon)
  <2>1. Opens(a, h, c, {c}, r)
    BY <1>1, <1>5, DiesLocked
  <2>2. h.state[t] = "open" \/ Members(h, t) = {c}
    BY <1>5 DEF All
  <2>3. /\ Loses(a, r) /\ r.ranked = a.ranked /\ r.tee = h.tee
        /\ FlagsOk(r, c, Kind) /\ RaceOk(r, c, Kind)
        /\ h.state[t] = "open" => Fine(r, {c}, Kind)
        /\ Fine(r, {c} \cup Members(h, t), Kind)
    BY <2>1 DEF Opens
  <2>4. Fine(r, {c}, Kind)
    <3>1. Members(h, t) = {c} => {c} \cup Members(h, t) = {c}
      OBVIOUS
    <3> QED
      BY <2>2, <2>3, <3>1
  <2>5. Fine(r, {}, Kind)
    <3>1. \A d \in {c} \ {} : FlagsOk(r, d, Kind) /\ RaceOk(r, d, Kind)
      BY <2>3
    <3> QED
      BY <2>4, <3>1, FineLess
  <2>6. Ranks(a, r)
    BY <2>3 DEF Ranks
  <2> QED
    BY <2>3, <2>5, <2>6 DEF Died
<1> QED
  BY <1>3, <1>4, <1>5

(* A death leaves all in order: in a locked team that races all die with it. *)
LEMMA DeathKeeps ==
  ASSUME NEW a, NEW h, NEW c \in Clients, Fallen(a, h, c), Fine(a, {}, Kind), h.tee[c] # "alive",
         NEW weapon, NEW r, r = OnCharacterDeath(h, c, weapon)
  PROVE  Died(a, h, c, r)
<1> DEFINE t == h.team[c]
           one == Dies(h, c, weapon)
           cs == Members(one, t) \ {c}
<1>1. /\ c \in {c} /\ {c} \in SUBSET Clients /\ Fine(a, {c}, Kind) /\ Calm(h, c, {c})
      /\ Fallen(a, h, c)
  BY DEF Fine, Calm
<1>2. t \in Teams /\ h \in Games
  BY DEF Fallen, Games
<1>3. CASE ~All(h, c, weapon)
  <2>1. r = Dies(h, c, weapon)
    BY <1>2, <1>3, DeathCases
  <2> QED
    BY <1>1, <1>3, <2>1, DiesKeeps
<1>4. CASE All(h, c, weapon)
  <2>1. PICK lock \in BOOLEAN :
          r = KillEach(IF lock THEN [one EXCEPT !.locked[t] = FALSE] ELSE one, cs, "self")
    BY <1>2, <1>4, DeathCases
  <2> DEFINE base == IF lock THEN [one EXCEPT !.locked[t] = FALSE] ELSE one
  <2>2. r = KillEach(base, cs, "self")
    BY <2>1
  <2>3. Free(h, c) /\ Locks(h, c, weapon)
    BY <1>4 DEF All
  <2> HIDE DEF one
  <2>4. Opens(a, h, c, {c}, one)
    <3>1. one = Dies(h, c, weapon)
      BY DEF one
    <3> QED
      BY <1>1, <2>3, <3>1, DiesLocked
  <2>5. /\ t # 0 /\ one \in Games /\ one.team = h.team /\ one.tee = h.tee
        /\ one.ranked = a.ranked /\ one.state[t] = "open" /\ Loses(a, one)
        /\ Fine(one, {c} \cup Members(h, t), Kind)
        /\ FlagsOk(one, c, Kind) /\ RaceOk(one, c, Kind)
        /\ \A d \in Members(h, t) \ {c} :
             h.tee[d] # "alive" => FlagsOk(one, d, Kind) /\ RaceOk(one, d, Kind)
    BY <2>4 DEF Opens
  <2>6. cs = Members(h, t) \ {c} /\ cs \in SUBSET Clients /\ \A d \in cs : one.team[d] = t
    BY <2>5 DEF Members
  <2> HIDE DEF cs
  <2>7. Fine(one, Unkilled(one, cs, 0), Kind)
    <3>1. \A d \in cs : d > 0
      BY <2>6, TeamsAssumption DEF Clients
    <3>2. \A d \in ({c} \cup Members(h, t)) \ Unkilled(one, cs, 0) :
            d = c \/ (d \in Members(h, t) \ {c} /\ h.tee[d] # "alive")
      BY <2>5, <2>6, <3>1 DEF Unkilled
    <3>3. \A d \in ({c} \cup Members(h, t)) \ Unkilled(one, cs, 0) :
            FlagsOk(one, d, Kind) /\ RaceOk(one, d, Kind)
      BY <2>5, <3>2
    <3> QED
      BY <2>5, <3>3, FineLess
  <2>8. /\ Fine(base, Unkilled(base, cs, 0), Kind) /\ Loses(one, base)
        /\ base.tee = one.tee /\ base.state[t] = "open" /\ base.ranked = one.ranked
        /\ \A d \in cs : base.team[d] = t
    <3>1. CASE ~lock
      <4>1. base = one
        BY <3>1
      <4> QED
        BY <2>5, <2>6, <2>7, <4>1, LosesSame
    <3>2. CASE lock
      <4>1. PICK no \in BOOLEAN : ~no /\ base = Locked(one, t, no)
        BY <3>2 DEF Locked
      <4>4. t \in Teams \ {0} /\ (Members(one, t) # {} \/ ~no)
        BY <1>2, <2>5, <4>1
      <4> HIDE DEF base
      <4>2. /\ Fine(base, Unkilled(one, cs, 0), Kind) /\ Loses(one, base)
            /\ base.team = one.team /\ base.tee = one.tee /\ base.state = one.state
            /\ base.ranked = one.ranked
        BY <2>7, <4>1, <4>4, LockedSame
      <4>3. Unkilled(base, cs, 0) = Unkilled(one, cs, 0)
        BY <4>2 DEF Unkilled
      <4> QED
        BY <2>5, <2>6, <4>2, <4>3
    <3> QED
      BY <3>1, <3>2
  <2> HIDE DEF base
  <2>9. t \in Teams \ {0} /\ Kind[t] = "none"
    BY <1>2, <2>3, <2>5 DEF Free
  <2>10. /\ Fine(r, {}, Kind) /\ Loses(base, r) /\ r.ranked = base.ranked
         /\ \A d \in Clients \ cs : r.tee[d] = base.tee[d]
    <3> HIDE DEF t
    <3>1. Gathered(base, cs, t)
      BY <2>8, <2>9 DEF Gathered
    <3>2. Killed(base, cs, r)
      BY <2>2, <2>6, <2>8, <2>9, <3>1, KillEachKeeps
    <3> QED
      BY <3>2 DEF Killed
  <2>11. Loses(a, r)
    BY <2>5, <2>8, <2>10, LosesMore
  <2>12. r.tee[c] = h.tee[c]
    BY <2>5, <2>6, <2>8, <2>10
  <2>13. Ranks(a, r) /\ r.ranked = a.ranked
    BY <2>5, <2>8, <2>10 DEF Ranks
  <2> QED
    BY <2>10, <2>11, <2>12, <2>13 DEF Died
<1> QED
  BY <1>3, <1>4

\* the team t does not race for a rank
Idle(h, t) == h.state[t] # "started" \/ h.practice[t] \/ Kind[t] # "none"

\* r comes of a when c is killed
Slain(a, c, r) ==
  /\ Fine(r, {}, Kind) /\ Loses(a, r) /\ Ranks(a, r)
  /\ r.tee[c] \in {a.tee[c], "dead"} \ {"alive"}
  /\ Idle(a, a.team[c]) => r.ranked = a.ranked

(* KillCharacter leaves all in order, and the tee dead. *)
LEMMA KillKeeps ==
  ASSUME NEW a, Fine(a, {}, Kind), NEW c \in Clients, NEW weapon,
         NEW r, r = KillCharacter(a, c, weapon)
  PROVE  Slain(a, c, r)
<1>1. a \in Games
  BY DEF Fine
<1>2. CASE a.tee[c] \in {"corpse", "alive"}
  <2> DEFINE h == [a EXCEPT !.tee[c] = "corpse"]
             q == OnCharacterDeath(h, c, weapon)
  <2>1. r = [q EXCEPT !.tee[c] = "dead"]
    BY <1>2 DEF KillCharacter
  <2>2. Fallen(a, h, c) /\ h.tee[c] = "corpse"
    BY <1>1, TeeDies
  <2>3. q = OnCharacterDeath(h, c, weapon) /\ h.tee[c] # "alive"
    BY <2>2
  <2> HIDE DEF h, q
  <2>4. Died(a, h, c, q)
    BY <2>2, <2>3, DeathKeeps
  <2>5. /\ Fine(q, {}, Kind) /\ Loses(a, q) /\ Ranks(a, q)
        /\ q.tee[c] = "corpse"
        /\ Idle(a, a.team[c]) => q.ranked = a.ranked
    BY <2>2, <2>4 DEF Died, Fallen, Idle
  <2>6. /\ Fine(r, {}, Kind) /\ Loses(q, r) /\ r.ranked = q.ranked /\ r.tee[c] = "dead"
        /\ r.path = q.path /\ r.state = q.state
        /\ \A d \in Clients \ {c} : r.tee[d] = q.tee[d]
    <3>1. q.tee[c] # "alive" /\ "dead" \in {"dead", "corpse", "out"}
      BY <2>5
    <3> QED
      BY <2>1, <2>5, <3>1, DeadSame
  <2>7. Loses(a, r)
    BY <2>5, <2>6, LosesMore
  <2>8. Ranks(a, r)
    <3>1. \A d \in q.ranked.who : d \in Clients
      BY <2>5 DEF Fine, Games
    <3>2. \A d \in q.ranked.who : d \in Clients /\ (q.tee[d] = "alive" => r.tee[d] = "alive")
      BY <2>5, <2>6, <3>1
    <3> QED
      BY <2>5, <2>6, <3>2, RanksBefore
  <2> QED
    BY <1>2, <2>5, <2>6, <2>7, <2>8 DEF Slain
<1>3. CASE a.tee[c] \notin {"corpse", "alive"}
  <2>1. r = a
    BY <1>3 DEF KillCharacter
  <2>2. a.tee[c] # "alive"
    BY <1>3
  <2> QED
    BY <2>1, <2>2, LosesSame DEF Ranks, Slain
<1> QED
  BY <1>2, <1>3

\* r comes of h when the team t is killed
TeamSlain(h, t, r) ==
  Fine(r, {}, Kind) /\ Loses(h, r) /\ r.ranked = h.ranked /\ Alive(r, t) = {}

(* KillTeam leaves all in order, and nobody alive in the team. *)
LEMMA KillTeamKeeps ==
  ASSUME NEW h, Fine(h, {}, Kind), NEW t \in Teams \ {0}, Idle(h, t),
         NEW r, r = KillTeam(h, t)
  PROVE  TeamSlain(h, t, r)
<1> DEFINE Good(n) == {q \in Games :
             /\ Fine(q, {}, Kind) /\ Loses(h, q) /\ q.ranked = h.ranked
             /\ \A d \in Clients : d <= n => d \notin Alive(q, t)}
           S == [n \in 0..NumClients |-> Good(n)]
           Pass(q, n) == IF q.team[n] = t THEN KillCharacter(q, n, "self") ELSE q
<1>1. NumClients \in Nat /\ Clients = 1..NumClients
  BY TeamsAssumption DEF Clients
<1>2. h \in Good(0)
  <2>1. \A d \in Clients : ~(d <= 0)
    BY <1>1
  <2> QED
    BY <2>1, LosesSame DEF Fine
<1>3. ASSUME NEW n \in 1..NumClients, NEW q \in Good(n - 1) PROVE Pass(q, n) \in Good(n)
  <2>1. /\ Fine(q, {}, Kind) /\ Loses(h, q) /\ q.ranked = h.ranked
        /\ \A d \in Clients : d <= n - 1 => d \notin Alive(q, t)
        /\ n \in Clients /\ q \in Games
    BY <1>1
  <2>2. \A d \in Clients : d <= n => d = n \/ d <= n - 1
    BY <1>1
  <2>3. CASE q.team[n] # t
    <3>1. n \notin Alive(q, t)
      BY <2>3 DEF Alive, Members
    <3>2. q \in Good(n)
      BY <2>1, <2>2, <3>1
    <3>3. Pass(q, n) = q
      BY <2>3
    <3> QED
      BY <3>2, <3>3
  <2>4. CASE q.team[n] = t
    <3> DEFINE p == KillCharacter(q, n, "self")
    <3>1. p = KillCharacter(q, n, "self") /\ Pass(q, n) = p
      BY <2>4
    <3> HIDE DEF p, Pass
    <3>2. Slain(q, n, p)
      BY <2>1, <3>1, KillKeeps
    <3>3. Idle(q, t)
      BY <2>1 DEF Idle, Loses
    <3>4. /\ Fine(p, {}, Kind) /\ Loses(q, p) /\ p.ranked = h.ranked
          /\ p.tee[n] # "alive" /\ p \in Games
      BY <2>1, <2>4, <3>2, <3>3 DEF Slain, Fine
    <3>5. Loses(h, p)
      BY <2>1, <3>4, LosesMore
    <3>6. ASSUME NEW d \in Clients, d <= n PROVE d \notin Alive(p, t)
      <4>1. CASE d = n
        BY <3>4, <4>1 DEF Alive
      <4>2. CASE d # n
        <5>1. d \notin Alive(q, t)
          BY <2>1, <2>2, <3>6, <4>2
        <5>2. d \in Alive(p, t) => d \in Alive(q, t)
          BY <3>4 DEF Loses, Alive, Members
        <5> QED
          BY <5>1, <5>2
      <4> QED
        BY <4>1, <4>2
    <3>7. p \in Good(n)
      BY <3>4, <3>5, <3>6
    <3> QED
      BY <3>1, <3>7
  <2> QED
    BY <2>3, <2>4
<1>4. S \in [0..NumClients -> SUBSET Games]
  OBVIOUS
<1>5. h \in S[0]
  BY <1>1, <1>2
<1>6. \A n \in 1..NumClients : \A q \in S[n - 1] : Pass(q, n) \in S[n]
  <2>1. \A n \in 1..NumClients : S[n - 1] = Good(n - 1) /\ S[n] = Good(n)
    BY <1>1
  <2> HIDE DEF S, Good, Pass
  <2> QED
    BY <2>1, <1>3
<1>7. S[NumClients] = Good(NumClients)
  BY <1>1
<1> HIDE DEF S
<1>8. KillTeam(h, t) \in S[NumClients]
  BY <1>4, <1>5, <1>6, KillTeamLoop
<1>9. r \in Good(NumClients)
  BY <1>7, <1>8
<1>10. \A d \in Clients : d <= NumClients
  BY <1>1
<1>11. Alive(r, t) = {}
  BY <1>9, <1>10 DEF Alive, Members
<1> QED
  BY <1>9, <1>11 DEF TeamSlain

-----------------------------------------------------------------------------
(* What a step does to the runs. *)

\* the team t of b, if not spoiled, races for a rank with nobody past the start, or as it did in a
RunKept(a, b, t) ==
  b.state[t] = "started" /\ ~b.practice[t] /\ Kind[t] = "none" /\ ~b.spoiled[t] =>
    \/ \A c \in Alive(b, t) : b.race[c] = "none"
    \/ /\ a.state[t] = "started" /\ ~a.practice[t]
       /\ \E d \in Alive(a, t) : a.race[d] # "none"
       /\ \A c \in Alive(a, t) : a.path[c] = "spawn" => b.team[c] = t

\* b may come of a without the start of a run
Moves(a, b) ==
  /\ b.run = a.run /\ b.spoiled = a.spoiled
  /\ \A t \in Teams :
       /\ b.state[t] \in Racing => a.state[t] \in Racing
       /\ Kind[t] # "none" => Members(b, t) \subseteq Members(a, t)
       /\ RunKept(a, b, t)
  /\ \/ Ranks(a, b)
     \/ /\ b.ranked.run = 0
        /\ \A c \in b.ranked.who : b.team[c] = 0 /\ b.tee[c] = "alive" /\ b.path[c] = "finish"

(* A team that has nobody new and nobody gone races on as before. *)
LEMMA RunsOn ==
  ASSUME NEW a, NEW b, NEW t,
         b.state[t] = "started" /\ ~b.practice[t] => a.state[t] = "started" /\ ~a.practice[t],
         \A c \in Alive(b, t) : c \in Alive(a, t) /\ b.race[c] = a.race[c],
         \A c \in Alive(a, t) : b.team[c] = t
  PROVE  RunKept(a, b, t)
BY DEF RunKept

(* Losses are moves. *)
LEMMA LosesMoves ==
  ASSUME NEW a, NEW b, Fine(a, {}, Kind), Fine(b, {}, Kind), Loses(a, b), Ranks(a, b)
  PROVE  Moves(a, b)
<1>1. ASSUME NEW t \in Teams, Kind[t] # "none" PROVE Members(b, t) \subseteq Members(a, t)
  <2>1. t # 0
    BY <1>1 DEF Fine, Waiting
  <2> QED
    BY <2>1 DEF Loses, Members
<1>2. ASSUME NEW t \in Teams PROVE RunKept(a, b, t)
  <2>1. CASE b.state[t] = "started" /\ ~b.practice[t] /\ Kind[t] = "none" /\ ~b.spoiled[t]
    <3>1. a.state[t] = "started" /\ ~a.practice[t] /\ t # 0 /\ ~a.spoiled[t]
      BY <2>1 DEF Loses, Fine, Peopled
    <3>2. \A c \in Alive(b, t) : c \in Alive(a, t) /\ a.race[c] = b.race[c]
      <4> SUFFICES ASSUME NEW c \in Alive(b, t) PROVE c \in Alive(a, t) /\ a.race[c] = b.race[c]
        OBVIOUS
      <4>1. c \in Clients /\ b.team[c] = t /\ b.tee[c] = "alive"
        BY DEF Alive, Members
      <4>2. c \in Alive(a, t)
        BY <3>1, <4>1 DEF Loses, Alive, Members
      <4> QED
        BY <2>1, <4>2 DEF Loses
    <3>3. \A c \in Alive(a, t) : a.path[c] = "spawn" => b.team[c] = t
      <4> SUFFICES ASSUME NEW c \in Alive(a, t), a.path[c] = "spawn", b.team[c] # t PROVE FALSE
        OBVIOUS
      <4>1. c \notin Alive(b, t) /\ c \in Clients /\ a.team[c] = t /\ a.tee[c] = "alive"
        BY DEF Alive, Members
      <4>2. a.started[c]
        BY <2>1, <4>1 DEF Loses
      <4>3. RaceOk(a, c, Kind)
        BY <4>1 DEF Fine
      <4> QED
        BY <2>1, <3>1, <4>1, <4>2, <4>3 DEF RaceOk
    <3> QED
      BY <3>1, <3>2, <3>3 DEF RunKept
  <2>2. CASE ~(b.state[t] = "started" /\ ~b.practice[t] /\ Kind[t] = "none" /\ ~b.spoiled[t])
    BY <2>2 DEF RunKept
  <2> QED
    BY <2>1, <2>2
<1> QED
  BY <1>1, <1>2 DEF Moves, Loses

\* all is in order in b, which may come of a
Legal(a, b) == Fine(b, {}, Kind) /\ Moves(a, b)

(* The last of some tees is one of them. *)
LEMMA LastOfThem ==
  ASSUME NEW cs \in SUBSET Clients, cs # {}
  PROVE  LastOf(cs) \in cs
<1> DEFINE K == {k \in Nat : \E d \in cs : k = NumClients - d}
<1>1. NumClients \in Nat /\ \A d \in cs : d \in 1..NumClients
  BY TeamsAssumption DEF Clients
<1>2. K \in SUBSET Nat /\ K # {}
  <2>1. PICK d \in cs : TRUE
    OBVIOUS
  <2>2. NumClients - d \in K
    BY <1>1
  <2> QED
    BY <2>2
<1>3. PICK k \in K : \A m \in K : k <= m
  <2> HIDE DEF K
  <2> QED
    BY <1>2, LeastExists
<1>4. PICK d \in cs : k = NumClients - d
  OBVIOUS
<1>5. \A e \in cs : d >= e
  <2> SUFFICES ASSUME NEW e \in cs PROVE d >= e
    OBVIOUS
  <2>1. NumClients - e \in K
    BY <1>1
  <2>2. k <= NumClients - e
    BY <1>3, <2>1
  <2> QED
    BY <1>1, <1>4, <2>2
<1> QED
  BY <1>5 DEF LastOf

\* the tee c spawns with the race x and the path p
Spawned(h, c, x, p) == [h EXCEPT !.tee[c] = "alive", !.race[c] = x, !.path[c] = p]

\* r is h where c has spawned
IsSpawned(h, c, x, p, r) ==
  /\ r \in Games /\ r.team = h.team /\ r.started = h.started /\ r.finished = h.finished
  /\ r.state = h.state /\ r.locked = h.locked /\ r.practice = h.practice
  /\ r.kill = h.kill /\ r.run = h.run /\ r.spoiled = h.spoiled /\ r.ranked = h.ranked
  /\ r.tee[c] = "alive" /\ r.race[c] = x /\ r.path[c] = p
  /\ \A d \in Clients \ {c} :
       r.tee[d] = h.tee[d] /\ r.race[d] = h.race[d] /\ r.path[d] = h.path[d]

(* A tee spawns. *)
LEMMA SpawnedFields ==
  ASSUME NEW h \in Games, NEW c \in Clients, NEW x \in {"none", "started", "finished"},
         NEW p \in {"spawn", "start", "finish", "practice"}, NEW r, r = Spawned(h, c, x, p)
  PROVE  IsSpawned(h, c, x, p, r)
<1>1. /\ h.tee \in [Clients -> {"out", "dead", "corpse", "alive"}]
      /\ h.race \in [Clients -> {"none", "started", "finished"}]
      /\ h.path \in [Clients -> {"spawn", "start", "finish", "practice"}]
  BY DEF Games
<1>2. /\ r \in Games /\ r.team = h.team /\ r.started = h.started /\ r.finished = h.finished
      /\ r.state = h.state /\ r.locked = h.locked /\ r.practice = h.practice
      /\ r.kill = h.kill /\ r.run = h.run /\ r.spoiled = h.spoiled /\ r.ranked = h.ranked
      /\ r.tee = [h.tee EXCEPT ![c] = "alive"]
      /\ r.race = [h.race EXCEPT ![c] = x] /\ r.path = [h.path EXCEPT ![c] = p]
  BY DEF Games, Spawned
<1> QED
  BY <1>1, <1>2 DEF IsSpawned

\* x is the race that c takes on when it spawns among the tees h
TakesOn(h, c, x) ==
  LET t == h.team[c]
  IN  /\ x # "none" => t # 0 /\ \E d \in Alive(h, t) : x = h.race[d]
      /\ t # 0 /\ Kind[t] = "none" /\ Alive(h, t) # {} => \E d \in Alive(h, t) : x = h.race[d]

(* A tee that spawns with the race of its team leaves all in order. *)
LEMMA SpawnedKeeps ==
  ASSUME NEW a, NEW h, Fine(h, {}, Kind), Fine(a, {}, Kind), Loses(a, h), Ranks(a, h),
         NEW c \in Clients, h.tee[c] = "dead", NEW x, TakesOn(h, c, x),
         NEW r, r = Spawned(h, c, x, IF h.practice[h.team[c]] THEN "practice" ELSE "spawn")
  PROVE  Legal(a, r)
<1> DEFINE t == h.team[c]
           p == IF h.practice[t] THEN "practice" ELSE "spawn"
<1>1. /\ h \in Games /\ Peopled(h) /\ Waiting(h, Kind) /\ Even(h, Kind) /\ t \in Teams
      /\ \A d \in Clients : FlagsOk(h, d, Kind) /\ RaceOk(h, d, Kind)
  BY DEF Fine, Games
<1>2. x \in {"none", "started", "finished"}
  <2>1. \A d \in Alive(h, t) : h.race[d] \in {"none", "started", "finished"}
    BY <1>1 DEF Games, Alive, Members
  <2> QED
    BY <2>1 DEF TakesOn
<1>3. /\ r \in Games /\ r.team = h.team /\ r.started = h.started /\ r.finished = h.finished
      /\ r.state = h.state /\ r.locked = h.locked /\ r.practice = h.practice
      /\ r.kill = h.kill /\ r.run = h.run /\ r.spoiled = h.spoiled /\ r.ranked = h.ranked
      /\ r.tee[c] = "alive" /\ r.race[c] = x /\ r.path[c] = p
      /\ \A d \in Clients \ {c} :
              r.tee[d] = h.tee[d] /\ r.race[d] = h.race[d] /\ r.path[d] = h.path[d]
  <2>1. /\ p \in {"spawn", "start", "finish", "practice"} /\ r = Spawned(h, c, x, p)
        /\ h \in Games /\ c \in Clients
    BY <1>1
  <2> HIDE DEF p
  <2>2. IsSpawned(h, c, x, p, r)
    BY <1>2, <2>1, SpawnedFields
  <2> QED
    BY <2>2 DEF IsSpawned
<1>16. (p = "practice" <=> h.practice[t]) /\ h.team[c] = t
  OBVIOUS
<1> HIDE DEF p, t
<1>17. /\ r \in Games /\ r.team = h.team /\ r.state = h.state /\ r.locked = h.locked
       /\ r.practice = h.practice /\ r.kill = h.kill /\ r.spoiled = h.spoiled
  BY <1>3
<1>18. \A d \in Clients \ {c} :
         r.tee[d] = h.tee[d] /\ r.race[d] = h.race[d] /\ r.path[d] = h.path[d]
  BY <1>3
<1>4. \A u : Members(r, u) = Members(h, u)
  BY <1>17 DEF Members
<1>5. ASSUME NEW u, NEW d \in Alive(r, u)
      PROVE  d \in Clients /\ ((d = c /\ u = t) \/ (d # c /\ d \in Alive(h, u)))
  <2>1. d \in Clients /\ h.team[d] = u /\ r.tee[d] = "alive"
    BY <1>17 DEF Alive, Members
  <2>2. d # c => h.tee[d] = "alive"
    BY <1>18, <2>1
  <2> QED
    BY <1>16, <2>1, <2>2 DEF Alive, Members
<1>6. ASSUME NEW u, NEW d \in Alive(h, u) PROVE d # c /\ d \in Alive(r, u)
  <2>1. d \in Clients /\ h.team[d] = u /\ h.tee[d] = "alive" /\ d # c
    BY DEF Alive, Members
  <2>2. r.tee[d] = "alive"
    BY <1>18, <2>1
  <2> QED
    BY <1>17, <2>1, <2>2 DEF Alive, Members
<1>7. Peopled(r) /\ Waiting(r, Kind)
  <2>1. Peopled(r)
    BY <1>1, <1>17, <1>4 DEF Peopled
  <2>2. Waiting(r, Kind)
    BY <1>1, <1>17 DEF Waiting
  <2> QED
    BY <2>1, <2>2
<1>8. Even(r, Kind)
  <2> SUFFICES ASSUME NEW u \in Teams \ {0}, r.state[u] = "started", ~r.practice[u],
                      Kind[u] = "none", ~r.spoiled[u], NEW d \in Alive(r, u), NEW e \in Alive(r, u)
               PROVE  r.race[d] = r.race[e]
    BY DEF Even
  <2>1. \A i, j \in Alive(h, u) : h.race[i] = h.race[j]
    BY <1>1, <1>17 DEF Even
  <2>2. \A i \in Alive(r, u) : i # c => i \in Alive(h, u) /\ r.race[i] = h.race[i] /\ i \in Clients
    BY <1>5, <1>18
  <2>3. \A i \in Alive(r, u) : i # c /\ c \in Alive(r, u) => r.race[i] = x
    <3> SUFFICES ASSUME NEW i \in Alive(r, u), i # c, c \in Alive(r, u) PROVE r.race[i] = x
      OBVIOUS
    <3>1. u = t /\ i \in Alive(h, t)
      BY <1>5, <2>2
    <3>3. u # 0 /\ Kind[t] = "none" /\ Alive(h, t) # {}
      BY <3>1
    <3>2. PICK j \in Alive(h, t) : x = h.race[j]
      BY <1>16, <3>1, <3>3 DEF TakesOn
    <3> QED
      BY <2>1, <2>2, <3>1, <3>2
  <2>4. r.race[c] = x
    BY <1>3
  <2>5. CASE d = c \/ e = c
    BY <2>3, <2>4, <2>5
  <2>6. CASE d # c /\ e # c
    BY <2>1, <2>2, <2>6
  <2> QED
    BY <2>5, <2>6
<1>9. ASSUME NEW d \in Clients \ {c} PROVE FlagsOk(r, d, Kind) /\ RaceOk(r, d, Kind)
  <2>1. /\ r.team[d] = h.team[d] /\ r.tee[d] = h.tee[d] /\ r.race[d] = h.race[d]
        /\ r.path[d] = h.path[d] /\ r.started[d] = h.started[d] /\ r.finished[d] = h.finished[d]
        /\ r.practice = h.practice /\ r.state = h.state /\ r.spoiled = h.spoiled
    BY <1>3
  <2> QED
    BY <1>1, <2>1, TeeSame
<1>10. FlagsOk(r, c, Kind)
  <2>1. /\ r.team = h.team /\ r.tee[c] = "alive" /\ r.state = h.state
        /\ r.started = h.started /\ r.finished = h.finished /\ r.spoiled = h.spoiled
    BY <1>3
  <2>2. FlagsOk(h, c, Kind)
    BY <1>1
  <2> QED
    BY <2>1, <2>2 DEF FlagsOk
<1>11. RaceOk(r, c, Kind)
  <2>1. r.path[c] = "practice" <=> r.practice[t]
    BY <1>3, <1>16
  <2>2. t = 0 => r.race[c] = "none"
    BY <1>3, <1>16 DEF TakesOn
  <2>3. FlagsOk(h, c, Kind) /\ h.tee[c] # "alive"
    BY <1>1
  <2>4. ASSUME t # 0
        PROVE  /\ h.state[t] = "open" \/ (Kind[t] # "none" /\ h.state[t] # "finished") =>
                    x = "none"
               /\ Kind[t] # "none" \/ h.state[t] = "finished" => x # "started"
               /\ ~h.practice[t] /\ Kind[t] = "none" /\ ~h.spoiled[t] /\ h.state[t] \in Racing =>
                    x \in {"none", "started"}
    <3>1. \A d \in Alive(h, t) : RaceOk(h, d, Kind) /\ h.team[d] = t /\ h.tee[d] = "alive"
      BY <1>1 DEF Alive, Members
    <3>2. \A d \in Alive(h, t) :
            /\ h.state[t] = "open" \/ (Kind[t] # "none" /\ h.state[t] # "finished") =>
                 h.race[d] = "none"
            /\ Kind[t] # "none" \/ h.state[t] = "finished" => h.race[d] # "started"
            /\ ~h.practice[t] /\ Kind[t] = "none" /\ ~h.spoiled[t] /\ h.state[t] \in Racing =>
                 h.race[d] \in {"none", "started"}
      BY <2>4, <3>1 DEF RaceOk
    <3> QED
      BY <1>16, <2>4, <3>2 DEF TakesOn
  <2>5. ASSUME t # 0, ~h.practice[t], Kind[t] = "none", ~h.spoiled[t]
        PROVE  h.state[t] # "finished" /\ ~h.started[c] /\ ~h.finished[c]
    BY <1>16, <2>3, <2>5 DEF FlagsOk
  <2>6. /\ r.team[c] = t /\ r.state = h.state /\ r.practice = h.practice
        /\ r.started = h.started /\ r.finished = h.finished
        /\ r.race[c] = x /\ r.spoiled = h.spoiled
    BY <1>3, <1>16
  <2>7. r.path[c] # "finish" /\ r.path[c] # "start"
    BY <1>3 DEF p
  <2> QED
    BY <2>1, <2>2, <2>4, <2>5, <2>6, <2>7 DEF RaceOk, Racing
<1>12. Fine(r, {}, Kind)
  BY <1>3, <1>7, <1>8, <1>9, <1>10, <1>11 DEF Fine
<1>13. Moves(a, h)
  BY LosesMoves
<1>14. ASSUME NEW u \in Teams PROVE RunKept(a, r, u)
  <2>1. RunKept(a, h, u)
    BY <1>13 DEF Moves
  <2>2. CASE r.state[u] = "started" /\ ~r.practice[u] /\ Kind[u] = "none" /\ ~r.spoiled[u]
    <3>1. \/ \A d \in Alive(h, u) : h.race[d] = "none"
          \/ /\ a.state[u] = "started" /\ ~a.practice[u]
             /\ \E d \in Alive(a, u) : a.race[d] # "none"
             /\ \A d \in Alive(a, u) : a.path[d] = "spawn" => h.team[d] = u
      BY <1>3, <2>1, <2>2 DEF RunKept
    <3>2. CASE \A d \in Alive(h, u) : h.race[d] = "none"
      <4> SUFFICES ASSUME NEW d \in Alive(r, u) PROVE r.race[d] = "none"
        BY DEF RunKept
      <4>1. CASE d = c
        <5>1. r.race[c] = x
          BY <1>3
        <5>2. u = t
          BY <1>5, <4>1
        <5> QED
          BY <1>16, <3>2, <4>1, <5>1, <5>2 DEF TakesOn
      <4>2. CASE d # c
        <5>1. d \in Alive(h, u) /\ d \in Clients
          BY <1>5, <4>2
        <5> QED
          BY <1>18, <3>2, <4>2, <5>1
      <4> QED
        BY <4>1, <4>2
    <3>3. CASE ~\A d \in Alive(h, u) : h.race[d] = "none"
      BY <1>3, <3>1, <3>3 DEF RunKept
    <3> QED
      BY <3>2, <3>3
  <2>3. CASE ~(r.state[u] = "started" /\ ~r.practice[u] /\ Kind[u] = "none" /\ ~r.spoiled[u])
    BY <2>3 DEF RunKept
  <2> QED
    BY <2>2, <2>3
<1>15. Ranks(a, r)
  <2>1. CASE h.ranked = a.ranked
    BY <1>3, <2>1 DEF Ranks
  <2>2. ASSUME NEW u \in Teams \ {0}, Finishes(a, h, u) PROVE Finishes(a, r, u)
    <3>1. h.ranked.who \subseteq Clients
      BY <2>2 DEF Finishes, Alive, Members
    <3>2. /\ r.ranked = h.ranked /\ r.state = h.state
          /\ \A d \in h.ranked.who :
               /\ h.tee[d] = "alive" => r.tee[d] = h.tee[d] /\ r.path[d] = h.path[d]
               /\ r.team[d] = h.team[d]
      BY <1>3, <1>18, <3>1
    <3>3. /\ a.state[u] = "started" /\ ~a.practice[u] /\ h.state[u] \notin Racing
          /\ h.ranked.run = a.run[u] /\ h.ranked.who # {} /\ h.ranked.who \subseteq Alive(a, u)
          /\ h.ranked.spoiled = a.spoiled[u] /\ h.ranked.saved = (Kind[u] # "none")
          /\ ~h.ranked.spoiled /\ ~h.ranked.saved =>
               /\ \A d \in Alive(a, u) : a.started[d]
               /\ \A d \in h.ranked.who :
                    /\ a.race[d] # "none" /\ h.tee[d] = "alive" /\ h.path[d] = "finish"
                    /\ h.team[d] \in {u, 0}
      BY <2>2 DEF Finishes
    <3>4. ~r.ranked.spoiled /\ ~r.ranked.saved =>
            /\ \A d \in Alive(a, u) : a.started[d]
            /\ \A d \in r.ranked.who :
                 /\ a.race[d] # "none" /\ r.tee[d] = "alive" /\ r.path[d] = "finish"
                 /\ r.team[d] \in {u, 0}
      <4>1. \A d \in h.ranked.who : ~h.ranked.spoiled /\ ~h.ranked.saved =>
              /\ a.race[d] # "none" /\ r.tee[d] = "alive" /\ r.path[d] = "finish"
              /\ r.team[d] \in {u, 0}
        BY <3>2, <3>3
      <4>2. ~h.ranked.spoiled /\ ~h.ranked.saved => \A d \in Alive(a, u) : a.started[d]
        BY <3>3
      <4> QED
        BY <3>2, <4>1, <4>2
    <3>5. /\ r.state[u] \notin Racing /\ r.ranked.run = a.run[u] /\ r.ranked.who # {}
          /\ r.ranked.who \subseteq Alive(a, u)
          /\ r.ranked.spoiled = a.spoiled[u] /\ r.ranked.saved = (Kind[u] # "none")
      BY <3>2, <3>3
    <3> QED
      BY <3>3, <3>4, <3>5 DEF Finishes
  <2> QED
    BY <2>1, <2>2 DEF Ranks
<1> QED
  BY <1>3, <1>4, <1>12, <1>13, <1>14, <1>15 DEF Moves, Legal

(* OnCharacterSpawn leaves all in order. *)
LEMMA SpawnKeeps ==
  ASSUME NEW a, Fine(a, {}, Kind), NEW c \in Clients, a.tee[c] = "dead",
         NEW r, r = OnCharacterSpawn(a, c)
  PROVE  Legal(a, r)
<1> DEFINE t == a.team[c]
           stays == GetSaving(t) \/ a.locked[t]
           s == SetForceCharacterTeam(a, c, 0)
           h == IF stays THEN a ELSE CheckTeamFinished(s, t)
           u == h.team[c]
           x == IF h.locked[u] /\ Alive(a, u) # {} THEN a.race[LastOf(Alive(a, u))] ELSE "none"
<1>1. r = Spawned(h, c, x, IF h.practice[h.team[c]] THEN "practice" ELSE "spawn")
  BY DEF OnCharacterSpawn, Spawned
<1>2. GetSaving(t) <=> Kind[t] # "none"
  <2>1. t \in Teams
    BY DEF Fine, Games
  <2> QED
    BY <2>1 DEF GetSaving, Kind
<1>3. a \in Games /\ Peopled(a) /\ t \in Teams /\ 0 \in Teams /\ Fine(a, {}, Kind) /\ c \in Clients
  BY ClientsFacts DEF Fine, Games
<1>4. \A v : Alive(a, v) \in SUBSET Clients
  BY DEF Alive, Members
<1>5. \A v : Alive(a, v) # {} => LastOf(Alive(a, v)) \in Alive(a, v)
  BY <1>4, LastOfThem
<1>6. /\ Fine(h, {}, Kind) /\ Loses(a, h) /\ Ranks(a, h) /\ h.tee[c] = "dead"
      /\ (stays /\ h = a) \/ (~stays /\ h.team[c] = 0)
  <2>1. CASE stays
    <3>1. h = a
      BY <2>1
    <3>2. Ranks(a, a) /\ Loses(a, a) /\ a.tee[c] = "dead" /\ Fine(a, {}, Kind)
      BY LosesSame DEF Ranks
    <3> HIDE DEF h, stays
    <3> QED
      BY <2>1, <3>1, <3>2
  <2>2. CASE ~stays
    <3>1. h = CheckTeamFinished(s, t) /\ Kind[t] = "none"
      BY <1>2, <2>2
    <3>2. s = SetForceCharacterTeam(a, c, 0) /\ a.tee[c] # "alive"
      OBVIOUS
    <3> HIDE DEF s, h
    <3>3. Fine(s, {} \cup {c}, Kind)
      BY <1>3, <3>2, ForceKeeps
    <3>4. Loses(a, s)
      BY <1>3, <3>2, ForceLoses
    <3>5. s.team[c] = 0 /\ s.tee = a.tee /\ s.ranked = a.ranked
      BY <1>3, <3>2, ForceFields
    <3>6. FlagsOk(s, c, Kind) /\ RaceOk(s, c, Kind)
      BY <3>2, <3>5, OutOfTeams
    <3>7. Fine(s, {}, Kind)
      <4>1. \A d \in ({} \cup {c}) \ {} : FlagsOk(s, d, Kind) /\ RaceOk(s, d, Kind)
        BY <3>6
      <4> QED
        BY <3>3, <4>1, FineLess
    <3>8. /\ {} \in SUBSET Clients
          /\ \A d \in {} : s.team[d] = t => s.state[t] # "started"
      OBVIOUS
    <3>9. Fine(h, {}, Kind) /\ Loses(s, h) /\ Ranks(s, h) /\ h.tee = s.tee
      <4> HIDE DEF t
      <4> QED
        BY <1>3, <3>1, <3>7, <3>8, CheckKeeps
    <3>10. Loses(a, h)
      BY <3>4, <3>9, LosesMore
    <3>11. Ranks(a, h)
      BY <3>4, <3>5, <3>9, RanksAfter
    <3>12. h.team[c] = 0
      BY <3>5, <3>9 DEF Loses
    <3> QED
      BY <2>2, <3>2, <3>5, <3>9, <3>10, <3>11, <3>12
  <2> QED
    BY <2>1, <2>2
<1>7. TakesOn(h, c, x)
  <2>1. CASE stays /\ h = a
    <3>1. a.locked[t] => t # 0
      BY <1>3 DEF Peopled
    <3>2. u = t
      BY <2>1
    <3>3. x = IF a.locked[t] /\ Alive(a, t) # {} THEN a.race[LastOf(Alive(a, t))] ELSE "none"
      BY <2>1, <3>2
    <3>4. Kind[t] = "none" => a.locked[t]
      BY <1>2, <2>1
    <3> HIDE DEF x, h, u, stays
    <3> QED
      BY <1>5, <2>1, <3>1, <3>2, <3>3, <3>4 DEF TakesOn
  <2>2. CASE ~stays /\ h.team[c] = 0
    <3>1. ~h.locked[0]
      BY <1>3, <1>6 DEF Fine, Peopled
    <3>2. x = "none"
      BY <2>2, <3>1
    <3> HIDE DEF x, h, u, stays
    <3> QED
      BY <2>2, <3>2 DEF TakesOn
  <2> QED
    BY <1>6, <2>1, <2>2
<1> HIDE DEF x, h
<1> QED
  BY <1>1, <1>3, <1>6, <1>7, SpawnedKeeps

\* the flags, the race and the path that c gets
Put(h, c, started, finished, x, p) ==
  [h EXCEPT !.started[c] = started, !.finished[c] = finished, !.race[c] = x, !.path[c] = p]

\* r is h but for these
IsPut(h, c, started, finished, x, p, r) ==
  /\ r \in Games /\ r.team = h.team /\ r.tee = h.tee
  /\ r.state = h.state /\ r.locked = h.locked /\ r.practice = h.practice
  /\ r.kill = h.kill /\ r.run = h.run /\ r.spoiled = h.spoiled /\ r.ranked = h.ranked
  /\ r.started[c] = started /\ r.finished[c] = finished /\ r.race[c] = x /\ r.path[c] = p
  /\ \A d \in Clients \ {c} :
       /\ r.started[d] = h.started[d] /\ r.finished[d] = h.finished[d]
       /\ r.race[d] = h.race[d] /\ r.path[d] = h.path[d]

(* A tee gets flags, a race and a path. *)
LEMMA PutFields ==
  ASSUME NEW h \in Games, NEW c \in Clients, NEW started \in BOOLEAN, NEW finished \in BOOLEAN,
         NEW x \in {"none", "started", "finished"},
         NEW p \in {"spawn", "start", "finish", "practice"},
         NEW r, r = Put(h, c, started, finished, x, p)
  PROVE  IsPut(h, c, started, finished, x, p, r)
<1>1. /\ h.started \in [Clients -> BOOLEAN] /\ h.finished \in [Clients -> BOOLEAN]
      /\ h.race \in [Clients -> {"none", "started", "finished"}]
      /\ h.path \in [Clients -> {"spawn", "start", "finish", "practice"}]
  BY DEF Games
<1>2. /\ r \in Games /\ r.team = h.team /\ r.tee = h.tee
      /\ r.state = h.state /\ r.locked = h.locked /\ r.practice = h.practice
      /\ r.kill = h.kill /\ r.run = h.run /\ r.spoiled = h.spoiled /\ r.ranked = h.ranked
      /\ r.started = [h.started EXCEPT ![c] = started]
      /\ r.finished = [h.finished EXCEPT ![c] = finished]
      /\ r.race = [h.race EXCEPT ![c] = x] /\ r.path = [h.path EXCEPT ![c] = p]
  BY DEF Games, Put
<1>3. /\ r.started[c] = started /\ r.finished[c] = finished /\ r.race[c] = x /\ r.path[c] = p
      /\ \A d \in Clients \ {c} :
           /\ r.started[d] = h.started[d] /\ r.finished[d] = h.finished[d]
           /\ r.race[d] = h.race[d] /\ r.path[d] = h.path[d]
  BY <1>1, <1>2
<1> QED
  BY <1>2, <1>3 DEF IsPut

(* All is in order when c is, and has the race of its team. *)
LEMMA PutKeeps ==
  ASSUME NEW h, Fine(h, {}, Kind), NEW c \in Clients, NEW r, NEW started, NEW finished,
         NEW x, NEW p, IsPut(h, c, started, finished, x, p, r),
         FlagsOk(r, c, Kind), RaceOk(r, c, Kind),
         h.team[c] = 0 \/ h.practice[h.team[c]] \/ h.spoiled[h.team[c]] \/ x = h.race[c]
  PROVE  Fine(r, {}, Kind)
<1>1. /\ h \in Games /\ Peopled(h) /\ Waiting(h, Kind) /\ Even(h, Kind)
      /\ \A d \in Clients : FlagsOk(h, d, Kind) /\ RaceOk(h, d, Kind)
  BY DEF Fine
<1>2. /\ r \in Games /\ r.team = h.team /\ r.tee = h.tee
      /\ r.state = h.state /\ r.locked = h.locked /\ r.practice = h.practice
      /\ r.kill = h.kill /\ r.spoiled = h.spoiled
  BY DEF IsPut
<1>3. \A u : Members(r, u) = Members(h, u) /\ Alive(r, u) = Alive(h, u)
  BY <1>2 DEF Members, Alive
<1>4. Peopled(r)
  BY <1>1, <1>2, <1>3 DEF Peopled
<1>5. Waiting(r, Kind)
  BY <1>1, <1>2 DEF Waiting
<1>6. Even(r, Kind)
  <2> SUFFICES ASSUME NEW u \in Teams \ {0}, r.state[u] = "started", ~r.practice[u],
                      Kind[u] = "none", ~r.spoiled[u], NEW d \in Alive(r, u), NEW e \in Alive(r, u)
               PROVE  r.race[d] = r.race[e]
    BY DEF Even
  <2>1. \A i, j \in Alive(h, u) : h.race[i] = h.race[j]
    BY <1>1, <1>2 DEF Even
  <2>2. \A i \in Alive(h, u) : i \in Clients /\ h.team[i] = u
    BY DEF Alive, Members
  <2>3. \A i \in Alive(h, u) : r.race[i] = h.race[i]
    <3> SUFFICES ASSUME NEW i \in Alive(h, u) PROVE r.race[i] = h.race[i]
      OBVIOUS
    <3>1. CASE i = c
      <4>1. ~(h.team[c] = 0 \/ h.practice[h.team[c]] \/ h.spoiled[h.team[c]])
        BY <1>2, <2>2, <3>1
      <4> QED
        BY <3>1, <4>1 DEF IsPut
    <3>2. CASE i # c
      BY <2>2, <3>2 DEF IsPut
    <3> QED
      BY <3>1, <3>2
  <2> QED
    BY <1>3, <2>1, <2>3
<1>7. ASSUME NEW d \in Clients \ {c} PROVE FlagsOk(r, d, Kind) /\ RaceOk(r, d, Kind)
  <2>1. /\ r.team[d] = h.team[d] /\ r.tee[d] = h.tee[d] /\ r.race[d] = h.race[d]
        /\ r.path[d] = h.path[d] /\ r.started[d] = h.started[d] /\ r.finished[d] = h.finished[d]
        /\ r.practice = h.practice /\ r.state = h.state /\ r.spoiled = h.spoiled
    BY DEF IsPut
  <2> QED
    BY <1>1, <2>1, TeeSame
<1> QED
  BY <1>2, <1>4, <1>5, <1>6, <1>7 DEF Fine

\* the teams of r are those of a, and all races but those that count for nothing
Stay(a, r) ==
  /\ r.run = a.run /\ r.spoiled = a.spoiled /\ r.ranked = a.ranked /\ r.team = a.team
  /\ \A t \in Teams : r.state[t] = a.state[t] /\ (a.practice[t] => r.practice[t])
  /\ \A t \in Teams \ {0} : ~r.practice[t] /\ Kind[t] = "none" /\ ~r.spoiled[t] =>
       \A c \in Alive(r, t) : c \in Alive(a, t) /\ r.race[c] = a.race[c]

(* When the teams and the races stay, no run is touched. *)
LEMMA StayMoves ==
  ASSUME NEW a, NEW r, Fine(r, {}, Kind), Stay(a, r)
  PROVE  Legal(a, r)
<1>1. /\ r.run = a.run /\ r.spoiled = a.spoiled /\ r.ranked = a.ranked
      /\ \A t : Members(r, t) = Members(a, t)
  BY DEF Stay, Members
<1>2. ASSUME NEW t \in Teams
      PROVE  /\ r.state[t] \in Racing => a.state[t] \in Racing
             /\ RunKept(a, r, t)
  <2>1. r.state[t] = a.state[t] /\ (a.practice[t] => r.practice[t])
    BY DEF Stay
  <2>2. CASE t = 0
    <3>1. r.state[0] # "started"
      BY <2>2 DEF Fine, Peopled
    <3> QED
      BY <2>1, <2>2, <3>1 DEF RunKept
  <2>3. CASE ~(~r.practice[t] /\ Kind[t] = "none" /\ ~r.spoiled[t])
    BY <2>1, <2>3 DEF RunKept
  <2>4. CASE t # 0 /\ ~r.practice[t] /\ Kind[t] = "none" /\ ~r.spoiled[t]
    <3>1. \A c \in Alive(r, t) : c \in Alive(a, t) /\ r.race[c] = a.race[c]
      BY <2>4 DEF Stay
    <3>2. \A c \in Alive(a, t) : r.team[c] = t
      BY DEF Stay, Alive, Members
    <3>3. r.state[t] = "started" /\ ~r.practice[t] => a.state[t] = "started" /\ ~a.practice[t]
      BY <2>1
    <3> QED
      BY <2>1, <3>1, <3>2, <3>3, RunsOn
  <2> QED
    BY <2>2, <2>3, <2>4
<1>3. Moves(a, r)
  BY <1>1, <1>2 DEF Moves, Ranks
<1> QED
  BY <1>3 DEF Legal

(* Nothing is touched when nothing happens. *)
LEMMA SameLegal ==
  ASSUME NEW a, Fine(a, {}, Kind)
  PROVE  Legal(a, a)
BY StayMoves DEF Stay

\* c gets flags, a race and a path that agree with its team
Fits(h, c, x, r) ==
  /\ FlagsOk(r, c, Kind) /\ RaceOk(r, c, Kind)
  /\ h.team[c] = 0 \/ h.practice[h.team[c]] \/ h.spoiled[h.team[c]] \/ x = h.race[c]

(* No run is touched when a tee gets flags, a race and a path that fit. *)
LEMMA PutLegal ==
  ASSUME NEW h, Fine(h, {}, Kind), NEW c \in Clients, NEW r, NEW started, NEW finished,
         NEW x, NEW p, IsPut(h, c, started, finished, x, p, r), Fits(h, c, x, r)
  PROVE  Legal(h, r)
<1>1. /\ FlagsOk(r, c, Kind) /\ RaceOk(r, c, Kind)
      /\ h.team[c] = 0 \/ h.practice[h.team[c]] \/ h.spoiled[h.team[c]] \/ x = h.race[c]
  BY DEF Fits
<1>2. Fine(r, {}, Kind)
  BY <1>1, PutKeeps
<1>3. /\ r.run = h.run
      /\ r.spoiled = h.spoiled /\ r.ranked = h.ranked /\ r.team = h.team /\ r.tee = h.tee
      /\ r.state = h.state /\ r.practice = h.practice
      /\ r.race[c] = x /\ \A d \in Clients \ {c} : r.race[d] = h.race[d]
  BY DEF IsPut
<1>4. ASSUME NEW t \in Teams \ {0}, ~r.practice[t], ~r.spoiled[t], NEW d \in Alive(r, t)
      PROVE  d \in Alive(h, t) /\ r.race[d] = h.race[d]
  <2>1. d \in Clients /\ h.team[d] = t /\ d \in Alive(h, t)
    BY <1>3, <1>4 DEF Alive, Members
  <2>2. CASE d = c
    BY <1>1, <1>3, <1>4, <2>1, <2>2
  <2>3. CASE d # c
    BY <1>3, <2>1, <2>3
  <2> QED
    BY <2>1, <2>2, <2>3
<1>5. Stay(h, r)
  BY <1>3, <1>4 DEF Stay
<1> QED
  BY <1>2, <1>5, StayMoves

\* c starts a race with the path p
Started(h, c, p) == [h EXCEPT !.started[c] = TRUE, !.race[c] = "started", !.path[c] = p]

(* A tee starts a race. *)
LEMMA StartedFields ==
  ASSUME NEW h \in Games, NEW c \in Clients, NEW p \in {"spawn", "start", "finish", "practice"},
         NEW r, r = Started(h, c, p)
  PROVE  IsPut(h, c, TRUE, h.finished[c], "started", p, r)
<1>1. /\ h.started \in [Clients -> BOOLEAN]
      /\ h.race \in [Clients -> {"none", "started", "finished"}]
      /\ h.path \in [Clients -> {"spawn", "start", "finish", "practice"}]
  BY DEF Games
<1>2. /\ r \in Games /\ r.team = h.team /\ r.tee = h.tee
      /\ r.state = h.state /\ r.locked = h.locked /\ r.practice = h.practice
      /\ r.kill = h.kill /\ r.run = h.run /\ r.spoiled = h.spoiled /\ r.ranked = h.ranked
      /\ r.finished = h.finished
      /\ r.started = [h.started EXCEPT ![c] = TRUE]
      /\ r.race = [h.race EXCEPT ![c] = "started"] /\ r.path = [h.path EXCEPT ![c] = p]
  BY DEF Games, Started
<1>3. /\ r.started[c] = TRUE /\ r.race[c] = "started" /\ r.path[c] = p
      /\ \A d \in Clients \ {c} :
           /\ r.started[d] = h.started[d]
           /\ r.race[d] = h.race[d] /\ r.path[d] = h.path[d]
  BY <1>1, <1>2
<1> QED
  BY <1>2, <1>3 DEF IsPut

(* A start in team 0. *)
LEMMA StartAlone ==
  ASSUME NEW a, Fine(a, {}, Kind), NEW c \in Clients, a.team[c] = 0,
         NEW r, r = OnCharacterStart(a, c)
  PROVE  Legal(a, r)
<1>1. a \in Games /\ ~a.practice[0]
  BY ClientsFacts DEF Fine, Games, Peopled
<1>2. r = Started(a, c, "start") /\ c \in Clients
  BY DEF OnCharacterStart, Started
<1>3. IsPut(a, c, TRUE, a.finished[c], "started", "start", r)
  BY <1>1, <1>2, StartedFields
<1>4. r.team[c] = 0 /\ r.path[c] = "start" /\ ~r.practice[0]
  BY <1>1, <1>3 DEF IsPut
<1>5. FlagsOk(r, c, Kind) /\ RaceOk(r, c, Kind)
  BY <1>4, OutOfTeams
<1>6. Fits(a, c, "started", r)
  BY <1>5 DEF Fits
<1> QED
  BY <1>3, <1>6, PutLegal

\* c gets the race x
Raced(h, c, x) == [h EXCEPT !.race[c] = x]

(* A tee gets a race. *)
LEMMA RacedFields ==
  ASSUME NEW h \in Games, NEW c \in Clients, NEW x \in {"none", "started", "finished"},
         NEW r, r = Raced(h, c, x)
  PROVE  IsPut(h, c, h.started[c], h.finished[c], x, h.path[c], r)
<1>1. h.race \in [Clients -> {"none", "started", "finished"}]
  BY DEF Games
<1>2. /\ r \in Games /\ r.team = h.team /\ r.tee = h.tee
      /\ r.state = h.state /\ r.locked = h.locked /\ r.practice = h.practice
      /\ r.kill = h.kill /\ r.run = h.run /\ r.spoiled = h.spoiled /\ r.ranked = h.ranked
      /\ r.finished = h.finished /\ r.started = h.started /\ r.path = h.path
      /\ r.race = [h.race EXCEPT ![c] = x]
  BY DEF Games, Raced
<1>3. r.race[c] = x /\ \A d \in Clients \ {c} : r.race[d] = h.race[d]
  BY <1>1, <1>2
<1> QED
  BY <1>2, <1>3 DEF IsPut

\* c gets the path p
OnPath(h, c, p) == [h EXCEPT !.path[c] = p]

(* A tee gets a path. *)
LEMMA OnPathFields ==
  ASSUME NEW h \in Games, NEW c \in Clients, NEW p \in {"spawn", "start", "finish", "practice"},
         NEW r, r = OnPath(h, c, p)
  PROVE  IsPut(h, c, h.started[c], h.finished[c], h.race[c], p, r)
<1>1. h.path \in [Clients -> {"spawn", "start", "finish", "practice"}]
  BY DEF Games
<1>2. /\ r \in Games /\ r.team = h.team /\ r.tee = h.tee
      /\ r.state = h.state /\ r.locked = h.locked /\ r.practice = h.practice
      /\ r.kill = h.kill /\ r.run = h.run /\ r.spoiled = h.spoiled /\ r.ranked = h.ranked
      /\ r.finished = h.finished /\ r.started = h.started /\ r.race = h.race
      /\ r.path = [h.path EXCEPT ![c] = p]
  BY DEF Games, OnPath
<1>3. r.path[c] = p /\ \A d \in Clients \ {c} : r.path[d] = h.path[d]
  BY <1>1, <1>2
<1> QED
  BY <1>2, <1>3 DEF IsPut

\* c is past the start, on the path p
Passed(h, c, p) == [h EXCEPT !.started[c] = TRUE, !.path[c] = p]

(* A tee passes the start. *)
LEMMA PassedFields ==
  ASSUME NEW h \in Games, NEW c \in Clients, NEW p \in {"spawn", "start", "finish", "practice"},
         NEW r, r = Passed(h, c, p)
  PROVE  IsPut(h, c, TRUE, h.finished[c], h.race[c], p, r)
<1>1. /\ h.started \in [Clients -> BOOLEAN]
      /\ h.path \in [Clients -> {"spawn", "start", "finish", "practice"}]
  BY DEF Games
<1>2. /\ r \in Games /\ r.team = h.team /\ r.tee = h.tee
      /\ r.state = h.state /\ r.locked = h.locked /\ r.practice = h.practice
      /\ r.kill = h.kill /\ r.run = h.run /\ r.spoiled = h.spoiled /\ r.ranked = h.ranked
      /\ r.finished = h.finished /\ r.race = h.race
      /\ r.started = [h.started EXCEPT ![c] = TRUE]
      /\ r.path = [h.path EXCEPT ![c] = p]
  BY DEF Games, Passed
<1>3. /\ r.started[c] = TRUE /\ r.path[c] = p
      /\ \A d \in Clients \ {c} :
           r.started[d] = h.started[d] /\ r.path[d] = h.path[d]
  BY <1>1, <1>2
<1> QED
  BY <1>2, <1>3 DEF IsPut

\* what OnCharacterStart asks of a tee in a team that does not begin a run
Starts(a, c) ==
  /\ a.tee[c] = "alive" /\ a.team[c] # 0 /\ Kind[a.team[c]] = "none"
  /\ a.state[a.team[c]] # "open"

(* A start in a team that has a run. *)
LEMMA StartTogether ==
  ASSUME NEW a, Fine(a, {}, Kind), NEW c \in Clients, Starts(a, c),
         NEW r, r = OnCharacterStart(a, c)
  PROVE  Legal(a, r)
<1> DEFINE t == a.team[c]
           p == IF a.path[c] = "spawn" THEN "start" ELSE a.path[c]
           wait == \E d \in Alive(a, t) : a.race[d] = "finished"
<1>1. /\ a \in Games /\ Peopled(a) /\ FlagsOk(a, c, Kind) /\ RaceOk(a, c, Kind)
      /\ t \in Teams /\ a.race[c] \in {"none", "started", "finished"}
      /\ a.path[c] \in {"spawn", "start", "finish", "practice"}
  BY DEF Fine, Games
<1>2. a.tee[c] = "alive" /\ t # 0 /\ Kind[t] = "none" /\ a.state[t] # "open"
  BY DEF Starts
<1>3. c \in Members(a, t) /\ a.state[t] \in {"started", "unfinishable", "finished"}
  <2>1. c \in Members(a, t)
    BY DEF Members
  <2>2. a.state[t] # "empty"
    BY <1>1, <1>2, <2>1 DEF Peopled
  <2> QED
    BY <1>1, <1>2, <2>1, <2>2 DEF Games
<1>4. /\ a.path[c] = "practice" <=> a.practice[t]
      /\ ~a.practice[t] /\ ~a.spoiled[t] =>
           /\ a.state[t] = "finished" => a.race[c] = "finished"
           /\ a.finished[c] => a.path[c] = "finish" /\ a.race[c] # "none"
  BY <1>1, <1>2 DEF RaceOk
<1>5. /\ a.race[c] = "finished" => r = a
      /\ a.race[c] # "finished" /\ wait => r = Raced(a, c, "none")
      /\ a.race[c] # "finished" /\ ~wait => r = Passed(a, c, p)
  <2>1. r = HitsStart(a, c)
    BY <1>2 DEF OnCharacterStart
  <2>2. a.race[c] = "finished" => r = a
    BY <2>1 DEF HitsStart
  <2>3. a.race[c] # "finished" /\ wait => r = Raced(a, c, "none")
    BY <2>1 DEF HitsStart, Raced
  <2>4. a.race[c] # "finished" /\ ~wait => r = Passed(a, c, p)
    BY <1>2, <2>1 DEF HitsStart, Passed
  <2> QED
    BY <2>2, <2>3, <2>4
<1>6. CASE a.race[c] = "finished"
  <2>1. r = a
    BY <1>5, <1>6
  <2> QED
    BY <2>1, SameLegal
<1>7. CASE a.race[c] # "finished" /\ wait
  <2>1. r = Raced(a, c, "none")
    BY <1>5, <1>7
  <2>2. IsPut(a, c, a.started[c], a.finished[c], "none", a.path[c], r)
    BY <1>1, <2>1, RacedFields
  <2>3. a.practice[t] \/ a.spoiled[t]
    <3>1. PICK d \in Alive(a, t) : a.race[d] = "finished"
      BY <1>7
    <3>2. RaceOk(a, d, Kind) /\ a.team[d] = t /\ a.tee[d] = "alive"
      BY DEF Fine, Alive, Members
    <3>3. ~a.practice[t] /\ ~a.spoiled[t] /\ a.state[t] \in Racing =>
            a.race[d] \in {"none", "started"}
      BY <1>2, <3>2 DEF RaceOk
    <3>4. ~a.practice[t] /\ ~a.spoiled[t] => a.state[t] \notin Racing /\ a.state[t] # "finished"
      BY <1>4, <1>7, <3>1, <3>3
    <3> QED
      BY <1>3, <3>4 DEF Racing
  <2>4. /\ r.team[c] = t /\ r.tee[c] = "alive" /\ r.state = a.state /\ r.practice = a.practice
        /\ r.started[c] = a.started[c] /\ r.finished[c] = a.finished[c]
        /\ r.path[c] = a.path[c] /\ r.race[c] = "none" /\ r.spoiled = a.spoiled
    BY <1>2, <2>2 DEF IsPut
  <2> HIDE DEF t, wait, p
  <2>5. a.team[c] = t /\ a.tee[c] = "alive"
    BY <1>2 DEF t
  <2>6. FlagsOk(r, c, Kind)
    BY <1>1, <2>4, <2>5 DEF FlagsOk
  <2>7. RaceOk(r, c, Kind)
    BY <1>2, <1>4, <2>3, <2>4, <2>5 DEF RaceOk
  <2>8. Fits(a, c, "none", r)
    BY <2>3, <2>5, <2>6, <2>7 DEF Fits
  <2> QED
    BY <2>2, <2>8, PutLegal
<1>8. CASE a.race[c] # "finished" /\ ~wait
  <2>1. r = Passed(a, c, p)
    BY <1>5, <1>8
  <2>2. p \in {"spawn", "start", "finish", "practice"}
    BY <1>1
  <2>3. /\ p = "practice" <=> a.practice[t]
        /\ ~a.practice[t] => p \in {"start", "finish"}
        /\ ~a.practice[t] /\ ~a.spoiled[t] /\ a.finished[c] => p = "finish"
    BY <1>1, <1>4
  <2> HIDE DEF p
  <2>4. IsPut(a, c, TRUE, a.finished[c], a.race[c], p, r)
    BY <1>1, <2>1, <2>2, PassedFields
  <2>5. /\ r.team[c] = t /\ r.tee[c] = "alive" /\ r.state = a.state /\ r.practice = a.practice
        /\ r.started[c] /\ r.finished[c] = a.finished[c]
        /\ r.path[c] = p /\ r.race[c] = a.race[c] /\ r.spoiled = a.spoiled
    BY <1>2, <2>4 DEF IsPut
  <2> HIDE DEF t, wait
  <2>6. a.team[c] = t /\ a.tee[c] = "alive"
    BY <1>2 DEF t
  <2>7. FlagsOk(r, c, Kind)
    BY <1>1, <1>2, <1>3, <2>5, <2>6 DEF FlagsOk
  <2>8. RaceOk(r, c, Kind)
    <3>1. /\ ~a.practice[t] /\ ~a.spoiled[t] /\ a.state[t] \in Racing =>
               a.race[c] \in {"none", "started"}
          /\ a.state[t] = "finished" => a.race[c] # "started"
      BY <1>1, <1>2, <2>6 DEF RaceOk
    <3> QED
      BY <1>2, <1>4, <2>3, <2>5, <3>1 DEF RaceOk
  <2>9. Fits(a, c, a.race[c], r)
    BY <2>7, <2>8 DEF Fits
  <2> QED
    BY <2>4, <2>9, PutLegal
<1> QED
  BY <1>6, <1>7, <1>8

\* c is at the finish or not
AtFinish(h, c, finished) == [h EXCEPT !.finished[c] = finished]

(* A tee gets to the finish. *)
LEMMA AtFinishFields ==
  ASSUME NEW h \in Games, NEW c \in Clients, NEW finished \in BOOLEAN,
         NEW r, r = AtFinish(h, c, finished)
  PROVE  IsPut(h, c, h.started[c], finished, h.race[c], h.path[c], r)
<1>1. h.finished \in [Clients -> BOOLEAN]
  BY DEF Games
<1>2. /\ r \in Games /\ r.team = h.team /\ r.tee = h.tee
      /\ r.state = h.state /\ r.locked = h.locked /\ r.practice = h.practice
      /\ r.kill = h.kill /\ r.run = h.run /\ r.spoiled = h.spoiled /\ r.ranked = h.ranked
      /\ r.race = h.race /\ r.started = h.started /\ r.path = h.path
      /\ r.finished = [h.finished EXCEPT ![c] = finished]
  BY DEF Games, AtFinish
<1>3. r.finished[c] = finished /\ \A d \in Clients \ {c} : r.finished[d] = h.finished[d]
  BY <1>1, <1>2
<1> QED
  BY <1>2, <1>3 DEF IsPut

(* What a tee gets last is what it has. *)
LEMMA PutTwice ==
  ASSUME NEW h, NEW b, NEW r, NEW c,
         NEW s1, NEW f1, NEW x1, NEW p1, IsPut(h, c, s1, f1, x1, p1, b),
         NEW s2, NEW f2, NEW x2, NEW p2, IsPut(b, c, s2, f2, x2, p2, r)
  PROVE  IsPut(h, c, s2, f2, x2, p2, r)
BY DEF IsPut

\* no path is back at the spawn, and else b is a but for finishes
Paths(a, b) ==
  /\ b.run = a.run
  /\ b.spoiled = a.spoiled /\ b.ranked = a.ranked /\ b.team = a.team /\ b.tee = a.tee
  /\ b.state = a.state /\ b.practice = a.practice
  /\ \A c \in Clients : b.race[c] = a.race[c] /\ b.started[c] = a.started[c]
  /\ \A c \in Clients : a.path[c] = "spawn" => b.path[c] = "spawn"

(* What comes of tees that are further on their paths may come of them. *)
LEMMA PathsMoves ==
  ASSUME NEW a, NEW b, NEW r, Paths(a, b), Moves(b, r)
  PROVE  Moves(a, r)
<1>1. \A t : Alive(b, t) = Alive(a, t) /\ Members(b, t) = Members(a, t)
  BY DEF Paths, Alive, Members
<1>2. \A t : \A c \in Alive(a, t) : c \in Clients
  BY DEF Alive, Members
<1>3. /\ b.run = a.run
      /\ b.spoiled = a.spoiled /\ b.ranked = a.ranked
      /\ b.state = a.state /\ b.practice = a.practice
  BY DEF Paths
<1>4. \A t : \A c \in Alive(a, t) :
        /\ b.race[c] = a.race[c] /\ b.started[c] = a.started[c]
        /\ a.path[c] = "spawn" => b.path[c] = "spawn"
  BY <1>2 DEF Paths
<1>5. ASSUME NEW t \in Teams, RunKept(b, r, t) PROVE RunKept(a, r, t)
  <2> SUFFICES ASSUME r.state[t] = "started", ~r.practice[t], Kind[t] = "none", ~r.spoiled[t],
                      ~\A c \in Alive(r, t) : r.race[c] = "none"
               PROVE  /\ a.state[t] = "started" /\ ~a.practice[t]
                      /\ \E d \in Alive(a, t) : a.race[d] # "none"
                      /\ \A c \in Alive(a, t) : a.path[c] = "spawn" => r.team[c] = t
    BY DEF RunKept
  <2>1. /\ b.state[t] = "started" /\ ~b.practice[t]
        /\ \E d \in Alive(b, t) : b.race[d] # "none"
        /\ \A c \in Alive(b, t) : b.path[c] = "spawn" => r.team[c] = t
    BY <1>5 DEF RunKept
  <2> QED
    BY <2>1, <1>1, <1>3, <1>4
<1>6. ASSUME Ranks(b, r) PROVE Ranks(a, r)
  <2>1. ASSUME NEW t \in Teams \ {0}, Finishes(b, r, t) PROVE Finishes(a, r, t)
    <3>1. /\ b.state[t] = "started" /\ ~b.practice[t] /\ r.state[t] \notin Racing
          /\ r.ranked.run = b.run[t] /\ r.ranked.who # {} /\ r.ranked.who \subseteq Alive(b, t)
          /\ r.ranked.spoiled = b.spoiled[t] /\ r.ranked.saved = (Kind[t] # "none")
          /\ ~r.ranked.spoiled /\ ~r.ranked.saved =>
               /\ \A c \in Alive(b, t) : b.started[c]
               /\ \A c \in r.ranked.who :
                    /\ b.race[c] # "none" /\ r.tee[c] = "alive" /\ r.path[c] = "finish"
                    /\ r.team[c] \in {t, 0}
      BY <2>1 DEF Finishes
    <3>2. ~r.ranked.spoiled /\ ~r.ranked.saved =>
            /\ \A c \in Alive(a, t) : a.started[c]
            /\ \A c \in r.ranked.who :
                 /\ a.race[c] # "none" /\ r.tee[c] = "alive" /\ r.path[c] = "finish"
                 /\ r.team[c] \in {t, 0}
      BY <3>1, <1>1, <1>4
    <3>3. r.ranked.who \subseteq Alive(a, t)
      BY <3>1, <1>1
    <3> QED
      BY <3>1, <3>2, <3>3, <1>3 DEF Finishes
  <2> QED
    BY <1>3, <1>6, <2>1 DEF Ranks
<1> QED
  BY <1>1, <1>3, <1>5, <1>6 DEF Moves

\* r is h but for the ranks k
RankedAs(h, k, r) ==
  /\ r \in Games /\ r.ranked = k
  /\ r.team = h.team /\ r.tee = h.tee /\ r.race = h.race /\ r.path = h.path
  /\ r.started = h.started /\ r.finished = h.finished /\ r.state = h.state
  /\ r.locked = h.locked /\ r.practice = h.practice /\ r.kill = h.kill /\ r.run = h.run
  /\ r.spoiled = h.spoiled
  /\ Fine(r, {}, Kind)

(* Somebody is ranked alone. *)
LEMMA RanksAlone ==
  ASSUME NEW h, Fine(h, {}, Kind), NEW c \in Clients,
         NEW r, r = [h EXCEPT !.ranked = Rank({c}, 0, FALSE, FALSE)]
  PROVE  RankedAs(h, Rank({c}, 0, FALSE, FALSE), r)
<1> DEFINE k == Rank({c}, 0, FALSE, FALSE)
<1>1. /\ k \in [who : SUBSET Clients, run : 0..MaxRuns, spoiled : BOOLEAN, saved : BOOLEAN]
      /\ h \in Games
  BY ClientsFacts DEF Fine, Rank
<1>2. r = [h EXCEPT !.ranked = k] /\ Fine(h, {}, Kind)
  OBVIOUS
<1> HIDE DEF k
<1>3. /\ r \in Games /\ r.ranked = k
      /\ r.team = h.team /\ r.tee = h.tee /\ r.race = h.race /\ r.path = h.path
      /\ r.started = h.started /\ r.finished = h.finished /\ r.state = h.state
      /\ r.locked = h.locked /\ r.practice = h.practice /\ r.kill = h.kill /\ r.run = h.run
      /\ r.spoiled = h.spoiled
      /\ \A D, K : Fine(h, D, K) => Fine(r, D, K)
  BY <1>1, <1>2, RankedSame
<1>4. RankedAs(h, k, r)
  BY <1>2, <1>3 DEF RankedAs
<1> QED
  BY <1>4 DEF k

(* Somebody in team 0 who is on the path to the finish is ranked alone. *)
LEMMA RankedLegal ==
  ASSUME NEW a, NEW b, Legal(a, b), NEW c \in Clients,
         b.team[c] = 0, b.tee[c] = "alive", b.path[c] = "finish",
         NEW r, RankedAs(b, Rank({c}, 0, FALSE, FALSE), r)
  PROVE  Legal(a, r)
<1>1. /\ r.ranked = Rank({c}, 0, FALSE, FALSE)
      /\ r.team = b.team /\ r.tee = b.tee /\ r.race = b.race /\ r.path = b.path
      /\ r.state = b.state /\ r.practice = b.practice /\ r.run = b.run /\ r.spoiled = b.spoiled
      /\ Fine(r, {}, Kind)
  BY DEF RankedAs
<1>2. /\ b.run = a.run /\ b.spoiled = a.spoiled
      /\ \A t \in Teams :
           /\ b.state[t] \in Racing => a.state[t] \in Racing
           /\ Kind[t] # "none" => Members(b, t) \subseteq Members(a, t)
           /\ RunKept(a, b, t)
  BY DEF Legal, Moves
<1>3. \A t : Alive(r, t) = Alive(b, t) /\ Members(r, t) = Members(b, t)
  BY <1>1 DEF Alive, Members
<1>4. ASSUME NEW t \in Teams PROVE RunKept(a, r, t)
  <2>1. RunKept(a, b, t)
    BY <1>2
  <2> QED
    BY <2>1, <1>1, <1>3 DEF RunKept
<1>5. /\ r.ranked.run = 0
      /\ \A d \in r.ranked.who : r.team[d] = 0 /\ r.tee[d] = "alive" /\ r.path[d] = "finish"
  BY <1>1 DEF Rank
<1> QED
  BY <1>1, <1>2, <1>3, <1>4, <1>5 DEF Legal, Moves

\* what HandleCharacterTiles asks of a tee at the finish
Arrives(a, c) == a.tee[c] = "alive" /\ a.race[c] = "started"

(* A finish in team 0. *)
LEMMA FinishAlone ==
  ASSUME NEW a, Fine(a, {}, Kind), NEW c \in Clients, Arrives(a, c), a.team[c] = 0,
         NEW b, IsPut(a, c, a.started[c], a.finished[c], a.race[c], "finish", b),
         NEW r, r = OnCharacterFinish(b, c)
  PROVE  Legal(a, r)
<1> DEFINE d == Raced(b, c, "finished")
<1>1. b \in Games /\ b.team[c] = 0 /\ c \in Clients
  BY DEF IsPut
<1>2. r = [d EXCEPT !.ranked = Rank({c}, 0, FALSE, FALSE)]
  BY <1>1 DEF OnCharacterFinish, Raced
<1>3. d = Raced(b, c, "finished")
  OBVIOUS
<1> HIDE DEF d
<1>4. IsPut(b, c, b.started[c], b.finished[c], "finished", b.path[c], d)
  BY <1>1, <1>3, RacedFields
<1>5. IsPut(a, c, b.started[c], b.finished[c], "finished", b.path[c], d)
  BY <1>4, PutTwice
<1>6. /\ d.team[c] = 0 /\ d.tee[c] = "alive" /\ d.path[c] = "finish" /\ d.practice = a.practice
      /\ ~a.practice[0]
  <2>1. ~a.practice[0]
    BY ClientsFacts DEF Fine, Peopled
  <2> QED
    BY <1>4, <2>1 DEF Arrives, IsPut
<1>7. FlagsOk(d, c, Kind) /\ RaceOk(d, c, Kind)
  BY <1>6, OutOfTeams
<1>8. Fits(a, c, "finished", d)
  BY <1>7 DEF Fits
<1>9. Legal(a, d)
  BY <1>5, <1>8, PutLegal
<1>10. Fine(d, {}, Kind)
  BY <1>9 DEF Legal
<1>11. RankedAs(d, Rank({c}, 0, FALSE, FALSE), r)
  BY <1>2, <1>10, RanksAlone
<1> QED
  BY <1>6, <1>9, <1>11, RankedLegal

(* A finish in a team: the team is ranked when all of it is there. *)
LEMMA FinishTogether ==
  ASSUME NEW a, Fine(a, {}, Kind), NEW c \in Clients, Arrives(a, c), a.team[c] # 0,
         NEW p, p = IF a.path[c] = "start" THEN "finish" ELSE a.path[c],
         NEW b, IsPut(a, c, a.started[c], a.finished[c], a.race[c], p, b),
         NEW r, r = OnCharacterFinish(b, c)
  PROVE  Legal(a, r)
<1> DEFINE t == a.team[c]
           f == b.finished[c] \/ b.started[c]
           d == AtFinish(b, c, f)
<1>1. /\ b \in Games /\ b.team[c] = t /\ c \in Clients /\ t # 0 /\ t \in Teams
      /\ a.tee[c] = "alive" /\ a.race[c] = "started"
      /\ b.finished[c] = a.finished[c] /\ b.started[c] = a.started[c]
      /\ b.race[c] = a.race[c] /\ b.path[c] = p
  BY DEF IsPut, Arrives, Fine, Games
<1>2. r = CheckTeamFinished(d, t) /\ f \in BOOLEAN
  BY <1>1 DEF OnCharacterFinish, AtFinish
<1>3. d = AtFinish(b, c, f)
  OBVIOUS
<1>4. a.team[c] = t /\ (f <=> a.finished[c] \/ a.started[c])
  BY <1>1
<1> HIDE DEF d, f, t
<1>5. IsPut(b, c, b.started[c], f, b.race[c], b.path[c], d)
  BY <1>1, <1>2, <1>3, AtFinishFields
<1>6. IsPut(a, c, b.started[c], f, b.race[c], b.path[c], d)
  BY <1>5, PutTwice
<1>7. FlagsOk(a, c, Kind) /\ RaceOk(a, c, Kind)
  BY DEF Fine
<1>8. Kind[t] = "none" /\ a.state[t] # "open"
  BY <1>1, <1>4, <1>7 DEF RaceOk
<1>9. /\ d.team[c] = t /\ d.tee[c] = "alive" /\ d.state = a.state /\ d.practice = a.practice
      /\ (d.started[c] <=> a.started[c]) /\ (d.finished[c] <=> f)
      /\ d.race[c] = "started" /\ d.path[c] = p /\ d.spoiled = a.spoiled
  BY <1>1, <1>4, <1>6 DEF IsPut
<1>10. FlagsOk(a, c, Kind) /\ ~a.spoiled[t] => (f <=> a.started[c])
  BY <1>1, <1>4 DEF FlagsOk
<1>11. FlagsOk(d, c, Kind)
  BY <1>1, <1>4, <1>7, <1>8, <1>9, <1>10 DEF FlagsOk
<1>12. RaceOk(d, c, Kind)
  <2>1. /\ a.path[c] = "practice" <=> a.practice[t]
        /\ ~a.practice[t] /\ ~a.spoiled[t] =>
             /\ a.started[c] => a.path[c] \in {"start", "finish"}
             /\ a.state[t] # "finished"
    BY <1>1, <1>4, <1>7, <1>8 DEF RaceOk
  <2>2. a.state[t] # "finished"
    BY <1>1, <1>4, <1>7, <1>8 DEF RaceOk
  <2>3. /\ p = "practice" <=> a.practice[t]
        /\ ~a.practice[t] /\ ~a.spoiled[t] /\ a.started[c] => p = "finish"
    BY <2>1
  <2> QED
    BY <1>1, <1>7, <1>8, <1>9, <1>10, <2>1, <2>3, <2>2 DEF RaceOk
<1>13. Fits(a, c, b.race[c], d)
  BY <1>1, <1>11, <1>12 DEF Fits
<1>14. Legal(a, d)
  BY <1>6, <1>13, PutLegal
<1>15. Fine(d, {}, Kind)
  BY <1>14 DEF Legal
<1>16. /\ {} \in SUBSET Clients
       /\ \A e \in {} : d.team[e] = t => d.state[t] # "started"
  OBVIOUS
<1>17. Fine(r, {}, Kind) /\ Loses(d, r) /\ Ranks(d, r)
  BY <1>1, <1>2, <1>8, <1>15, <1>16, CheckKeeps
<1>18. Moves(d, r)
  BY <1>15, <1>17, LosesMoves
<1>19. Paths(a, d)
  <2>1. /\ d.run = a.run
        /\ d.spoiled = a.spoiled /\ d.ranked = a.ranked /\ d.team = a.team /\ d.tee = a.tee
        /\ d.state = a.state /\ d.practice = a.practice
    BY <1>6 DEF IsPut
  <2>2. \A e \in Clients \ {c} :
          d.race[e] = a.race[e] /\ d.started[e] = a.started[e] /\ d.path[e] = a.path[e]
    BY <1>6 DEF IsPut
  <2>3. /\ d.race[c] = a.race[c] /\ d.started[c] = a.started[c]
        /\ a.path[c] = "spawn" => d.path[c] = "spawn"
    BY <1>1, <1>6 DEF IsPut
  <2> QED
    BY <2>1, <2>2, <2>3 DEF Paths
<1>20. Moves(a, r)
  BY <1>18, <1>19, PathsMoves
<1> QED
  BY <1>17, <1>20 DEF Legal

(* A finish. *)
LEMMA FinishKeeps ==
  ASSUME NEW a, Fine(a, {}, Kind), NEW c \in Clients, Arrives(a, c), NEW r,
         r = OnCharacterFinish([a EXCEPT !.path[c] = IF @ = "start" THEN "finish" ELSE @], c)
  PROVE  Legal(a, r)
<1> DEFINE p == IF a.path[c] = "start" THEN "finish" ELSE a.path[c]
           b == OnPath(a, c, p)
<1>1. r = OnCharacterFinish(b, c)
  BY DEF OnPath
<1>2. a \in Games /\ p \in {"spawn", "start", "finish", "practice"} /\ c \in Clients
  BY DEF Fine, Games
<1>3. b = OnPath(a, c, p) /\ p = IF a.path[c] = "start" THEN "finish" ELSE a.path[c]
  OBVIOUS
<1> HIDE DEF b, p
<1>4. IsPut(a, c, a.started[c], a.finished[c], a.race[c], p, b)
  BY <1>2, <1>3, OnPathFields
<1>5. CASE a.team[c] = 0
  <2>1. RaceOk(a, c, Kind)
    BY DEF Fine
  <2>2. a.path[c] \in {"start", "finish"}
    BY <1>5, <2>1 DEF RaceOk, Arrives
  <2>3. p = "finish"
    BY <1>3, <2>2
  <2> QED
    BY <1>1, <1>4, <1>5, <2>3, FinishAlone
<1>6. CASE a.team[c] # 0
  BY <1>1, <1>3, <1>4, <1>6, FinishTogether
<1> QED
  BY <1>5, <1>6

(* The other tees are as they were. *)
LEMMA PutOthers ==
  ASSUME NEW h, NEW c, NEW r, NEW started, NEW finished, NEW x, NEW p,
         IsPut(h, c, started, finished, x, p, r), NEW d \in Clients \ {c}, NEW K,
         FlagsOk(h, d, K), RaceOk(h, d, K)
  PROVE  FlagsOk(r, d, K) /\ RaceOk(r, d, K)
<1>1. /\ r.team[d] = h.team[d] /\ r.tee[d] = h.tee[d] /\ r.race[d] = h.race[d]
      /\ r.path[d] = h.path[d] /\ r.started[d] = h.started[d] /\ r.finished[d] = h.finished[d]
      /\ r.practice = h.practice /\ r.state = h.state /\ r.spoiled = h.spoiled
  BY DEF IsPut
<1> QED
  BY <1>1, TeeSame

\* what AttemptJoinTeam asks of the tee c and the team t
Joins(a, c, t) ==
  LET u == a.team[c]
  IN  /\ t # u /\ a.tee[c] = "alive"
      /\ a.state[t] \in {"empty", "open"} \/ a.practice[t]
      /\ a.race[c] = "none" \/ (t = 0 /\ a.state[u] = "finished")
      /\ ~a.practice[u] /\ Kind[t] = "none" /\ Kind[u] = "none"

(* A tee joins another team. *)
LEMMA JoinKeeps ==
  ASSUME NEW a, Fine(a, {}, Kind), NEW c \in Clients, NEW t \in Teams, Joins(a, c, t),
         NEW r, r = [SetForceCharacterTeam(a, c, t) EXCEPT
                       !.path[c] = IF a.practice[t] THEN "practice" ELSE "spawn"]
  PROVE  Legal(a, r)
<1> DEFINE u == a.team[c]
           p == IF a.practice[t] THEN "practice" ELSE "spawn"
           h == SetForceCharacterTeam(a, c, t)
<1>1. /\ a \in Games /\ Peopled(a) /\ FlagsOk(a, c, Kind) /\ RaceOk(a, c, Kind) /\ Even(a, Kind)
      /\ u \in Teams /\ c \in Clients /\ t \in Teams /\ Waiting(a, Kind)
      /\ p \in {"spawn", "start", "finish", "practice"}
      /\ Fine(a, {}, Kind)
  BY DEF Fine, Games
<1>2. /\ t # u /\ a.tee[c] = "alive"
      /\ a.state[t] \in {"empty", "open"} \/ a.practice[t]
      /\ a.race[c] = "none" \/ (t = 0 /\ a.state[u] = "finished")
      /\ ~a.practice[u] /\ Kind[t] = "none" /\ Kind[u] = "none"
  BY DEF Joins
<1>3. r = OnPath(h, c, p) /\ h = SetForceCharacterTeam(a, c, t) /\ a.team[c] = u
      /\ p = IF a.practice[t] THEN "practice" ELSE "spawn"
  BY DEF OnPath
<1> HIDE DEF h, p, u
<1>4. Fine(h, {} \cup {c}, Kind)
  <2>1. /\ Kind[t] = "none" /\ (a.state[t] # "started" \/ a.practice[t])
        /\ Fine(a, {}, Kind)
    BY <1>1, <1>2
  <2> QED
    BY <1>1, <1>3, <2>1, ForceKeeps
<1>5. /\ h \in Games /\ h.team[c] = t /\ ~h.started[c] /\ ~h.finished[c]
      /\ \A d \in Clients \ {c} : h.team[d] = a.team[d]
      /\ h.tee = a.tee /\ h.race = a.race /\ h.path = a.path
      /\ h.run = a.run /\ h.spoiled = a.spoiled /\ h.ranked = a.ranked
  BY <1>1, <1>3, ForceFields
<1>6. \A v \in Teams :
         /\ \/ h.state[v] = a.state[v]
            \/ h.state[v] = "empty" /\ v = a.team[c]
            \/ v = t /\ a.state[v] = "empty" /\ h.state[v] = "open"
         /\ h.practice[v] <=> a.practice[v] /\ h.state[v] # "empty"
         /\ \A d \in Clients \ {c} : a.team[d] = v /\ v # 0 => h.state[v] = a.state[v]
  BY <1>1, <1>3, ForceTeams
<1>7. IsPut(h, c, h.started[c], h.finished[c], h.race[c], p, r)
  BY <1>1, <1>3, <1>5, OnPathFields
<1>8. /\ r \in Games /\ r.team = h.team /\ r.tee = h.tee /\ r.race = a.race
      /\ r.state = h.state /\ r.locked = h.locked /\ r.practice = h.practice
      /\ r.kill = h.kill /\ r.run = h.run /\ r.spoiled = h.spoiled /\ r.ranked = h.ranked
      /\ r.team[c] = t /\ r.tee[c] = "alive" /\ r.path[c] = p
      /\ ~r.started[c] /\ ~r.finished[c]
      /\ \A d \in Clients \ {c} : r.path[d] = h.path[d]
      /\ \A d \in Clients : r.started[d] = h.started[d] /\ r.finished[d] = h.finished[d]
  <2>1. /\ r \in Games /\ r.team = h.team /\ r.tee = h.tee
        /\ r.state = h.state /\ r.locked = h.locked /\ r.practice = h.practice
        /\ r.kill = h.kill /\ r.run = h.run /\ r.spoiled = h.spoiled /\ r.ranked = h.ranked
        /\ r.path[c] = p
    BY <1>7 DEF IsPut
  <2>2. r.race = a.race
    <3>1. \A d \in Clients : r.race[d] = a.race[d]
      BY <1>5, <1>7 DEF IsPut
    <3>2. r.race \in [Clients -> {"none", "started", "finished"}]
          /\ a.race \in [Clients -> {"none", "started", "finished"}]
      BY <1>1, <2>1 DEF Games
    <3> QED
      BY <3>1, <3>2
  <2>3. /\ ~r.started[c] /\ ~r.finished[c]
        /\ \A d \in Clients \ {c} : r.path[d] = h.path[d]
        /\ \A d \in Clients : r.started[d] = h.started[d] /\ r.finished[d] = h.finished[d]
    BY <1>5, <1>7 DEF IsPut
  <2>4. r.team[c] = t /\ r.tee[c] = "alive"
    BY <2>1, <1>2, <1>5
  <2> QED
    BY <2>1, <2>2, <2>3, <2>4
<1>9. \A v : Members(r, v) = Members(h, v) /\ Alive(r, v) = Alive(h, v)
  BY <1>8 DEF Members, Alive
<1>10. Peopled(r) /\ Waiting(r, Kind)
  <2>1. Peopled(h) /\ Waiting(h, Kind)
    BY <1>4 DEF Fine
  <2>2. Peopled(r)
    BY <2>1, <1>8, <1>9 DEF Peopled
  <2>3. Waiting(r, Kind)
    BY <2>1, <1>8 DEF Waiting
  <2> QED
    BY <2>2, <2>3
<1>11. Even(r, Kind)
  <2>1. Even(h, Kind)
    BY <1>4 DEF Fine
  <2>2. r.race = h.race
    BY <1>5, <1>8
  <2> QED
    BY <2>1, <2>2, <1>8, <1>9 DEF Even
<1>12. ASSUME NEW d \in Clients \ {c} PROVE FlagsOk(r, d, Kind) /\ RaceOk(r, d, Kind)
  <2>1. FlagsOk(h, d, Kind) /\ RaceOk(h, d, Kind)
    BY <1>4 DEF Fine
  <2> QED
    BY <1>7, <2>1, PutOthers
<1>13. FlagsOk(r, c, Kind)
  BY <1>8 DEF FlagsOk
<1>14. t # 0 => h.state[t] # "empty"
  <2>1. t # 0 => (h.state[t] = "empty" <=> Members(h, t) = {})
    BY <1>1, <1>4 DEF Fine, Peopled
  <2>2. c \in Members(h, t)
    BY <1>1, <1>5 DEF Members
  <2> QED
    BY <2>1, <2>2
<1>15. h.practice[t] <=> a.practice[t]
  <2>1. ~a.practice[0]
    BY <1>1, ClientsFacts DEF Peopled
  <2>2. CASE t = 0
    BY <1>1, <1>6, <2>1, <2>2
  <2>3. CASE t # 0
    BY <1>1, <1>6, <1>14, <2>3
  <2> QED
    BY <2>2, <2>3
<1>16. t # 0 /\ ~a.practice[t] => h.state[t] = "open"
  <2>1. t # 0 /\ ~a.practice[t] => a.state[t] \in {"empty", "open"}
    BY <1>2
  <2> QED
    BY <1>1, <1>2, <1>3, <1>6, <1>14, <2>1
<1>17. RaceOk(r, c, Kind)
  <2>1. p = "practice" <=> a.practice[t]
    BY <1>3
  <2>2. t # 0 => a.race[c] = "none"
    BY <1>2
  <2>3. a.race[c] # "started"
    <3>1. CASE a.race[c] = "none"
      BY <3>1
    <3>2. CASE a.state[u] = "finished"
      <4>1. u # 0
        BY <1>1, <3>2 DEF Peopled
      <4> QED
        BY <1>1, <1>2, <1>3, <3>2, <4>1 DEF RaceOk
    <3> QED
      BY <1>2, <3>1, <3>2
  <2>4. r.race[c] = a.race[c] /\ r.state[t] = h.state[t] /\ (r.practice[t] <=> a.practice[t])
    BY <1>8, <1>15
  <2>5. CASE t = 0
    BY <1>8, <2>1, <2>3, <2>4, <2>5 DEF RaceOk
  <2>6. CASE t # 0
    BY <1>2, <1>8, <1>16, <2>1, <2>2, <2>4, <2>6 DEF RaceOk
  <2> QED
    BY <2>5, <2>6
<1>18. Fine(r, {}, Kind)
  BY <1>8, <1>10, <1>11, <1>12, <1>13, <1>17 DEF Fine
<1>19. ASSUME NEW v \in Teams
       PROVE  /\ r.state[v] \in Racing => a.state[v] \in Racing
              /\ Kind[v] # "none" => Members(r, v) \subseteq Members(a, v)
  <2>1. r.state[v] \in Racing => a.state[v] \in Racing
    <3>1. r.state[v] = h.state[v]
      BY <1>8
    <3> QED
      BY <1>6, <3>1 DEF Racing
  <2>2. Kind[v] # "none" => v # t
    BY <1>2
  <2>3. v # t => Members(r, v) \subseteq Members(a, v)
    <3> SUFFICES ASSUME v # t, NEW d \in Members(h, v) PROVE d \in Members(a, v)
      BY <1>9
    <3>1. d \in Clients /\ h.team[d] = v
      BY DEF Members
    <3>2. d # c
      BY <1>5, <3>1
    <3> QED
      BY <1>5, <3>1, <3>2 DEF Members
  <2> QED
    BY <2>1, <2>2, <2>3
<1>20. ASSUME NEW v \in Teams PROVE RunKept(a, r, v)
  <2> SUFFICES ASSUME r.state[v] = "started", ~r.practice[v], Kind[v] = "none", ~r.spoiled[v]
               PROVE  RunKept(a, r, v)
    BY DEF RunKept
  <2>1. h.state[v] = "started" /\ ~h.practice[v]
    BY <1>8
  <2>2. a.state[v] = "started" /\ ~a.practice[v] /\ ~a.spoiled[v]
    BY <1>5, <1>6, <1>8, <2>1
  <2>3. v # t
    BY <1>2, <2>2
  <2>4. \A d \in Alive(r, v) : d # c /\ d \in Alive(a, v) /\ r.race[d] = a.race[d]
    <3> SUFFICES ASSUME NEW d \in Alive(r, v)
                 PROVE  d # c /\ d \in Alive(a, v) /\ r.race[d] = a.race[d]
      OBVIOUS
    <3>1. d \in Clients /\ h.team[d] = v /\ h.tee[d] = "alive"
      BY <1>9 DEF Alive, Members
    <3>2. d # c
      BY <1>5, <2>3, <3>1
    <3> QED
      BY <1>5, <1>8, <3>1, <3>2 DEF Alive, Members
  <2>5. CASE v = u
    <3>1. u # 0
      BY <1>1, <2>2, <2>5 DEF Peopled
    <3>2. c \in Alive(a, v) /\ a.race[c] = "none"
      BY <1>1, <1>2, <1>3, <2>2, <2>5 DEF Alive, Members
    <3>3. \A i, j \in Alive(a, v) : a.race[i] = a.race[j]
      BY <1>1, <2>2, <2>5, <3>1 DEF Even
    <3>4. \A d \in Alive(r, v) : r.race[d] = "none"
      BY <2>4, <3>2, <3>3
    <3> QED
      BY <3>4 DEF RunKept
  <2>6. CASE v # u
    <3>1. \A d \in Alive(a, v) : r.team[d] = v
      <4> SUFFICES ASSUME NEW d \in Alive(a, v) PROVE r.team[d] = v
        OBVIOUS
      <4>1. d \in Clients /\ a.team[d] = v
        BY DEF Alive, Members
      <4>2. d # c
        BY <1>3, <2>6, <4>1
      <4> QED
        BY <1>5, <1>8, <4>1, <4>2
    <3> QED
      BY <2>2, <2>4, <3>1, RunsOn
  <2> QED
    BY <2>5, <2>6
<1>21. r.run = a.run /\ r.spoiled = a.spoiled /\ Ranks(a, r)
  BY <1>5, <1>8 DEF Ranks
<1> QED
  BY <1>18, <1>19, <1>20, <1>21 DEF Legal, Moves

\* the tees c and d swap
SwappedTees(h, c, d) ==
  LET Swapped(f) == [f EXCEPT ![c] = f[d], ![d] = f[c]]
  IN  [h EXCEPT !.race = Swapped(@), !.path = Swapped(@),
                !.started = Swapped(@), !.finished = Swapped(@)]

\* the tee i of h is the tee j of r
IsAs(h, i, r, j) ==
  /\ r.race[j] = h.race[i] /\ r.path[j] = h.path[i]
  /\ r.started[j] = h.started[i] /\ r.finished[j] = h.finished[i]

\* r is h but for the tees c and d, which have swapped
HaveSwapped(h, c, d, r) ==
  /\ r \in Games /\ r.team = h.team /\ r.tee = h.tee
  /\ r.state = h.state /\ r.locked = h.locked /\ r.practice = h.practice
  /\ r.kill = h.kill /\ r.run = h.run /\ r.spoiled = h.spoiled /\ r.ranked = h.ranked
  /\ IsAs(h, c, r, d) /\ IsAs(h, d, r, c)
  /\ \A e \in Clients \ {c, d} : IsAs(h, e, r, e)

\* the tees get new races, paths and flags
AllPut(h, race, path, started, finished) ==
  [h EXCEPT !.race = race, !.path = path, !.started = started, !.finished = finished]

(* All tees get new races, paths and flags. *)
LEMMA AllPutFields ==
  ASSUME NEW h \in Games, NEW race \in [Clients -> {"none", "started", "finished"}],
         NEW path \in [Clients -> {"spawn", "start", "finish", "practice"}],
         NEW started \in [Clients -> BOOLEAN], NEW finished \in [Clients -> BOOLEAN],
         NEW r, r = AllPut(h, race, path, started, finished)
  PROVE  /\ r \in Games /\ r.team = h.team /\ r.tee = h.tee
         /\ r.state = h.state /\ r.locked = h.locked /\ r.practice = h.practice
         /\ r.kill = h.kill /\ r.run = h.run /\ r.spoiled = h.spoiled /\ r.ranked = h.ranked
         /\ r.race = race /\ r.path = path /\ r.started = started /\ r.finished = finished
BY DEF Games, AllPut

(* Two tees swap. *)
LEMMA SwapFields ==
  ASSUME NEW h \in Games, NEW c \in Clients, NEW d \in Clients, c # d,
         NEW r, r = SwappedTees(h, c, d)
  PROVE  HaveSwapped(h, c, d, r)
<1> DEFINE Swapped(f) == [f EXCEPT ![c] = f[d], ![d] = f[c]]
<1>1. /\ h.started \in [Clients -> BOOLEAN] /\ h.finished \in [Clients -> BOOLEAN]
      /\ h.race \in [Clients -> {"none", "started", "finished"}]
      /\ h.path \in [Clients -> {"spawn", "start", "finish", "practice"}]
  BY DEF Games
<1>2. ASSUME NEW S, NEW f \in [Clients -> S]
      PROVE  /\ Swapped(f) \in [Clients -> S]
             /\ Swapped(f)[c] = f[d] /\ Swapped(f)[d] = f[c]
             /\ \A e \in Clients \ {c, d} : Swapped(f)[e] = f[e]
  OBVIOUS
<1>3. r = AllPut(h, Swapped(h.race), Swapped(h.path), Swapped(h.started), Swapped(h.finished))
  BY DEF SwappedTees, AllPut
<1>4. /\ Swapped(h.started) \in [Clients -> BOOLEAN]
      /\ Swapped(h.finished) \in [Clients -> BOOLEAN]
      /\ Swapped(h.race) \in [Clients -> {"none", "started", "finished"}]
      /\ Swapped(h.path) \in [Clients -> {"spawn", "start", "finish", "practice"}]
  <2> HIDE DEF Swapped
  <2> QED
    BY <1>1, <1>2
<1>5. /\ Swapped(h.started)[c] = h.started[d] /\ Swapped(h.started)[d] = h.started[c]
      /\ Swapped(h.finished)[c] = h.finished[d] /\ Swapped(h.finished)[d] = h.finished[c]
      /\ Swapped(h.race)[c] = h.race[d] /\ Swapped(h.race)[d] = h.race[c]
      /\ Swapped(h.path)[c] = h.path[d] /\ Swapped(h.path)[d] = h.path[c]
  <2> HIDE DEF Swapped
  <2> QED
    BY <1>1, <1>2
<1>6. \A e \in Clients \ {c, d} :
        /\ Swapped(h.started)[e] = h.started[e] /\ Swapped(h.finished)[e] = h.finished[e]
        /\ Swapped(h.race)[e] = h.race[e] /\ Swapped(h.path)[e] = h.path[e]
  <2> HIDE DEF Swapped
  <2> QED
    BY <1>1, <1>2
<1> HIDE DEF Swapped
<1>7. /\ r \in Games /\ r.team = h.team /\ r.tee = h.tee
      /\ r.state = h.state /\ r.locked = h.locked /\ r.practice = h.practice
      /\ r.kill = h.kill /\ r.run = h.run /\ r.spoiled = h.spoiled /\ r.ranked = h.ranked
      /\ r.race = Swapped(h.race) /\ r.path = Swapped(h.path)
      /\ r.started = Swapped(h.started) /\ r.finished = Swapped(h.finished)
  BY <1>3, <1>4, AllPutFields
<1> QED
  BY <1>5, <1>6, <1>7 DEF HaveSwapped, IsAs

(* A tee that takes the place of another of its team is in order when that one was. *)
LEMMA TeeAs ==
  ASSUME NEW h, NEW i, NEW r, NEW j, NEW K, IsAs(h, i, r, j),
         r.team[j] = h.team[i], r.tee[j] = h.tee[i], r.state = h.state, r.practice = h.practice,
         r.spoiled = h.spoiled, FlagsOk(h, i, K), RaceOk(h, i, K)
  PROVE  FlagsOk(r, j, K) /\ RaceOk(r, j, K)
<1>1. /\ r.race[j] = h.race[i] /\ r.path[j] = h.path[i]
      /\ r.started[j] = h.started[i] /\ r.finished[j] = h.finished[i]
  BY DEF IsAs
<1>2. FlagsOk(r, j, K)
  BY <1>1 DEF FlagsOk
<1>3. RaceOk(r, j, K)
  BY <1>1 DEF RaceOk
<1> QED
  BY <1>2, <1>3

\* what ConSwap asks of two tees
Swaps(a, c, d) ==
  c # d /\ a.team[c] = a.team[d] /\ a.tee[c] = "alive" /\ a.tee[d] = "alive"

(* Two tees of a team swap: in a race for a rank their races are the same. *)
LEMMA SwapKeeps ==
  ASSUME NEW a, Fine(a, {}, Kind), NEW c \in Clients, NEW d \in Clients, Swaps(a, c, d),
         NEW r, r = SwappedTees(a, c, d)
  PROVE  Legal(a, r)
<1>1. /\ a \in Games /\ Peopled(a) /\ Waiting(a, Kind) /\ Even(a, Kind)
      /\ \A e \in Clients : FlagsOk(a, e, Kind) /\ RaceOk(a, e, Kind)
  BY DEF Fine
<1>2. c # d /\ a.team[c] = a.team[d] /\ a.tee[c] = "alive" /\ a.tee[d] = "alive"
  BY DEF Swaps
<1>3. HaveSwapped(a, c, d, r)
  BY <1>1, <1>2, SwapFields
<1>4. /\ r \in Games /\ r.team = a.team /\ r.tee = a.tee
      /\ r.state = a.state /\ r.locked = a.locked /\ r.practice = a.practice
      /\ r.kill = a.kill /\ r.run = a.run /\ r.spoiled = a.spoiled /\ r.ranked = a.ranked
      /\ IsAs(a, c, r, d) /\ IsAs(a, d, r, c)
      /\ \A e \in Clients \ {c, d} : IsAs(a, e, r, e)
  BY <1>3 DEF HaveSwapped
<1>5. \A u : Members(r, u) = Members(a, u) /\ Alive(r, u) = Alive(a, u)
  BY <1>4 DEF Members, Alive
<1>6. \A e \in Clients : FlagsOk(r, e, Kind) /\ RaceOk(r, e, Kind)
  <2>1. FlagsOk(r, c, Kind) /\ RaceOk(r, c, Kind)
    <3>1. r.team[c] = a.team[d] /\ r.tee[c] = a.tee[d]
      BY <1>2, <1>4
    <3> QED
      BY <1>1, <1>4, <3>1, TeeAs
  <2>2. FlagsOk(r, d, Kind) /\ RaceOk(r, d, Kind)
    <3>1. r.team[d] = a.team[c] /\ r.tee[d] = a.tee[c]
      BY <1>2, <1>4
    <3> QED
      BY <1>1, <1>4, <3>1, TeeAs
  <2>3. ASSUME NEW e \in Clients \ {c, d} PROVE FlagsOk(r, e, Kind) /\ RaceOk(r, e, Kind)
    <3>1. r.team[e] = a.team[e] /\ r.tee[e] = a.tee[e] /\ IsAs(a, e, r, e)
      BY <1>4
    <3> QED
      BY <1>1, <1>4, <3>1, TeeAs
  <2> QED
    BY <2>1, <2>2, <2>3
<1>7. ASSUME NEW u \in Teams \ {0}, a.state[u] = "started", ~a.practice[u], Kind[u] = "none",
             ~a.spoiled[u], NEW e \in Alive(r, u)
      PROVE  e \in Alive(a, u) /\ r.race[e] = a.race[e]
  <2>1. e \in Alive(a, u) /\ e \in Clients /\ a.team[e] = u
    BY <1>5 DEF Alive, Members
  <2>2. \A i, j \in Alive(a, u) : a.race[i] = a.race[j]
    BY <1>1, <1>7 DEF Even
  <2>3. a.team[c] = u => a.race[c] = a.race[d]
    <3>1. a.team[c] = u => c \in Alive(a, u) /\ d \in Alive(a, u)
      BY <1>2 DEF Alive, Members
    <3> QED
      BY <2>2, <3>1
  <2>4. /\ e = c => r.race[e] = a.race[d]
        /\ e = d => r.race[e] = a.race[c]
        /\ e \notin {c, d} => r.race[e] = a.race[e]
    BY <1>4, <2>1 DEF IsAs
  <2> QED
    BY <1>2, <2>1, <2>3, <2>4
<1>8. Even(r, Kind)
  <2> SUFFICES ASSUME NEW u \in Teams \ {0}, a.state[u] = "started", ~a.practice[u],
                      Kind[u] = "none", ~a.spoiled[u], NEW i \in Alive(r, u), NEW j \in Alive(r, u)
               PROVE  r.race[i] = r.race[j]
    BY <1>4 DEF Even
  <2>1. \A k, l \in Alive(a, u) : a.race[k] = a.race[l]
    BY <1>1 DEF Even
  <2> QED
    BY <1>7, <2>1
<1>9. Peopled(r) /\ Waiting(r, Kind)
  <2>1. Peopled(r)
    BY <1>1, <1>4, <1>5 DEF Peopled
  <2>2. Waiting(r, Kind)
    BY <1>1, <1>4 DEF Waiting
  <2> QED
    BY <2>1, <2>2
<1>10. Fine(r, {}, Kind)
  BY <1>4, <1>6, <1>8, <1>9 DEF Fine
<1>11. ASSUME NEW t \in Teams
       PROVE  /\ r.state[t] \in Racing => a.state[t] \in Racing
              /\ RunKept(a, r, t)
  <2>1. r.state[t] \in Racing => a.state[t] \in Racing
    BY <1>4
  <2>2. RunKept(a, r, t)
    <3> SUFFICES ASSUME r.state[t] = "started", ~r.practice[t], Kind[t] = "none", ~r.spoiled[t]
                 PROVE  RunKept(a, r, t)
      BY DEF RunKept
    <3>1. t # 0 /\ a.state[t] = "started" /\ ~a.practice[t] /\ ~a.spoiled[t]
      BY <1>1, <1>4 DEF Peopled
    <3>2. \A e \in Alive(r, t) : e \in Alive(a, t) /\ r.race[e] = a.race[e]
      BY <1>7, <3>1
    <3>3. \A e \in Alive(a, t) : r.team[e] = t
      BY <1>4 DEF Alive, Members
    <3> QED
      BY <3>1, <3>2, <3>3, RunsOn
  <2> QED
    BY <2>1, <2>2
<1>12. Ranks(a, r) /\ r.run = a.run /\ r.spoiled = a.spoiled
  BY <1>4 DEF Ranks
<1> QED
  BY <1>5, <1>10, <1>11, <1>12 DEF Legal, Moves

\* the team t, with the tees cs, practices
Practiced(h, t, cs) ==
  [h EXCEPT !.practice[t] = TRUE,
            !.path = [c \in Clients |-> IF c \in cs THEN "practice" ELSE @[c]]]

\* the team t practices, and all tees get new paths
PathsPut(h, t, path) == [h EXCEPT !.practice[t] = TRUE, !.path = path]

(* A team begins to practice, with new paths. *)
LEMMA PracticeFields ==
  ASSUME NEW h \in Games, NEW t \in Teams,
         NEW path \in [Clients -> {"spawn", "start", "finish", "practice"}],
         NEW r, r = PathsPut(h, t, path)
  PROVE  /\ r \in Games /\ r.team = h.team /\ r.tee = h.tee /\ r.race = h.race
         /\ r.started = h.started /\ r.finished = h.finished
         /\ r.state = h.state /\ r.locked = h.locked
         /\ r.kill = h.kill /\ r.run = h.run /\ r.spoiled = h.spoiled /\ r.ranked = h.ranked
         /\ r.practice = [h.practice EXCEPT ![t] = TRUE]
         /\ r.path = path
BY DEF Games, PathsPut

(* A team begins to practice. *)
LEMMA PracticedFields ==
  ASSUME NEW h \in Games, NEW t \in Teams, NEW cs, NEW r, r = Practiced(h, t, cs)
  PROVE  /\ r \in Games /\ r.team = h.team /\ r.tee = h.tee /\ r.race = h.race
         /\ r.started = h.started /\ r.finished = h.finished
         /\ r.state = h.state /\ r.locked = h.locked
         /\ r.kill = h.kill /\ r.run = h.run /\ r.spoiled = h.spoiled /\ r.ranked = h.ranked
         /\ r.practice[t] /\ \A u \in Teams \ {t} : r.practice[u] = h.practice[u]
         /\ \A c \in Clients : r.path[c] = IF c \in cs THEN "practice" ELSE h.path[c]
<1>1. /\ h.practice \in [Teams -> BOOLEAN]
      /\ h.path \in [Clients -> {"spawn", "start", "finish", "practice"}]
  BY DEF Games
<1>2. /\ r \in Games /\ r.team = h.team /\ r.tee = h.tee /\ r.race = h.race
      /\ r.started = h.started /\ r.finished = h.finished
      /\ r.state = h.state /\ r.locked = h.locked
      /\ r.kill = h.kill /\ r.run = h.run /\ r.spoiled = h.spoiled /\ r.ranked = h.ranked
      /\ r.practice = [h.practice EXCEPT ![t] = TRUE]
      /\ r.path = [c \in Clients |-> IF c \in cs THEN "practice" ELSE h.path[c]]
  <2> DEFINE path == [c \in Clients |-> IF c \in cs THEN "practice" ELSE h.path[c]]
  <2>1. path \in [Clients -> {"spawn", "start", "finish", "practice"}]
    BY <1>1
  <2>2. r = PathsPut(h, t, path) /\ h \in Games /\ t \in Teams
    BY DEF Practiced, PathsPut
  <2> HIDE DEF path
  <2>3. /\ r \in Games /\ r.team = h.team /\ r.tee = h.tee /\ r.race = h.race
        /\ r.started = h.started /\ r.finished = h.finished
        /\ r.state = h.state /\ r.locked = h.locked
        /\ r.kill = h.kill /\ r.run = h.run /\ r.spoiled = h.spoiled /\ r.ranked = h.ranked
        /\ r.practice = [h.practice EXCEPT ![t] = TRUE]
        /\ r.path = path
    BY <2>1, <2>2, PracticeFields
  <2> QED
    BY <2>3 DEF path
<1> QED
  BY <1>1, <1>2

\* what ConPractice asks of the team t, with the tees cs
Practices(a, t, cs) ==
  t # 0 /\ Members(a, t) # {} /\ Kind[t] = "none" /\ cs = Alive(a, t)

(* Nothing that a practice keeps is in disorder. *)
LEMMA PracticeKeeps ==
  ASSUME NEW a, Fine(a, {}, Kind), NEW t \in Teams, NEW cs, Practices(a, t, cs),
         NEW r, r = Practiced(a, t, cs)
  PROVE  Legal(a, r)
<1>1. /\ a \in Games /\ Peopled(a) /\ Waiting(a, Kind) /\ Even(a, Kind)
      /\ \A e \in Clients : FlagsOk(a, e, Kind) /\ RaceOk(a, e, Kind)
  BY DEF Fine
<1>2. t # 0 /\ Members(a, t) # {} /\ Kind[t] = "none" /\ cs = Alive(a, t)
  BY DEF Practices
<1>3. /\ r \in Games /\ r.team = a.team /\ r.tee = a.tee /\ r.race = a.race
      /\ r.started = a.started /\ r.finished = a.finished
      /\ r.state = a.state /\ r.locked = a.locked
      /\ r.kill = a.kill /\ r.run = a.run /\ r.spoiled = a.spoiled /\ r.ranked = a.ranked
      /\ r.practice[t] /\ \A u \in Teams \ {t} : r.practice[u] = a.practice[u]
      /\ \A c \in Clients : r.path[c] = IF c \in cs THEN "practice" ELSE a.path[c]
  BY <1>1, PracticedFields
<1>4. \A u : Members(r, u) = Members(a, u) /\ Alive(r, u) = Alive(a, u)
  BY <1>3 DEF Members, Alive
<1>5. ASSUME NEW u \in Teams
      PROVE  /\ u # 0 => (r.state[u] = "empty" <=> Members(r, u) = {})
             /\ r.state[u] = "empty" => ~r.locked[u] /\ ~r.practice[u] /\ ~r.kill[u]
             /\ u = 0 => /\ r.state[u] \in {"empty", "open"} /\ ~r.locked[u]
                         /\ ~r.practice[u] /\ ~r.spoiled[u]
             /\ Kind[u] # "none" =>
                  /\ u # 0 /\ ~r.practice[u]
                  /\ r.state[u] \in Waits(Kind[u])
  <2>1. /\ u # 0 => (a.state[u] = "empty" <=> Members(a, u) = {})
        /\ a.state[u] = "empty" => ~a.locked[u] /\ ~a.practice[u] /\ ~a.kill[u]
        /\ u = 0 => /\ a.state[u] \in {"empty", "open"} /\ ~a.locked[u]
                    /\ ~a.practice[u] /\ ~a.spoiled[u]
        /\ Kind[u] # "none" =>
             /\ u # 0 /\ ~a.practice[u]
             /\ a.state[u] \in Waits(Kind[u])
    BY <1>1 DEF Peopled, Waiting
  <2>2. CASE u = t
    BY <1>2, <1>3, <1>4, <2>1, <2>2
  <2>3. CASE u # t
    BY <1>3, <1>4, <2>1, <2>3
  <2> QED
    BY <2>2, <2>3
<1>6. Peopled(r) /\ Waiting(r, Kind)
  BY <1>5 DEF Peopled, Waiting
<1>7. Even(r, Kind)
  <2>1. \A u \in Teams : ~r.practice[u] => ~a.practice[u]
    BY <1>3
  <2> QED
    BY <1>1, <1>3, <1>4, <2>1 DEF Even
<1>8. ASSUME NEW e \in Clients PROVE FlagsOk(r, e, Kind) /\ RaceOk(r, e, Kind)
  <2>1. FlagsOk(a, e, Kind) /\ RaceOk(a, e, Kind) /\ a.team[e] \in Teams
    BY <1>1 DEF Games
  <2>2. /\ r.team[e] = a.team[e] /\ r.tee[e] = a.tee[e] /\ r.race[e] = a.race[e]
        /\ r.started[e] = a.started[e] /\ r.finished[e] = a.finished[e]
        /\ r.state = a.state /\ r.spoiled = a.spoiled
    BY <1>3
  <2>3. FlagsOk(r, e, Kind)
    BY <2>1, <2>2 DEF FlagsOk
  <2>4. CASE a.team[e] = t
    <3>1. a.tee[e] = "alive" => r.path[e] = "practice"
      <4>1. a.tee[e] = "alive" => e \in cs
        BY <1>2, <2>4 DEF Alive, Members
      <4> QED
        BY <1>3, <4>1
    <3>2. r.practice[r.team[e]] /\ r.team[e] # 0 /\ Kind[r.team[e]] = "none"
      BY <1>2, <1>3, <2>2, <2>4
    <3>3. a.tee[e] = "alive" =>
            /\ a.state[a.team[e]] = "open" => a.race[e] = "none"
            /\ a.state[a.team[e]] = "finished" => a.race[e] # "started"
      BY <1>2, <2>1, <2>4 DEF RaceOk
    <3> QED
      BY <2>2, <2>3, <3>1, <3>2, <3>3 DEF RaceOk
  <2>5. CASE a.team[e] # t
    <3>1. r.practice[a.team[e]] = a.practice[a.team[e]]
      BY <1>3, <2>1, <2>5
    <3>2. e \notin cs
      BY <1>2, <2>5 DEF Alive, Members
    <3>3. r.path[e] = a.path[e]
      BY <1>3, <3>2
    <3> QED
      BY <2>1, <2>2, <3>1, <3>3, TeeSame
  <2> QED
    BY <2>3, <2>4, <2>5
<1>9. Fine(r, {}, Kind)
  BY <1>3, <1>6, <1>7, <1>8 DEF Fine
<1>10. Stay(a, r)
  <2>1. \A u \in Teams : a.practice[u] => r.practice[u]
    BY <1>3
  <2> QED
    BY <1>3, <1>4, <2>1 DEF Stay
<1> QED
  BY <1>9, <1>10, StayMoves

\* the team t practices no more
Unpracticed(h, t) == [h EXCEPT !.practice[t] = FALSE]

(* A team whose tees are dead may stop to practice. *)
LEMMA UnpracticeKeeps ==
  ASSUME NEW a, Fine(a, {}, Kind), NEW t \in Teams \ {0}, NEW h, TeamSlain(a, t, h),
         NEW r, r = Unpracticed(h, t)
  PROVE  Legal(a, r)
<1>1. /\ Fine(h, {}, Kind) /\ Loses(a, h) /\ h.ranked = a.ranked /\ Alive(h, t) = {}
      /\ h \in Games /\ Peopled(h) /\ Waiting(h, Kind) /\ Even(h, Kind)
      /\ \A e \in Clients : FlagsOk(h, e, Kind) /\ RaceOk(h, e, Kind)
  BY DEF TeamSlain, Fine
<1>2. /\ r \in Games /\ r.team = h.team /\ r.tee = h.tee /\ r.race = h.race
      /\ r.path = h.path /\ r.started = h.started /\ r.finished = h.finished
      /\ r.state = h.state /\ r.locked = h.locked
      /\ r.kill = h.kill /\ r.run = h.run /\ r.spoiled = h.spoiled /\ r.ranked = h.ranked
      /\ ~r.practice[t] /\ \A u \in Teams \ {t} : r.practice[u] = h.practice[u]
  <2>1. h.practice \in [Teams -> BOOLEAN]
    BY <1>1 DEF Games
  <2>2. /\ r \in Games /\ r.team = h.team /\ r.tee = h.tee /\ r.race = h.race
        /\ r.path = h.path /\ r.started = h.started /\ r.finished = h.finished
        /\ r.state = h.state /\ r.locked = h.locked
        /\ r.kill = h.kill /\ r.run = h.run /\ r.spoiled = h.spoiled /\ r.ranked = h.ranked
        /\ r.practice = [h.practice EXCEPT ![t] = FALSE]
    BY <1>1 DEF Games, Unpracticed
  <2> QED
    BY <2>1, <2>2
<1>3. \A u : Members(r, u) = Members(h, u) /\ Alive(r, u) = Alive(h, u)
  BY <1>2 DEF Members, Alive
<1>4. Peopled(r) /\ Waiting(r, Kind)
  <2>1. \A u \in Teams : ~h.practice[u] => ~r.practice[u]
    BY <1>2
  <2>2. Peopled(r)
    BY <1>1, <1>2, <1>3, <2>1 DEF Peopled
  <2>3. Waiting(r, Kind)
    BY <1>1, <1>2, <2>1 DEF Waiting
  <2> QED
    BY <2>2, <2>3
<1>5. Even(r, Kind)
  <2> SUFFICES ASSUME NEW u \in Teams \ {0}, r.state[u] = "started", ~r.practice[u],
                      Kind[u] = "none", ~r.spoiled[u], NEW d \in Alive(r, u), NEW e \in Alive(r, u)
               PROVE  r.race[d] = r.race[e]
    BY DEF Even
  <2>1. u # t
    BY <1>1, <1>3
  <2> QED
    BY <1>1, <1>2, <1>3, <2>1 DEF Even
<1>6. ASSUME NEW e \in Clients PROVE FlagsOk(r, e, Kind) /\ RaceOk(r, e, Kind)
  <2>1. FlagsOk(h, e, Kind) /\ RaceOk(h, e, Kind) /\ h.team[e] \in Teams
    BY <1>1 DEF Games
  <2>2. FlagsOk(r, e, Kind)
    BY <1>2, <2>1 DEF FlagsOk
  <2>3. CASE h.team[e] = t
    <3>1. r.tee[e] # "alive"
      BY <1>1, <1>2, <2>3 DEF Alive, Members
    <3> QED
      BY <2>2, <3>1 DEF RaceOk
  <2>4. CASE h.team[e] # t
    <3>1. r.practice[h.team[e]] = h.practice[h.team[e]]
      BY <1>2, <2>1, <2>4
    <3>2. /\ r.team[e] = h.team[e] /\ r.tee[e] = h.tee[e] /\ r.race[e] = h.race[e]
          /\ r.path[e] = h.path[e]
          /\ r.started[e] = h.started[e] /\ r.finished[e] = h.finished[e] /\ r.state = h.state
          /\ r.spoiled = h.spoiled
      BY <1>2
    <3> QED
      BY <2>1, <3>1, <3>2, TeeSame
  <2> QED
    BY <2>2, <2>3, <2>4
<1>7. Fine(r, {}, Kind)
  BY <1>2, <1>4, <1>5, <1>6 DEF Fine
<1>8. Moves(a, h)
  BY <1>1, LosesMoves DEF Ranks
<1>9. ASSUME NEW u \in Teams PROVE RunKept(a, r, u)
  <2>1. RunKept(a, h, u)
    BY <1>8 DEF Moves
  <2>2. CASE u = t
    <3>1. \A c \in Alive(r, u) : r.race[c] = "none"
      BY <1>1, <1>3, <2>2
    <3> QED
      BY <3>1 DEF RunKept
  <2>3. CASE u # t
    <3>1. r.practice[u] = h.practice[u]
      BY <1>2, <2>3
    <3> QED
      BY <1>2, <1>3, <2>1, <3>1 DEF RunKept
  <2> QED
    BY <2>2, <2>3
<1>10. /\ r.run = a.run /\ r.spoiled = a.spoiled
       /\ \A u \in Teams :
            /\ r.state[u] \in Racing => a.state[u] \in Racing
            /\ Kind[u] # "none" => Members(r, u) \subseteq Members(a, u)
  BY <1>2, <1>3, <1>8 DEF Moves
<1>11. Ranks(a, r)
  BY <1>1, <1>2 DEF Ranks
<1> QED
  BY <1>7, <1>9, <1>10, <1>11 DEF Legal, Moves

(* A lock changes nothing of a run. *)
LEMMA LockLegal ==
  ASSUME NEW a, Fine(a, {}, Kind), NEW t \in Teams \ {0}, NEW lock \in BOOLEAN,
         Members(a, t) # {}, NEW r, r = Locked(a, t, lock)
  PROVE  Legal(a, r)
<1>1. /\ Fine(r, {}, Kind) /\ Loses(a, r) /\ r.ranked = a.ranked
  BY LockedSame
<1>2. Moves(a, r)
  BY <1>1, LosesMoves DEF Ranks
<1> QED
  BY <1>1, <1>2 DEF Legal

\* the team t is not killed when its time is up
Spared(h, t) == [h EXCEPT !.kill[t] = FALSE]

(* A team that is spared goes on. *)
LEMMA SparedLegal ==
  ASSUME NEW a, Fine(a, {}, Kind), NEW t \in Teams, NEW r, r = Spared(a, t)
  PROVE  Legal(a, r)
<1>1. /\ a \in Games /\ Peopled(a) /\ Waiting(a, Kind) /\ Even(a, Kind)
      /\ \A e \in Clients : FlagsOk(a, e, Kind) /\ RaceOk(a, e, Kind)
  BY DEF Fine
<1>2. /\ r \in Games /\ r.team = a.team /\ r.tee = a.tee /\ r.race = a.race
      /\ r.path = a.path /\ r.started = a.started /\ r.finished = a.finished
      /\ r.state = a.state /\ r.locked = a.locked /\ r.practice = a.practice
      /\ r.run = a.run /\ r.spoiled = a.spoiled /\ r.ranked = a.ranked
      /\ r.kill = [a.kill EXCEPT ![t] = FALSE]
  BY <1>1 DEF Games, Spared
<1>3. \A u : Members(r, u) = Members(a, u) /\ Alive(r, u) = Alive(a, u)
  BY <1>2 DEF Members, Alive
<1>4. \A u \in Teams : ~a.kill[u] => ~r.kill[u]
  BY <1>1, <1>2 DEF Games
<1>5. Peopled(r)
  BY <1>1, <1>2, <1>3, <1>4 DEF Peopled
<1>6. Waiting(r, Kind)
  BY <1>1, <1>2 DEF Waiting
<1>7. Even(r, Kind)
  BY <1>1, <1>2, <1>3 DEF Even
<1>8. ASSUME NEW e \in Clients PROVE FlagsOk(r, e, Kind) /\ RaceOk(r, e, Kind)
  <2>1. FlagsOk(a, e, Kind) /\ RaceOk(a, e, Kind)
    BY <1>1
  <2>2. /\ r.team[e] = a.team[e] /\ r.tee[e] = a.tee[e] /\ r.race[e] = a.race[e]
        /\ r.path[e] = a.path[e]
        /\ r.started[e] = a.started[e] /\ r.finished[e] = a.finished[e]
        /\ r.state = a.state /\ r.practice = a.practice /\ r.spoiled = a.spoiled
    BY <1>2
  <2> QED
    BY <2>1, <2>2, TeeSame
<1>9. Fine(r, {}, Kind)
  BY <1>2, <1>5, <1>6, <1>7, <1>8 DEF Fine
<1>10. Stay(a, r)
  BY <1>2, <1>3 DEF Stay
<1> QED
  BY <1>9, <1>10, StayMoves

(* A team that does not race for a rank is killed. *)
LEMMA KillTeamLegal ==
  ASSUME NEW a, Fine(a, {}, Kind), NEW t \in Teams \ {0}, Idle(a, t), NEW r, r = KillTeam(a, t)
  PROVE  Legal(a, r)
<1>1. Fine(r, {}, Kind) /\ Loses(a, r) /\ r.ranked = a.ranked
  BY KillTeamKeeps DEF TeamSlain
<1>2. Moves(a, r)
  BY <1>1, LosesMoves DEF Ranks
<1> QED
  BY <1>1, <1>2 DEF Legal

(* The character of a tee that does not live comes or goes. *)
LEMMA DeadLegal ==
  ASSUME NEW a, Fine(a, {}, Kind), NEW c \in Clients, a.tee[c] # "alive",
         NEW x \in {"dead", "corpse", "out"}, NEW r, r = [a EXCEPT !.tee[c] = x]
  PROVE  Legal(a, r)
<1>1. Fine(r, {}, Kind) /\ Loses(a, r) /\ r.ranked = a.ranked
  BY DeadSame
<1>2. Moves(a, r)
  BY <1>1, LosesMoves DEF Ranks
<1> QED
  BY <1>1, <1>2 DEF Legal

\* the character of c dies
Corpse(a, c) == [a EXCEPT !.tee[c] = "corpse"]

(* The world kills a tee. *)
LEMMA FallLegal ==
  ASSUME NEW a, Fine(a, {}, Kind), NEW c \in Clients, NEW weapon,
         NEW r, r = OnCharacterDeath(Corpse(a, c), c, weapon)
  PROVE  Legal(a, r)
<1> DEFINE h == Corpse(a, c)
<1>1. a \in Games /\ h = [a EXCEPT !.tee[c] = "corpse"] /\ "corpse" \in {"dead", "corpse", "out"}
  BY DEF Fine, Corpse
<1>2. r = OnCharacterDeath(h, c, weapon)
  OBVIOUS
<1> HIDE DEF h
<1>3. Fallen(a, h, c) /\ h.tee[c] = "corpse"
  BY <1>1, TeeDies
<1>4. Died(a, h, c, r)
  BY <1>2, <1>3, DeathKeeps
<1>5. Fine(r, {}, Kind) /\ Loses(a, r) /\ Ranks(a, r)
  BY <1>4 DEF Died
<1>6. Moves(a, r)
  BY <1>5, LosesMoves
<1> QED
  BY <1>5, <1>6 DEF Legal

(* A player kills its tee. *)
LEMMA KillLegal ==
  ASSUME NEW a, Fine(a, {}, Kind), NEW c \in Clients, NEW weapon,
         NEW r, r = KillCharacter(a, c, weapon)
  PROVE  Legal(a, r)
<1>1. Fine(r, {}, Kind) /\ Loses(a, r) /\ Ranks(a, r)
  BY KillKeeps DEF Slain
<1>2. Moves(a, r)
  BY <1>1, LosesMoves
<1> QED
  BY <1>1, <1>2 DEF Legal

\* b comes of a by losses, all is in order, and c does not live
Lost(a, c, b) ==
  Fine(b, {}, Kind) /\ Loses(a, b) /\ Ranks(a, b) /\ c \in Clients /\ b.tee[c] # "alive"

(* A tee that does not live loses nothing more when it goes. *)
LEMMA LostOut ==
  ASSUME NEW a, NEW b, NEW c, Lost(a, c, b), NEW x \in {"dead", "corpse", "out"},
         NEW r, r = [b EXCEPT !.tee[c] = x]
  PROVE  Lost(a, c, r)
<1>1. Fine(b, {}, Kind) /\ Loses(a, b) /\ Ranks(a, b) /\ c \in Clients /\ b.tee[c] # "alive"
  BY DEF Lost
<1>2. /\ Fine(r, {}, Kind) /\ Loses(b, r) /\ r.ranked = b.ranked
      /\ r.tee[c] = x /\ \A d \in Clients \ {c} : r.tee[d] = b.tee[d]
  BY <1>1, DeadSame
<1>3. b.ranked.who \in SUBSET Clients
  BY <1>1 DEF Fine, Games
<1>4. \A d \in b.ranked.who : d \in Clients /\ (b.tee[d] = "alive" => r.tee[d] = "alive")
  BY <1>1, <1>2, <1>3
<1>5. Ranks(a, r)
  BY <1>1, <1>2, <1>4, RanksBefore
<1>6. Loses(a, r)
  BY <1>1, <1>2, LosesMore
<1> QED
  BY <1>1, <1>2, <1>5, <1>6 DEF Lost

(* A tee that does not live loses nothing more when it leaves its team. *)
LEMMA LostLeaves ==
  ASSUME NEW a, NEW b, NEW c, Lost(a, c, b), NEW r, r = SetForceCharacterTeam(b, c, 0)
  PROVE  Lost(a, c, r)
<1>1. /\ Fine(b, {}, Kind) /\ Loses(a, b) /\ Ranks(a, b) /\ c \in Clients /\ b.tee[c] # "alive"
      /\ b \in Games /\ Peopled(b) /\ 0 \in Teams
  BY ClientsFacts DEF Lost, Fine
<1>2. Fine(r, {} \cup {c}, Kind)
  BY <1>1, ForceKeeps
<1>3. Loses(b, r)
  BY <1>1, ForceLoses
<1>4. r.team[c] = 0 /\ r.tee = b.tee /\ r.ranked = b.ranked
  BY <1>1, ForceFields
<1>5. FlagsOk(r, c, Kind) /\ RaceOk(r, c, Kind)
  BY <1>1, <1>4, OutOfTeams
<1>6. Fine(r, {}, Kind)
  <2>1. \A d \in ({} \cup {c}) \ {} : FlagsOk(r, d, Kind) /\ RaceOk(r, d, Kind)
    BY <1>5
  <2> QED
    BY <1>2, <2>1, FineLess
<1>7. \A d \in b.ranked.who : d \in Clients /\ (b.tee[d] = "alive" => r.tee[d] = "alive")
  BY <1>1, <1>4 DEF Games
<1>8. Ranks(a, r)
  BY <1>1, <1>3, <1>4, <1>7, RanksBefore
<1>9. Loses(a, r)
  BY <1>1, <1>3, LosesMore
<1> QED
  BY <1>1, <1>4, <1>6, <1>8, <1>9 DEF Lost

(* Who is killed is lost. *)
LEMMA SlainLost ==
  ASSUME NEW a, Fine(a, {}, Kind), NEW c \in Clients, NEW weapon,
         NEW r, r = KillCharacter(a, c, weapon)
  PROVE  Lost(a, c, r)
BY KillKeeps DEF Slain, Lost

(* Losses are moves. *)
LEMMA LostLegal ==
  ASSUME NEW a, Fine(a, {}, Kind), NEW c, NEW b, Lost(a, c, b)
  PROVE  Legal(a, b)
BY LosesMoves DEF Lost, Legal

(* A player disconnects. *)
LEMMA DisconnectLegal ==
  ASSUME NEW a, Fine(a, {}, Kind), NEW c \in Clients, NEW r,
         r = [SetForceCharacterTeam(KillCharacter(a, c, "game"), c, 0) EXCEPT !.tee[c] = "out"]
  PROVE  Legal(a, r)
<1> DEFINE b == KillCharacter(a, c, "game")
           d == SetForceCharacterTeam(b, c, 0)
<1>1. b = KillCharacter(a, c, "game") /\ d = SetForceCharacterTeam(b, c, 0)
      /\ r = [d EXCEPT !.tee[c] = "out"]
  OBVIOUS
<1> HIDE DEF b, d
<1>2. Lost(a, c, b)
  BY <1>1, SlainLost
<1>3. Lost(a, c, d)
  BY <1>1, <1>2, LostLeaves
<1>4. "out" \in {"dead", "corpse", "out"}
  OBVIOUS
<1>5. Lost(a, c, r)
  BY <1>1, <1>3, <1>4, LostOut
<1> QED
  BY <1>5, LostLegal

\* b comes of a by losses, and all is in order but c, who has left for team 0
Going(a, c, b) ==
  /\ Fine(b, {c}, Kind) /\ Loses(a, b) /\ Ranks(a, b) /\ c \in Clients /\ b.team[c] = 0
  /\ b.ranked = a.ranked \/ c \notin b.ranked.who

(* Whoever goes to the spectators leaves the team, alive. *)
LEMMA DeathGoing ==
  ASSUME NEW a, Fine(a, {}, Kind), NEW c \in Clients, Free(a, c),
         NEW r, r = OnCharacterDeath(a, c, "game")
  PROVE  Going(a, c, r) /\ r.tee = a.tee
<1>1. a \in Games /\ a.team[c] \in Teams
  BY DEF Fine, Games
<1>2. ~Locks(a, c, "game")
  BY DEF Locks
<1>3. ~All(a, c, "game")
  BY <1>2 DEF All
<1>4. r = Dies(a, c, "game")
  BY <1>1, <1>3, DeathCases
<1>5. Fallen(a, a, c)
  BY <1>1 DEF Fallen
<1>6. Fine(a, {c}, Kind)
  BY DEF Fine
<1>7. c \in {c} /\ {c} \in SUBSET Clients /\ Calm(a, c, {c})
  BY DEF Calm
<1>8. Leaves(a, a, c, {c}, r)
  BY <1>2, <1>4, <1>5, <1>6, <1>7, DiesLeaves
<1> QED
  BY <1>8 DEF Leaves, Going

(* Whoever is in team 0 already leaves for it once more. *)
LEMMA GoingOn ==
  ASSUME NEW a, NEW b, NEW c, Going(a, c, b), NEW r, r = SetForceCharacterTeam(b, c, 0)
  PROVE  Going(a, c, r)
<1>1. /\ Fine(b, {c}, Kind) /\ Loses(a, b) /\ Ranks(a, b) /\ c \in Clients /\ b.team[c] = 0
      /\ b.ranked = a.ranked \/ c \notin b.ranked.who
      /\ b \in Games /\ Peopled(b) /\ 0 \in Teams
  BY ClientsFacts DEF Going, Fine
<1>2. b.state[b.team[c]] # "started"
  BY <1>1 DEF Peopled
<1>3. Fine(r, {c} \cup {c}, Kind)
  BY <1>1, ForceKeeps
<1>4. Fine(r, {c}, Kind)
  BY <1>3 DEF Fine
<1>5. Loses(b, r)
  BY <1>1, <1>2, ForceLoses
<1>6. r.team[c] = 0 /\ r.tee = b.tee /\ r.ranked = b.ranked
  BY <1>1, ForceFields
<1>7. \A d \in b.ranked.who : d \in Clients /\ (b.tee[d] = "alive" => r.tee[d] = "alive")
  BY <1>1, <1>6 DEF Games
<1>8. Ranks(a, r)
  BY <1>1, <1>5, <1>6, <1>7, RanksBefore
<1>9. Loses(a, r)
  BY <1>1, <1>5, LosesMore
<1> QED
  BY <1>1, <1>4, <1>6, <1>8, <1>9 DEF Going

(* Team 0 does not finish. *)
LEMMA GoingUnfinished ==
  ASSUME NEW a, NEW b, NEW c, Going(a, c, b)
  PROVE  CheckTeamFinished(b, b.team[c]) = b
<1>1. Fine(b, {c}, Kind) /\ b.team[c] = 0 /\ Peopled(b) /\ Waiting(b, Kind) /\ 0 \in Teams
  BY ClientsFacts DEF Going, Fine
<1>2. b.state[0] # "started"
  BY <1>1 DEF Peopled
<1> QED
  BY <1>1, <1>2 DEF CheckTeamFinished, TeamFinished

(* Whoever has left for team 0 and dies there is lost. *)
LEMMA GoingDies ==
  ASSUME NEW a, NEW b, NEW c, Going(a, c, b), NEW r, r = Corpse(b, c)
  PROVE  Lost(a, c, r) /\ r.team[c] = 0
<1>1. /\ Fine(b, {c}, Kind) /\ Loses(a, b) /\ Ranks(a, b) /\ c \in Clients /\ b.team[c] = 0
      /\ b.ranked = a.ranked \/ c \notin b.ranked.who
      /\ b \in Games /\ Peopled(b) /\ 0 \in Teams
  BY ClientsFacts DEF Going, Fine
<1>2. Fallen(b, r, c) /\ r.tee[c] = "corpse"
  <2>1. r = [b EXCEPT !.tee[c] = "corpse"] /\ "corpse" \in {"dead", "corpse", "out"}
    BY DEF Corpse
  <2> QED
    BY <1>1, <2>1, TeeDies
<1>3. Fine(r, {c}, Kind)
  <2>1. c \in {c}
    OBVIOUS
  <2> QED
    BY <1>1, <1>2, <2>1, FallenKeeps
<1>4. /\ r.team = b.team /\ r.race = b.race /\ r.path = b.path /\ r.started = b.started
      /\ r.state = b.state /\ r.practice = b.practice /\ r.run = b.run
      /\ r.spoiled = b.spoiled /\ r.ranked = b.ranked
      /\ \A d \in Clients \ {c} : r.tee[d] = b.tee[d]
  BY <1>2 DEF Fallen
<1>5. FlagsOk(r, c, Kind) /\ RaceOk(r, c, Kind)
  BY <1>1, <1>2, <1>4, OutOfTeams
<1>6. Fine(r, {}, Kind)
  <2>1. \A d \in {c} \ {} : FlagsOk(r, d, Kind) /\ RaceOk(r, d, Kind)
    BY <1>5
  <2> QED
    BY <1>3, <2>1, FineLess
<1>7. Loses(b, r)
  <2>1. \A d \in Clients : r.tee[d] = "alive" => b.tee[d] = "alive"
    BY <1>2, <1>4
  <2>2. ASSUME NEW t \in Teams, b.state[t] = "started", NEW d \in Alive(b, t)
        PROVE  d \in Alive(r, t)
    <3>1. d \in Clients /\ b.team[d] = t /\ b.tee[d] = "alive"
      BY DEF Alive, Members
    <3>2. t # 0
      BY <1>1, <2>2 DEF Peopled
    <3>3. d # c
      BY <1>1, <3>1, <3>2
    <3> QED
      BY <1>4, <3>1, <3>3 DEF Alive, Members
  <2> QED
    BY <1>4, <2>1, <2>2 DEF Loses
<1>8. b.ranked.who \in SUBSET Clients
  BY <1>1 DEF Games
<1>9. Ranks(a, r)
  <2>1. CASE b.ranked = a.ranked
    BY <1>4, <2>1 DEF Ranks
  <2>2. CASE c \notin b.ranked.who
    <3>1. \A d \in b.ranked.who : d \in Clients /\ (b.tee[d] = "alive" => r.tee[d] = "alive")
      BY <1>4, <1>8, <2>2
    <3> QED
      BY <1>1, <1>4, <1>7, <3>1, RanksBefore
  <2> QED
    BY <1>1, <2>1, <2>2
<1>10. Loses(a, r)
  BY <1>1, <1>7, LosesMore
<1> QED
  BY <1>1, <1>2, <1>4, <1>6, <1>9, <1>10 DEF Lost

(* A death in team 0 loses nothing more. *)
LEMMA LostDies ==
  ASSUME NEW a, NEW b, NEW c, Lost(a, c, b), b.team[c] = 0,
         NEW r, r = OnCharacterDeath(b, c, "game")
  PROVE  Lost(a, c, r)
<1>1. /\ Fine(b, {}, Kind) /\ Loses(a, b) /\ Ranks(a, b) /\ c \in Clients /\ b.tee[c] # "alive"
      /\ b \in Games /\ Waiting(b, Kind) /\ 0 \in Teams
  BY ClientsFacts DEF Lost, Fine
<1>2. ~Locks(b, c, "game") /\ Free(b, c)
  BY <1>1 DEF Locks, Free, Waiting
<1>3. ~All(b, c, "game") /\ b.team[c] \in Teams
  BY <1>1, <1>2 DEF All
<1>4. r = Dies(b, c, "game")
  BY <1>1, <1>3, DeathCases
<1>5. Fallen(b, b, c)
  BY <1>1 DEF Fallen
<1>6. Fine(b, {c}, Kind)
  BY <1>1 DEF Fine
<1>7. c \in {c} /\ {c} \in SUBSET Clients /\ Calm(b, c, {c})
  BY <1>1 DEF Calm
<1>8. Leaves(b, b, c, {c}, r)
  BY <1>1, <1>2, <1>4, <1>5, <1>6, <1>7, DiesLeaves
<1>9. /\ Fine(r, {c}, Kind) /\ Loses(b, r) /\ r.tee = b.tee /\ r.team[c] = 0
      /\ (b.state[b.team[c]] # "started" => r.ranked = b.ranked)
  BY <1>8 DEF Leaves
<1>10. r.ranked = b.ranked
  <2>1. b.state[0] # "started"
    BY <1>1 DEF Fine, Peopled
  <2> QED
    BY <1>9, <2>1
<1>11. FlagsOk(r, c, Kind) /\ RaceOk(r, c, Kind)
  BY <1>1, <1>9, OutOfTeams
<1>12. Fine(r, {}, Kind)
  <2>1. \A d \in {c} \ {} : FlagsOk(r, d, Kind) /\ RaceOk(r, d, Kind)
    BY <1>11
  <2> QED
    BY <1>9, <2>1, FineLess
<1>13. \A d \in b.ranked.who : d \in Clients /\ (b.tee[d] = "alive" => r.tee[d] = "alive")
  BY <1>1, <1>9 DEF Games
<1>14. Ranks(a, r)
  BY <1>1, <1>9, <1>10, <1>13, RanksBefore
<1>15. Loses(a, r)
  BY <1>1, <1>9, LosesMore
<1> QED
  BY <1>1, <1>9, <1>12, <1>14, <1>15 DEF Lost

(* Whoever goes to the spectators while the team waits for the database leaves it alive, too, and
   the others may be ranked. *)
LEMMA SavedGoing ==
  ASSUME NEW a, Fine(a, {}, Kind), NEW c \in Clients, ~Free(a, c),
         NEW s, s = SetForceCharacterTeam(a, c, 0), NEW b, b = CheckTeamFinished(s, a.team[c])
  PROVE  Going(a, c, b) /\ b.tee = a.tee
<1> DEFINE t == a.team[c]
<1>1. a \in Games /\ Peopled(a) /\ t \in Teams /\ t # 0 /\ Kind[t] # "none" /\ 0 \in Teams
  BY ClientsFacts DEF Fine, Games, Free, Waiting
<1>2. Fine(s, {c}, Kind)
  <2>1. Fine(s, {} \cup {c}, Kind)
    BY <1>1, ForceKeeps
  <2> QED
    BY <2>1 DEF Fine
<1>3. Loses(a, s)
  BY <1>1, ForceLoses
<1>4. s.team[c] = 0 /\ s.tee = a.tee /\ s.ranked = a.ranked
  BY <1>1, ForceFields
<1>5. /\ Fine(b, {c}, Kind) /\ Loses(s, b) /\ Ranks(s, b) /\ b.tee = s.tee
  <2>1. {c} \in SUBSET Clients /\ \A d \in {c} : s.team[d] = t => s.state[t] # "started"
    BY <1>1, <1>4
  <2> QED
    BY <1>1, <1>2, <2>1, CheckKeeps
<1>6. b.team[c] = 0
  BY <1>4, <1>5 DEF Loses
<1>7. Loses(a, b) /\ Ranks(a, b)
  BY <1>3, <1>4, <1>5, LosesMore, RanksAfter
<1>8. b.ranked = a.ranked \/ c \notin b.ranked.who
  <2>1. CASE b.ranked = s.ranked
    BY <1>4, <2>1
  <2>2. ASSUME NEW u \in Teams \ {0}, Finishes(s, b, u) PROVE c \notin b.ranked.who
    <3>1. c \notin Alive(s, u)
      BY <1>4 DEF Alive, Members
    <3> QED
      BY <2>2, <3>1 DEF Finishes
  <2> QED
    BY <1>5, <2>1, <2>2 DEF Ranks
<1> QED
  BY <1>4, <1>5, <1>6, <1>7, <1>8 DEF Going

(* Whoever goes to the spectators, alive, has left the team after the first half of DoTeamChange. *)
LEMMA Departs ==
  ASSUME NEW a, Fine(a, {}, Kind), NEW c \in Clients,
         NEW h, h = OnCharacterDeath(a, c, "game"),
         NEW s, s = SetForceCharacterTeam(h, c, 0), NEW b, b = CheckTeamFinished(s, h.team[c])
  PROVE  Going(a, c, b) /\ b.tee = a.tee
<1>1. CASE Free(a, c)
  <2>1. Going(a, c, h) /\ h.tee = a.tee
    BY <1>1, DeathGoing
  <2>2. Going(a, c, s)
    BY <2>1, GoingOn
  <2>3. h.team[c] = 0 /\ s.team[c] = 0
    BY <2>1, <2>2 DEF Going
  <2>4. b = s
    BY <2>2, <2>3, GoingUnfinished
  <2>5. s.tee = h.tee
    <3>1. h \in Games /\ 0 \in Teams
      BY <2>1, ClientsFacts DEF Going, Fine
    <3> QED
      BY <3>1, ForceFields
  <2> QED
    BY <2>1, <2>2, <2>4, <2>5
<1>2. CASE ~Free(a, c)
  <2>1. a.team[c] \in Teams
    BY DEF Fine, Games
  <2>2. GetSaving(a.team[c])
    BY <1>2, <2>1 DEF Free, GetSaving, Kind
  <2>3. ~All(a, c, "game")
    BY <1>2 DEF All, Free
  <2>4. h = Dies(a, c, "game")
    BY <2>1, <2>3, DeathCases
  <2>5. h = a
    BY <2>2, <2>4 DEF Dies
  <2> QED
    BY <1>2, <2>5, SavedGoing
<1> QED
  BY <1>1, <1>2

(* A player goes to the spectators. *)
LEMMA SpectateLegal ==
  ASSUME NEW a, Fine(a, {}, Kind), NEW c \in Clients, NEW h, NEW b, NEW r,
         h = OnCharacterDeath(a, c, "game"),
         b = IF a.tee[c] = "alive"
               THEN CheckTeamFinished(SetForceCharacterTeam(h, c, 0), h.team[c]) ELSE a,
         r = [KillCharacter(b, c, "game") EXCEPT !.tee[c] = "out"]
  PROVE  Legal(a, r)
<1> DEFINE k == KillCharacter(b, c, "game")
<1>1. r = [k EXCEPT !.tee[c] = "out"] /\ k = KillCharacter(b, c, "game")
      /\ "out" \in {"dead", "corpse", "out"} /\ "dead" \in {"dead", "corpse", "out"}
  OBVIOUS
<1> HIDE DEF k
<1>2. CASE a.tee[c] = "alive"
  <2> DEFINE x == Corpse(b, c)
             y == OnCharacterDeath(x, c, "game")
  <2>1. Going(a, c, b) /\ b.tee = a.tee
    BY <1>2, Departs
  <2>2. k = [y EXCEPT !.tee[c] = "dead"]
    BY <1>1, <1>2, <2>1 DEF KillCharacter, Corpse
  <2>3. x = Corpse(b, c) /\ y = OnCharacterDeath(x, c, "game")
    OBVIOUS
  <2> HIDE DEF x, y
  <2>4. Lost(a, c, x) /\ x.team[c] = 0
    BY <2>1, <2>3, GoingDies
  <2>5. Lost(a, c, y)
    BY <2>3, <2>4, LostDies
  <2>6. Lost(a, c, k)
    BY <1>1, <2>2, <2>5, LostOut
  <2>7. Lost(a, c, r)
    BY <1>1, <2>6, LostOut
  <2> QED
    BY <2>7, LostLegal
<1>3. CASE a.tee[c] # "alive"
  <2>1. b = a
    BY <1>3
  <2>2. Lost(a, c, k)
    BY <1>1, <2>1, SlainLost
  <2>3. Lost(a, c, r)
    BY <1>1, <2>2, LostOut
  <2> QED
    BY <2>3, LostLegal
<1> QED
  BY <1>2, <1>3


-----------------------------------------------------------------------------
(* The inductive invariant. *)

\* r is h, where a tee that does not live has no race, and a team that does not race no run
IsKept(h, r) ==
  /\ r \in Games /\ r.team = h.team /\ r.tee = h.tee
  /\ r.started = h.started /\ r.finished = h.finished
  /\ r.state = h.state /\ r.locked = h.locked /\ r.practice = h.practice /\ r.kill = h.kill
  /\ r.ranked = h.ranked
  /\ \A c \in Clients :
       /\ h.tee[c] = "alive" => r.race[c] = h.race[c]
       /\ h.tee[c] = "alive" /\ (~h.spoiled[h.team[c]] \/ h.path[c] = "practice") =>
            r.path[c] = h.path[c]
       /\ h.tee[c] = "alive" /\ h.spoiled[h.team[c]] /\ h.path[c] # "practice" =>
            r.path[c] = "spawn"
       /\ h.tee[c] # "alive" => r.race[c] = "none" /\ r.path[c] = "spawn"
  /\ \A t \in Teams : r.spoiled[t] <=> h.spoiled[t] /\ h.state[t] # "empty"
  /\ \A t \in Teams : r.run[t] = IF h.state[t] \in Racing THEN h.run[t] ELSE 0

\* the races, paths, runs and what is spoiled are new
RunsPut(h, race, path, run, spoiled) ==
  [h EXCEPT !.race = race, !.path = path, !.run = run, !.spoiled = spoiled]

(* New races, paths, runs and spoiled teams. *)
LEMMA RunsPutFields ==
  ASSUME NEW h \in Games, NEW race \in [Clients -> {"none", "started", "finished"}],
         NEW path \in [Clients -> {"spawn", "start", "finish", "practice"}],
         NEW run \in [Teams -> 0..MaxRuns], NEW spoiled \in [Teams -> BOOLEAN],
         NEW r, r = RunsPut(h, race, path, run, spoiled)
  PROVE  /\ r \in Games /\ r.team = h.team /\ r.tee = h.tee
         /\ r.started = h.started /\ r.finished = h.finished
         /\ r.state = h.state /\ r.locked = h.locked /\ r.practice = h.practice
         /\ r.kill = h.kill /\ r.ranked = h.ranked
         /\ r.race = race /\ r.path = path /\ r.run = run /\ r.spoiled = spoiled
BY DEF Games, RunsPut

(* What Kept keeps. *)
LEMMA KeptFields ==
  ASSUME NEW h \in Games
  PROVE  IsKept(h, Kept(h))
<1> DEFINE race == [c \in Clients |-> IF h.tee[c] = "alive" THEN h.race[c] ELSE "none"]
           path == [c \in Clients |->
                      IF h.tee[c] = "alive" /\ (~h.spoiled[h.team[c]] \/ h.path[c] = "practice")
                        THEN h.path[c] ELSE "spawn"]
           spoiled == [t \in Teams |-> h.spoiled[t] /\ h.state[t] # "empty"]
           run == [t \in Teams |-> IF h.state[t] \in Racing THEN h.run[t] ELSE 0]
<1>1. /\ h.race \in [Clients -> {"none", "started", "finished"}]
      /\ h.path \in [Clients -> {"spawn", "start", "finish", "practice"}]
      /\ h.run \in [Teams -> 0..MaxRuns] /\ h.spoiled \in [Teams -> BOOLEAN]
  BY DEF Games
<1>2. /\ race \in [Clients -> {"none", "started", "finished"}]
      /\ path \in [Clients -> {"spawn", "start", "finish", "practice"}]
      /\ run \in [Teams -> 0..MaxRuns] /\ spoiled \in [Teams -> BOOLEAN]
  BY <1>1, ClientsFacts
<1>3. Kept(h) = RunsPut(h, race, path, run, spoiled)
  BY DEF Kept, RunsPut, Racing
<1>4. /\ \A c \in Clients :
           /\ h.tee[c] = "alive" => race[c] = h.race[c]
           /\ h.tee[c] = "alive" /\ (~h.spoiled[h.team[c]] \/ h.path[c] = "practice") =>
                path[c] = h.path[c]
           /\ h.tee[c] = "alive" /\ h.spoiled[h.team[c]] /\ h.path[c] # "practice" =>
                path[c] = "spawn"
           /\ h.tee[c] # "alive" => race[c] = "none" /\ path[c] = "spawn"
      /\ \A t \in Teams : spoiled[t] <=> h.spoiled[t] /\ h.state[t] # "empty"
      /\ \A t \in Teams : run[t] = IF h.state[t] \in Racing THEN h.run[t] ELSE 0
  OBVIOUS
<1> HIDE DEF race, path, run, spoiled
<1>5. /\ Kept(h) \in Games /\ Kept(h).team = h.team /\ Kept(h).tee = h.tee
      /\ Kept(h).started = h.started /\ Kept(h).finished = h.finished
      /\ Kept(h).state = h.state /\ Kept(h).locked = h.locked /\ Kept(h).practice = h.practice
      /\ Kept(h).kill = h.kill /\ Kept(h).ranked = h.ranked
      /\ Kept(h).race = race /\ Kept(h).path = path /\ Kept(h).run = run
      /\ Kept(h).spoiled = spoiled
  BY <1>2, <1>3, RunsPutFields
<1> QED
  BY <1>4, <1>5 DEF IsKept

(* All stays in order when it is kept. *)
LEMMA KeptKeeps ==
  ASSUME NEW h, NEW K, Fine(h, {}, K), NEW r, IsKept(h, r)
  PROVE  Fine(r, {}, K)
<1>1. /\ h \in Games /\ Peopled(h) /\ Waiting(h, K) /\ Even(h, K)
      /\ \A e \in Clients : FlagsOk(h, e, K) /\ RaceOk(h, e, K)
  BY DEF Fine
<1>2. /\ r \in Games /\ r.team = h.team /\ r.tee = h.tee
      /\ r.started = h.started /\ r.finished = h.finished
      /\ r.state = h.state /\ r.locked = h.locked /\ r.practice = h.practice
      /\ r.kill = h.kill /\ r.ranked = h.ranked
      /\ \A c \in Clients : h.tee[c] = "alive" =>
           /\ r.race[c] = h.race[c]
           /\ ~h.spoiled[h.team[c]] \/ h.path[c] = "practice" => r.path[c] = h.path[c]
           /\ h.spoiled[h.team[c]] /\ h.path[c] # "practice" => r.path[c] = "spawn"
      /\ \A t \in Teams : r.spoiled[t] <=> h.spoiled[t] /\ h.state[t] # "empty"
  BY DEF IsKept
<1>3. \A u : Members(r, u) = Members(h, u) /\ Alive(r, u) = Alive(h, u)
  BY <1>2 DEF Members, Alive
<1>4. Peopled(r)
  <2>1. \A u \in Teams : u = 0 => ~r.spoiled[u]
    BY <1>1, <1>2 DEF Peopled
  <2> QED
    BY <1>1, <1>2, <1>3, <2>1 DEF Peopled
<1>5. Waiting(r, K)
  BY <1>1, <1>2 DEF Waiting
<1>6. Even(r, K)
  <2>1. \A u : \A c \in Alive(h, u) : r.race[c] = h.race[c]
    BY <1>2 DEF Alive, Members
  <2>2. \A u \in Teams : r.state[u] = "started" /\ ~r.spoiled[u] => ~h.spoiled[u]
    BY <1>2
  <2> QED
    BY <1>1, <1>2, <1>3, <2>1, <2>2 DEF Even
<1>7. ASSUME NEW e \in Clients PROVE FlagsOk(r, e, K) /\ RaceOk(r, e, K)
  <2>1. FlagsOk(h, e, K) /\ RaceOk(h, e, K) /\ h.team[e] \in Teams
    BY <1>1 DEF Games
  <2>2. h.team[e] # 0 => h.state[h.team[e]] # "empty"
    BY <1>1, <2>1 DEF Peopled, Members
  <2>3. r.spoiled[h.team[e]] <=> h.spoiled[h.team[e]]
    <3>1. ~h.spoiled[0]
      BY <1>1, ClientsFacts DEF Peopled
    <3> QED
      BY <1>2, <2>1, <2>2, <3>1
  <2>4. FlagsOk(r, e, K)
    BY <1>2, <2>1, <2>3 DEF FlagsOk
  <2>5. CASE h.tee[e] = "alive" /\ (~h.spoiled[h.team[e]] \/ h.path[e] = "practice")
    <3>1. /\ r.team[e] = h.team[e] /\ r.tee[e] = h.tee[e] /\ r.race[e] = h.race[e]
          /\ r.path[e] = h.path[e]
          /\ r.started[e] = h.started[e] /\ r.finished[e] = h.finished[e]
          /\ r.state = h.state /\ r.practice = h.practice
      BY <1>2, <2>5
    <3> QED
      BY <2>1, <2>3, <3>1, TeeSame
  <2>6. CASE h.tee[e] = "alive" /\ h.spoiled[h.team[e]] /\ h.path[e] # "practice"
    <3>1. /\ r.team[e] = h.team[e] /\ r.tee[e] = h.tee[e] /\ r.race[e] = h.race[e]
          /\ r.path[e] = "spawn" /\ h.team[e] # 0 /\ r.spoiled[h.team[e]]
          /\ r.state = h.state /\ r.practice = h.practice
      <4>1. ~h.spoiled[0]
        BY <1>1, ClientsFacts DEF Peopled
      <4> QED
        BY <1>2, <2>3, <2>6, <4>1
    <3>2. RaceOk(r, e, K)
      BY <2>1, <2>6, <3>1 DEF RaceOk
    <3> QED
      BY <2>4, <3>2
  <2>7. CASE h.tee[e] # "alive"
    BY <1>2, <2>4, <2>7 DEF RaceOk
  <2> QED
    BY <2>5, <2>6, <2>7
<1> QED
  BY <1>2, <1>4, <1>5, <1>6, <1>7 DEF Fine

\* what a save says of a tee
Passages ==
  [race : {"none", "started", "finished"}, started : BOOLEAN, finished : BOOLEAN,
   path : {"spawn", "start", "finish", "practice"}]

\* the saved tees were without practice, and in the race together, if their team was not spoiled
SaveOk(s) ==
  \A c \in DOMAIN s.tees :
    /\ s.tees[c].path # "practice"
    /\ ~s.spoiled =>
         /\ s.tees[c].finished => s.tees[c].started
         /\ s.tees[c].finished => s.tees[c].path = "finish" /\ s.tees[c].race # "none"
         /\ s.tees[c].started => s.tees[c].path \in {"start", "finish"}
         /\ s.tees[c].race # "finished"
         /\ \A d \in DOMAIN s.tees : s.tees[d].race = s.tees[c].race

Records ==
  {s \in [run : 1..MaxRuns, locked : BOOLEAN, spoiled : BOOLEAN,
          tees : UNION {[S -> Passages] : S \in SUBSET Clients}] : SaveOk(s)}

\* what the database is asked for a team, and what it has answered
Answers ==
  {NoResult}
  \cup [kind : {"save"}, status : {"pending", "success", "failed"}, save : Records]
  \cup [kind : {"load"}, status : {"success"}, save : Records]
  \cup [kind : {"load"}, status : {"pending", "failed"}, who : SUBSET Clients]

\* the run that a team has in its hands, or the database for it
Held ==
  [t \in Teams |->
     IF result[t].kind = "none" THEN g.run[t]
     ELSE IF result[t].kind = "save" <=> result[t].status = "success" THEN 0
     ELSE result[t].save.run]

\* whoever does not live has no race, and exactly the teams that race have a run
Settled ==
  /\ \A c \in Clients : g.tee[c] # "alive" => g.race[c] = "none" /\ g.path[c] = "spawn"
  /\ \A t \in Teams : g.run[t] # 0 <=> g.state[t] \in Racing

\* whoever waits in a team for the database is in what it was asked
Results ==
  \A t \in Teams :
    /\ result[t].kind = "save" =>
         /\ Members(g, t) \subseteq DOMAIN result[t].save.tees
         /\ g.run[t] \in {0, result[t].save.run}
    /\ result[t].kind = "load" =>
         IF result[t].status = "success" THEN Members(g, t) \subseteq DOMAIN result[t].save.tees
         ELSE result[t].status = "pending" => Members(g, t) \subseteq result[t].who

\* each run is in one place: in the hands H of a team, in a save of S, or over, in D
OneEach(H, S, D) ==
  /\ \A t, u \in Teams : t # u /\ H[t] # 0 => H[t] # H[u]
  /\ \A s \in S : s.run \notin D /\ \A t \in Teams : H[t] # s.run
  /\ \A s, r \in S : s.run = r.run => s = r
  /\ \A t \in Teams : H[t] \notin D

\* the teams whose run is in D, as a tee left before the start, have nobody past the start
Forlorn(h, K, D) ==
  \A t \in Teams :
    h.state[t] = "started" /\ ~h.practice[t] /\ K[t] = "none" /\ ~h.spoiled[t] /\ h.run[t] \in D =>
      \A c \in Alive(h, t) : h.race[c] = "none"

\* nor have the saves of such a run
ForlornSaves(S, D) ==
  \A s \in S : s.run \in D /\ ~s.spoiled => \A c \in DOMAIN s.tees : s.tees[c].race = "none"

\* the saves that a team may still get
Saved == saves \cup {result[t].save : t \in {u \in Teams : Kind[u] # "none" /\ Held[u] # 0}}

TeamsIInv ==
  /\ result \in [Teams -> Answers] /\ saves \in SUBSET Records
  /\ done \in SUBSET (1..MaxRuns) /\ deserted \in SUBSET (1..MaxRuns)
  /\ Fine(g, {}, Kind) /\ Settled /\ Results /\ OneEach(Held, saves, done)
  /\ Forlorn(g, Kind, deserted) /\ ForlornSaves(Saved, deserted)
  /\ FairRank

(* What is in order has the types of the model. *)
LEMMA InvHolds ==
  ASSUME TeamsIInv
  PROVE  TeamsInv /\ FairRank /\ RunOnce
<1>1. /\ g \in Games /\ Peopled(g) /\ \A c \in Clients : FlagsOk(g, c, Kind)
      /\ result \in [Teams -> Answers] /\ saves \in SUBSET Records
      /\ done \in SUBSET (1..MaxRuns) /\ deserted \in SUBSET (1..MaxRuns)
      /\ Settled /\ OneEach(Held, saves, done) /\ FairRank
  BY DEF TeamsIInv, Fine
<1>2. \A s \in saves : s.run \in 1..MaxRuns
  BY <1>1 DEF Records
<1>3. \A t \in Teams : result[t].kind \in {"none", "save", "load"}
  <2>1. \A x \in Answers : x.kind \in {"none", "save", "load"}
    BY DEF Answers, NoResult
  <2> QED
    BY <1>1, <2>1
<1>4. TeamsTypeOK
  <2>1. /\ g.team \in [Clients -> Teams]
        /\ g.tee \in [Clients -> {"out", "dead", "corpse", "alive"}]
        /\ g.race \in [Clients -> {"none", "started", "finished"}]
        /\ g.started \in [Clients -> BOOLEAN] /\ g.finished \in [Clients -> BOOLEAN]
        /\ g.path \in [Clients -> {"spawn", "start", "finish", "practice"}]
        /\ g.state \in [Teams -> {"empty", "open", "started", "unfinishable", "finished"}]
        /\ g.locked \in [Teams -> BOOLEAN] /\ g.practice \in [Teams -> BOOLEAN]
        /\ g.kill \in [Teams -> BOOLEAN] /\ g.spoiled \in [Teams -> BOOLEAN]
        /\ g.run \in [Teams -> 0..MaxRuns]
    BY <1>1 DEF Games
  <2>2. done \cup deserted \cup {s.run : s \in saves} \subseteq 1..MaxRuns
    BY <1>1, <1>2
  <2> QED
    BY <1>3, <2>1, <2>2 DEF TeamsTypeOK
<1>5. TeamsAgree
  <2>1. /\ \A t \in Teams \ {0} : g.state[t] = "empty" <=> Members(g, t) = {}
        /\ \A t \in Teams : g.state[t] = "empty" => ~g.locked[t] /\ ~g.practice[t] /\ ~g.kill[t]
        /\ g.state[0] \in {"empty", "open"} /\ ~g.locked[0] /\ ~g.practice[0]
    BY <1>1, ClientsFacts DEF Peopled
  <2>2. \A c \in Clients : g.team[c] # 0 /\ ~g.spoiled[g.team[c]] =>
          /\ g.finished[c] => g.started[c]
          /\ g.state[g.team[c]] = "open" => ~g.started[c]
    BY <1>1 DEF FlagsOk
  <2> QED
    BY <2>1, <2>2 DEF TeamsAgree
<1>6. RunOnce
  <2> SUFFICES ASSUME NEW s \in saves
               PROVE  /\ s.run \notin done
                      /\ \A t \in Teams : g.run[t] = s.run /\ g.state[t] \in Racing =>
                           GetSaving(t)
    BY DEF RunOnce, Racing
  <2>1. s.run \notin done /\ \A t \in Teams : Held[t] # s.run
    BY <1>1 DEF OneEach
  <2>2. \A t \in Teams : result[t].kind = "none" => Held[t] = g.run[t]
    BY DEF Held
  <2> QED
    BY <2>1, <2>2 DEF GetSaving
<1> QED
  BY <1>1, <1>4, <1>5, <1>6 DEF TeamsInv

(* In the beginning nobody is there. *)
LEMMA TeamsInitIInv ==
  ASSUME TeamsInit
  PROVE  TeamsIInv
<1>1. /\ g = [team |-> [c \in Clients |-> 0], tee |-> [c \in Clients |-> "out"],
          race |-> [c \in Clients |-> "none"], started |-> [c \in Clients |-> FALSE],
          finished |-> [c \in Clients |-> FALSE], path |-> [c \in Clients |-> "spawn"],
          state |-> [t \in Teams |-> "empty"], locked |-> [t \in Teams |-> FALSE],
          practice |-> [t \in Teams |-> FALSE], kill |-> [t \in Teams |-> FALSE],
          run |-> [t \in Teams |-> 0], spoiled |-> [t \in Teams |-> FALSE], ranked |-> NoRank]
      /\ result = [t \in Teams |-> NoResult]
      /\ saves = {} /\ done = {} /\ deserted = {}
  BY DEF TeamsInit
<1>2. /\ \A c \in Clients : /\ g.team[c] = 0 /\ g.tee[c] = "out" /\ g.race[c] = "none"
                            /\ g.path[c] = "spawn"
      /\ \A t \in Teams : /\ g.state[t] = "empty" /\ ~g.locked[t] /\ ~g.practice[t]
                          /\ ~g.kill[t] /\ g.run[t] = 0 /\ ~g.spoiled[t]
      /\ g.ranked = NoRank
  BY <1>1
<1>3. g \in Games
  BY <1>1, ClientsFacts DEF Games, NoRank, Rank
<1>4. \A t \in Teams : result[t].kind = "none"
  BY <1>1 DEF NoResult
<1>5. \A t \in Teams : Kind[t] = "none" /\ Held[t] = 0
  BY <1>2, <1>4 DEF Kind, Held
<1>6. \A t \in Teams \ {0} : Members(g, t) = {}
  BY <1>2 DEF Members
<1>7. Fine(g, {}, Kind)
  <2>1. Peopled(g)
    BY <1>2, <1>6 DEF Peopled
  <2>2. Waiting(g, Kind)
    BY <1>5 DEF Waiting
  <2>3. Even(g, Kind)
    BY <1>2 DEF Even
  <2>4. \A c \in Clients : FlagsOk(g, c, Kind) /\ RaceOk(g, c, Kind)
    BY <1>2 DEF FlagsOk, RaceOk
  <2> QED
    BY <1>3, <2>1, <2>2, <2>3, <2>4 DEF Fine
<1>8. Settled
  BY <1>2 DEF Settled, Racing
<1>9. Results
  BY <1>4 DEF Results
<1>10. OneEach(Held, saves, done)
  BY <1>1, <1>5 DEF OneEach
<1>11. Forlorn(g, Kind, deserted) /\ ForlornSaves(Saved, deserted)
  BY <1>1 DEF Forlorn, ForlornSaves
<1>12. result \in [Teams -> Answers]
  BY <1>1 DEF Answers
<1>13. FairRank
  BY <1>1, <1>2 DEF FairRank, NoRank, Rank
<1> QED
  BY <1>1, <1>7, <1>8, <1>9, <1>10, <1>11, <1>12, <1>13 DEF TeamsIInv

-----------------------------------------------------------------------------
(* Steps that ask the database for nothing. *)

\* the teams have these runs, each its own
OwnRuns(a) ==
  /\ \A t \in Teams : a.state[t] \in Racing => a.run[t] # 0
  /\ \A t, u \in Teams : Kind[t] = "none" /\ Kind[u] = "none" /\ a.run[t] # 0 =>
       (a.run[t] = a.run[u] => t = u)

\* whoever leaves a team before the start
Leavers(a, h) ==
  {c \in Clients :
     /\ a.state[a.team[c]] = "started" /\ Kind[a.team[c]] = "none" /\ ~a.spoiled[a.team[c]]
     /\ a.tee[c] = "alive" /\ a.path[c] = "spawn" /\ h.team[c] # a.team[c]}

\* the runs of D, and of those whom somebody leaves
Deserts(a, h, D) == D \cup {a.run[a.team[c]] : c \in Leavers(a, h)}

(* When no run is touched, a run that somebody left before the start has nobody past it. *)
LEMMA ForlornKept ==
  ASSUME NEW a, a \in Games, OwnRuns(a), NEW h, Moves(a, h), NEW r, IsKept(h, r), NEW D,
         Forlorn(a, Kind, D), NEW E, E \subseteq Deserts(a, h, D)
  PROVE  Forlorn(r, Kind, E)
<1> SUFFICES ASSUME NEW t \in Teams, r.state[t] = "started", ~r.practice[t], Kind[t] = "none",
                    ~r.spoiled[t], r.run[t] \in E, NEW e \in Alive(r, t)
             PROVE  r.race[e] = "none"
  BY DEF Forlorn
<1>1. /\ h.state[t] = "started" /\ ~h.practice[t] /\ r.run[t] = a.run[t]
      /\ e \in Alive(h, t) /\ r.race[e] = h.race[e] /\ ~h.spoiled[t] /\ ~a.spoiled[t]
  <2>1. /\ r.team = h.team /\ r.tee = h.tee /\ r.state = h.state /\ r.practice = h.practice
        /\ \A c \in Clients : h.tee[c] = "alive" => r.race[c] = h.race[c]
        /\ \A u \in Teams :
             /\ h.state[u] \in Racing => r.run[u] = h.run[u]
             /\ r.spoiled[u] <=> h.spoiled[u] /\ h.state[u] # "empty"
    BY DEF IsKept
  <2>2. h.run = a.run /\ h.spoiled = a.spoiled
    BY DEF Moves
  <2>3. e \in Clients /\ h.tee[e] = "alive" /\ e \in Alive(h, t)
    BY <2>1 DEF Alive, Members
  <2> QED
    BY <2>1, <2>2, <2>3 DEF Racing
<1>2. RunKept(a, h, t)
  BY DEF Moves
<1>3. CASE \A c \in Alive(h, t) : h.race[c] = "none"
  BY <1>1, <1>3
<1>4. CASE ~\A c \in Alive(h, t) : h.race[c] = "none"
  <2>1. /\ a.state[t] = "started" /\ ~a.practice[t]
        /\ \E d \in Alive(a, t) : a.race[d] # "none"
        /\ \A c \in Alive(a, t) : a.path[c] = "spawn" => h.team[c] = t
    BY <1>1, <1>2, <1>4 DEF RunKept
  <2>2. a.run[t] \notin D
    BY <1>1, <2>1 DEF Forlorn
  <2>3. PICK c \in Leavers(a, h) : a.run[t] = a.run[a.team[c]]
    BY <1>1, <2>2 DEF Deserts
  <2>4. /\ c \in Clients /\ a.team[c] \in Teams /\ Kind[a.team[c]] = "none"
        /\ a.tee[c] = "alive" /\ a.path[c] = "spawn" /\ h.team[c] # a.team[c]
    BY DEF Leavers, Games
  <2>5. a.run[t] # 0
    BY <2>1 DEF OwnRuns, Racing
  <2>6. a.team[c] = t
    BY <2>3, <2>4, <2>5 DEF OwnRuns
  <2>7. c \in Alive(a, t)
    BY <2>4, <2>6 DEF Alive, Members
  <2> QED
    BY <2>1, <2>4, <2>6, <2>7
<1> QED
  BY <1>3, <1>4

\* the run that is ranked was fair
RanksFairly(r, E) == (\A c \in r.ranked.who : r.path[c] = "finish") /\ r.ranked.run \notin E

(* When no run is touched, whoever is ranked is ranked fairly. *)
LEMMA RanksFair ==
  ASSUME NEW a, a \in Games, OwnRuns(a), a.ranked = NoRank, ~a.spoiled[0],
         \A c \in Clients : RaceOk(a, c, Kind),
         NEW h, Moves(a, h), NEW r, IsKept(h, r),
         NEW D, Forlorn(a, Kind, D), D \subseteq 1..MaxRuns,
         NEW E, E \subseteq Deserts(a, h, D)
  PROVE  ~r.ranked.spoiled /\ ~r.ranked.saved => RanksFairly(r, E)
<1> SUFFICES ASSUME ~r.ranked.spoiled, ~r.ranked.saved PROVE RanksFairly(r, E)
  OBVIOUS
<1>1. h.spoiled = a.spoiled /\ h.run = a.run /\ ~a.spoiled[0]
  BY DEF Moves
<1>2. r.ranked = h.ranked /\ r \in Games
      /\ \A c \in Clients :
           h.tee[c] = "alive" /\ ~h.spoiled[h.team[c]] => r.path[c] = h.path[c]
  BY DEF IsKept
<1>3. r.ranked.who \in SUBSET Clients
  BY <1>2 DEF Games
<1>4. 0 \notin E
  <2>1. 0 \notin D
    OBVIOUS
  <2>2. ASSUME NEW c \in Leavers(a, h) PROVE a.run[a.team[c]] # 0
    <3>1. a.team[c] \in Teams /\ a.state[a.team[c]] \in Racing
      BY DEF Leavers, Games, Racing
    <3> QED
      BY <3>1 DEF OwnRuns
  <2> QED
    BY <2>1, <2>2 DEF Deserts
<1>5. CASE h.ranked = a.ranked
  BY <1>2, <1>4, <1>5 DEF NoRank, Rank, RanksFairly
<1>6. CASE /\ h.ranked.run = 0
           /\ \A c \in h.ranked.who :
                h.team[c] = 0 /\ h.tee[c] = "alive" /\ h.path[c] = "finish"
  BY <1>1, <1>2, <1>3, <1>4, <1>6 DEF RanksFairly
<1>7. ASSUME NEW t \in Teams \ {0}, Finishes(a, h, t) PROVE RanksFairly(r, E)
  <2>1. /\ Kind[t] = "none" /\ a.state[t] = "started" /\ ~a.practice[t]
        /\ h.ranked.run = a.run[t] /\ h.ranked.who # {}
        /\ \A c \in Alive(a, t) : a.started[c]
        /\ \A c \in h.ranked.who :
             /\ c \in Alive(a, t) /\ a.race[c] # "none"
             /\ h.tee[c] = "alive" /\ h.path[c] = "finish" /\ h.team[c] \in {t, 0}
        /\ ~a.spoiled[t]
    BY <1>2, <1>7 DEF Finishes
  <2>2. \A c \in r.ranked.who : r.path[c] = "finish"
    BY <1>1, <1>2, <1>3, <2>1
  <2>3. a.run[t] \notin D
    <3>1. \E c \in Alive(a, t) : a.race[c] # "none"
      BY <2>1
    <3> QED
      BY <2>1, <3>1 DEF Forlorn
  <2>4. ASSUME NEW c \in Leavers(a, h), a.run[a.team[c]] = a.run[t] PROVE FALSE
    <3>1. /\ c \in Clients /\ a.team[c] \in Teams /\ Kind[a.team[c]] = "none"
          /\ a.tee[c] = "alive" /\ a.path[c] = "spawn"
      BY DEF Leavers, Games
    <3>2. a.team[c] = t
      BY <2>1, <2>4, <3>1 DEF OwnRuns, Racing
    <3>3. a.started[c]
      BY <2>1, <3>1, <3>2 DEF Alive, Members
    <3>4. RaceOk(a, c, Kind)
      BY <3>1
    <3> QED
      BY <2>1, <3>1, <3>2, <3>3, <3>4 DEF RaceOk
  <2>5. a.run[t] \notin E
    BY <2>3, <2>4 DEF Deserts
  <2> QED
    BY <1>2, <2>1, <2>2, <2>5 DEF RanksFairly
<1> QED
  BY <1>5, <1>6, <1>7 DEF Moves, Ranks

\* what becomes of the runs that the teams have in their hands, when k is ranked
Passes(H, G, k) ==
  /\ \A t \in Teams : G[t] \in {0, H[t]}
  /\ k # 0 => \E t \in Teams : k = H[t] /\ G[t] = 0

(* A run that is ranked is in no hands any more. *)
LEMMA OneEachKept ==
  ASSUME NEW H, NEW S, NEW D, OneEach(H, S, D), 0 \notin D, \A s \in S : s.run # 0,
         NEW G, NEW k, Passes(H, G, k), NEW E, E \subseteq D \cup ({k} \ {0})
  PROVE  OneEach(G, S, E)
<1>1. /\ \A t, u \in Teams : t # u /\ H[t] # 0 => H[t] # H[u]
      /\ \A s \in S : s.run \notin D /\ \A t \in Teams : H[t] # s.run
      /\ \A s, r \in S : s.run = r.run => s = r
      /\ \A t \in Teams : H[t] \notin D
  BY DEF OneEach
<1>2. \A t \in Teams : G[t] \in {0, H[t]}
  BY DEF Passes
<1>3. \A t, u \in Teams : t # u /\ G[t] # 0 => G[t] # G[u]
  BY <1>1, <1>2
<1>4. \A s \in S : s.run \notin E /\ \A t \in Teams : G[t] # s.run
  <2> SUFFICES ASSUME NEW s \in S PROVE s.run \notin E /\ \A t \in Teams : G[t] # s.run
    OBVIOUS
  <2>1. \A t \in Teams : G[t] # s.run
    BY <1>1, <1>2
  <2>2. k # 0 => k # s.run
    BY <1>1 DEF Passes
  <2> QED
    BY <1>1, <2>1, <2>2
<1>5. ASSUME NEW t \in Teams PROVE G[t] \notin E
  <2>1. G[t] \notin D
    BY <1>1, <1>2
  <2>2. k # 0 => k # G[t]
    <3> SUFFICES ASSUME k # 0, k = G[t] PROVE FALSE
      OBVIOUS
    <3>1. PICK u \in Teams : k = H[u] /\ G[u] = 0
      BY DEF Passes
    <3>2. H[t] = H[u]
      BY <1>2, <3>1
    <3>3. t = u
      BY <1>1, <3>1, <3>2
    <3> QED
      BY <3>1, <3>3
  <2> QED
    BY <2>1, <2>2
<1> QED
  BY <1>1, <1>3, <1>4, <1>5 DEF OneEach

\* a is the tees and teams before a step
IsNow(a) ==
  /\ a \in Games /\ Fine(a, {}, Kind) /\ OwnRuns(a) /\ Forlorn(a, Kind, deserted)
  /\ a.team = g.team /\ a.tee = g.tee /\ a.race = g.race /\ a.path = g.path
  /\ a.started = g.started /\ a.finished = g.finished /\ a.state = g.state
  /\ a.locked = g.locked /\ a.practice = g.practice /\ a.kill = g.kill /\ a.run = g.run
  /\ a.spoiled = g.spoiled
  /\ a.ranked = NoRank

(* What holds before a step. *)
LEMMA Now0Same ==
  ASSUME TeamsIInv
  PROVE  IsNow(Now0)
<1>1. /\ g \in Games /\ Fine(g, {}, Kind) /\ Settled /\ OneEach(Held, saves, done)
      /\ Forlorn(g, Kind, deserted)
  BY DEF TeamsIInv, Fine
<1>2. NoRank \in [who : SUBSET Clients, run : 0..MaxRuns, spoiled : BOOLEAN, saved : BOOLEAN]
  BY ClientsFacts DEF NoRank, Rank
<1>3. Now0 = [g EXCEPT !.ranked = NoRank]
  BY DEF Now0
<1>4. /\ Now0 \in Games /\ Now0.ranked = NoRank
      /\ Now0.team = g.team /\ Now0.tee = g.tee /\ Now0.race = g.race /\ Now0.path = g.path
      /\ Now0.started = g.started /\ Now0.finished = g.finished /\ Now0.state = g.state
      /\ Now0.locked = g.locked /\ Now0.practice = g.practice /\ Now0.kill = g.kill
      /\ Now0.run = g.run /\ Now0.spoiled = g.spoiled
      /\ \A D, K : Fine(g, D, K) => Fine(Now0, D, K)
  BY <1>1, <1>2, <1>3, RankedSame
<1>5. \A t : Alive(Now0, t) = Alive(g, t)
  BY <1>4 DEF Alive, Members
<1>6. Forlorn(Now0, Kind, deserted)
  BY <1>1, <1>4, <1>5 DEF Forlorn
<1>7. \A t \in Teams : Kind[t] = "none" => Held[t] = g.run[t]
  BY DEF Kind, Held
<1>8. OwnRuns(g)
  BY <1>1, <1>7 DEF OwnRuns, OneEach, Settled
<1>9. OwnRuns(Now0)
  BY <1>4, <1>8 DEF OwnRuns
<1> QED
  BY <1>1, <1>4, <1>6, <1>9 DEF IsNow

(* What a step does to the history when no run is touched. *)
LEMMA BecomesHistory ==
  ASSUME TeamsIInv, NEW h, h.run = g.run /\ h.spoiled = g.spoiled, Becomes(h)
  PROVE  /\ g' = Kept(h)
         /\ done' \subseteq done \cup (IF h.ranked.saved THEN {} ELSE {h.ranked.run} \ {0})
         /\ deserted' \subseteq Deserts(Now0, h, deserted)
<1>1. /\ g' = Kept(h)
      /\ done' = (done \ (IF h.run # g.run THEN NewRuns ELSE {}))
                   \cup (IF h.ranked.saved THEN {} ELSE {h.ranked.run} \ {0})
      /\ deserted' = (deserted \ (IF h.run # g.run THEN NewRuns ELSE {})) \cup
           {g.run[g.team[c]] : c \in {c \in Clients :
              /\ g.state[g.team[c]] = "started" /\ ~GetSaving(g.team[c]) /\ g.tee[c] = "alive"
              /\ ~g.spoiled[g.team[c]]
              /\ g.path[c] = "spawn" /\ h.team[c] # g.team[c]}}
  BY DEF Becomes
<1>2. IsNow(Now0)
  BY Now0Same
<1>3. /\ Now0.team = g.team /\ Now0.tee = g.tee /\ Now0.path = g.path
      /\ Now0.state = g.state /\ Now0.run = g.run /\ Now0.spoiled = g.spoiled
      /\ \A c \in Clients : g.team[c] \in Teams
  BY <1>2 DEF IsNow, Games
<1>4. \A c \in Clients : ~GetSaving(g.team[c]) <=> Kind[g.team[c]] = "none"
  BY <1>3 DEF GetSaving, Kind
<1>5. {c \in Clients :
         /\ g.state[g.team[c]] = "started" /\ ~GetSaving(g.team[c]) /\ g.tee[c] = "alive"
         /\ ~g.spoiled[g.team[c]]
         /\ g.path[c] = "spawn" /\ h.team[c] # g.team[c]} = Leavers(Now0, h)
  BY <1>3, <1>4 DEF Leavers
<1>6. deserted' = deserted \cup {g.run[g.team[c]] : c \in Leavers(Now0, h)}
  BY <1>1, <1>5
<1>7. deserted' = Deserts(Now0, h, deserted)
  BY <1>3, <1>6 DEF Deserts
<1> QED
  BY <1>1, <1>7

(* Steps that ask the database for nothing, and touch no run. *)
LEMMA OnlyStep ==
  ASSUME TeamsIInv, NEW h, Legal(Now0, h), Only(h)
  PROVE  TeamsIInv'
<1> DEFINE k == IF h.ranked.saved THEN 0 ELSE h.ranked.run
<1>1. /\ result \in [Teams -> Answers] /\ saves \in SUBSET Records
      /\ done \in SUBSET (1..MaxRuns) /\ deserted \in SUBSET (1..MaxRuns)
      /\ Settled /\ Results /\ OneEach(Held, saves, done)
      /\ ForlornSaves(Saved, deserted)
  BY DEF TeamsIInv
<1>2. result' = result /\ saves' = saves /\ Becomes(h)
  BY DEF Only
<1>3. Kind' = Kind
  BY <1>2 DEF Kind
<1>4. IsNow(Now0)
  BY Now0Same
<1>5. /\ Now0 \in Games /\ OwnRuns(Now0) /\ Now0.ranked = NoRank
      /\ \A c \in Clients : RaceOk(Now0, c, Kind)
      /\ Forlorn(Now0, Kind, deserted)
      /\ Now0.run = g.run
      /\ Now0.spoiled = g.spoiled /\ Now0.state = g.state /\ Now0.team = g.team
      /\ ~Now0.spoiled[0]
  BY <1>4, ClientsFacts DEF IsNow, Fine, Peopled
<1>6. Moves(Now0, h) /\ Fine(h, {}, Kind) /\ h \in Games
  BY DEF Legal, Fine
<1>7. h.run = g.run /\ h.spoiled = g.spoiled
  BY <1>5, <1>6 DEF Moves
<1>8. /\ g' = Kept(h)
      /\ done' \subseteq done \cup ({k} \ {0})
      /\ deserted' \subseteq Deserts(Now0, h, deserted)
  BY <1>2, <1>7, BecomesHistory
<1> HIDE DEF k
<1>9. IsKept(h, g')
  BY <1>6, <1>8, KeptFields
<1>10. Fine(g', {}, Kind)
  BY <1>6, <1>9, KeptKeeps
<1>11. Forlorn(g', Kind, deserted')
  BY <1>5, <1>6, <1>8, <1>9, ForlornKept
<1>12. ~g'.ranked.spoiled /\ ~g'.ranked.saved => RanksFairly(g', deserted')
  BY <1>1, <1>5, <1>6, <1>8, <1>9, RanksFair
<1>13. FairRank'
  BY <1>12 DEF FairRank, RanksFairly
<1>14. \A t \in Teams : g'.run[t] \in {0, g.run[t]}
  BY <1>7, <1>9 DEF IsKept
<1>15. \A t \in Teams : Kind[t] # "none" => Members(g', t) \subseteq Members(g, t)
  <2>1. \A t \in Teams : Kind[t] # "none" => Members(h, t) \subseteq Members(Now0, t)
    BY <1>6 DEF Moves
  <2>2. \A t : Members(h, t) = Members(g', t) /\ Members(Now0, t) = Members(g, t)
    BY <1>5, <1>9 DEF IsKept, Members
  <2> QED
    BY <2>1, <2>2
<1>16. Settled'
  <2>1. \A c \in Clients : g'.tee[c] # "alive" => g'.race[c] = "none" /\ g'.path[c] = "spawn"
    BY <1>9 DEF IsKept
  <2>2. ASSUME NEW t \in Teams PROVE g'.run[t] # 0 <=> g'.state[t] \in Racing
    <3>1. g'.run[t] = (IF h.state[t] \in Racing THEN g.run[t] ELSE 0) /\ g'.state = h.state
      BY <1>7, <1>9 DEF IsKept
    <3>2. h.state[t] \in Racing => g.run[t] # 0
      BY <1>1, <1>5, <1>6 DEF Moves, Settled
    <3> QED
      BY <3>1, <3>2
  <2> QED
    BY <2>1, <2>2 DEF Settled
<1>17. Results'
  BY <1>1, <1>2, <1>14, <1>15 DEF Results, Kind
<1>18. \A t \in Teams : Held'[t] = IF Kind[t] = "none" THEN g'.run[t] ELSE Held[t]
  BY <1>2 DEF Held, Kind
<1>19. \A t \in Teams : Kind[t] = "none" => Held[t] = g.run[t]
  BY DEF Kind, Held
<1>20. Passes(Held, Held', k)
  <2>1. \A t \in Teams : Held'[t] \in {0, Held[t]}
    BY <1>14, <1>18, <1>19
  <2>2. ASSUME k # 0 PROVE \E t \in Teams : k = Held[t] /\ Held'[t] = 0
    <3>0. k = h.ranked.run /\ ~h.ranked.saved
      BY <2>2 DEF k
    <3>1. Ranks(Now0, h) /\ h.ranked # Now0.ranked
      BY <1>5, <1>6, <2>2, <3>0 DEF Moves, NoRank, Rank
    <3>2. PICK t \in Teams \ {0} : Finishes(Now0, h, t)
      BY <3>1 DEF Ranks
    <3>3. Kind[t] = "none" /\ h.state[t] \notin Racing /\ h.ranked.run = g.run[t]
      BY <1>5, <3>0, <3>2 DEF Finishes
    <3>4. g'.run[t] = 0
      BY <1>9, <3>3 DEF IsKept
    <3> QED
      BY <1>18, <1>19, <3>0, <3>3, <3>4
  <2> QED
    BY <2>1, <2>2 DEF Passes
<1>21. OneEach(Held', saves', done')
  <2>1. 0 \notin done /\ \A s \in saves : s.run # 0
    BY <1>1 DEF Records
  <2> QED
    BY <1>1, <1>2, <1>8, <1>20, <2>1, OneEachKept
<1>22. Saved' \subseteq Saved
  BY <1>2, <1>3, <1>18 DEF Saved
<1>23. ForlornSaves(Saved', deserted')
  <2> SUFFICES ASSUME NEW s \in Saved, s.run \in deserted', ~s.spoiled
               PROVE  \A c \in DOMAIN s.tees : s.tees[c].race = "none"
    BY <1>22 DEF ForlornSaves
  <2>1. CASE s.run \in deserted
    BY <1>1, <2>1 DEF ForlornSaves
  <2>2. CASE s.run \notin deserted
    <3>1. PICK c \in Leavers(Now0, h) : s.run = g.run[g.team[c]]
      BY <1>5, <1>8, <2>2 DEF Deserts
    <3>2. g.team[c] \in Teams /\ Kind[g.team[c]] = "none" /\ g.state[g.team[c]] \in Racing
      BY <1>5 DEF Leavers, Games, Racing
    <3>3. s.run = Held[g.team[c]] /\ Held[g.team[c]] # 0
      BY <1>1, <1>19, <3>1, <3>2 DEF Settled
    <3>4. s \notin saves
      BY <1>1, <3>2, <3>3 DEF OneEach
    <3>5. PICK t \in Teams : Kind[t] # "none" /\ Held[t] # 0 /\ s = result[t].save
      BY <3>4 DEF Saved
    <3>6. Held[t] = s.run
      BY <3>5 DEF Held, Kind
    <3> QED
      BY <1>1, <3>2, <3>3, <3>5, <3>6 DEF OneEach
  <2> QED
    BY <2>1, <2>2
<1>24. done' \in SUBSET (1..MaxRuns) /\ deserted' \in SUBSET (1..MaxRuns)
  <2>1. k \in 0..MaxRuns
    BY <1>6, ClientsFacts DEF Games, k
  <2>2. \A c \in Leavers(Now0, h) : Now0.run[Now0.team[c]] \in 1..MaxRuns
    <3> SUFFICES ASSUME NEW c \in Leavers(Now0, h)
                 PROVE  Now0.run[Now0.team[c]] \in 1..MaxRuns
      OBVIOUS
    <3>1. Now0.team[c] \in Teams /\ Now0.state[Now0.team[c]] \in Racing
      BY <1>5 DEF Leavers, Games, Racing
    <3>2. Now0.run[Now0.team[c]] \in 0..MaxRuns /\ Now0.run[Now0.team[c]] # 0
      BY <1>5, <3>1 DEF Games, OwnRuns
    <3> QED
      BY <3>2, ClientsFacts
  <2> QED
    BY <1>1, <1>8, <2>1, <2>2, ClientsFacts DEF Deserts
<1> QED
  BY <1>1, <1>2, <1>3, <1>10, <1>11, <1>13, <1>16, <1>17, <1>21, <1>23, <1>24 DEF TeamsIInv

(* OnClientEnter: the tee had no race before. *)
LEMMA EnterStep ==
  ASSUME TeamsIInv, NEW c \in Clients, Enter(c)
  PROVE  TeamsIInv'
<1>1. g.tee[c] = "out"
  BY DEF Enter
<1>2. PICK h : h = [Now0 EXCEPT !.tee[c] = "dead", !.path[c] = "spawn"] /\ Only(h)
  BY DEF Enter, Only, Becomes
<1>3. IsNow(Now0)
  BY Now0Same
<1>4. Now0 \in Games /\ Fine(Now0, {}, Kind) /\ Now0.tee[c] = "out" /\ Now0.path[c] = "spawn"
  BY <1>1, <1>3 DEF IsNow, TeamsIInv, Settled
<1>5. h = [Now0 EXCEPT !.tee[c] = "dead"]
  <2>1. [Now0.path EXCEPT ![c] = "spawn"] = Now0.path
    BY <1>4 DEF Games
  <2> QED
    BY <1>2, <1>4, <2>1 DEF Games
<1>6. Now0.tee[c] # "alive" /\ "dead" \in {"dead", "corpse", "out"}
  BY <1>4
<1>7. Legal(Now0, h)
  BY <1>4, <1>5, <1>6, DeadLegal
<1> QED
  BY <1>2, <1>7, OnlyStep

(* CPlayer::Tick deletes a dead character. *)
LEMMA CleanStep ==
  ASSUME TeamsIInv, NEW c \in Clients, Clean(c)
  PROVE  TeamsIInv'
<1>1. PICK h : h = [Now0 EXCEPT !.tee[c] = "dead"] /\ Only(h)
  BY DEF Clean, Only, Becomes
<1>2. Fine(Now0, {}, Kind) /\ Now0.tee[c] # "alive" /\ "dead" \in {"dead", "corpse", "out"}
  BY Now0Same DEF IsNow, Clean
<1>3. Legal(Now0, h)
  BY <1>1, <1>2, DeadLegal
<1> QED
  BY <1>1, <1>3, OnlyStep

(* TryRespawn. *)
LEMMA TryRespawnStep ==
  ASSUME TeamsIInv, NEW c \in Clients, TryRespawn(c)
  PROVE  TeamsIInv'
<1>1. PICK h : h = OnCharacterSpawn(Now0, c) /\ Only(h)
  BY DEF TryRespawn, Only, Becomes
<1>2. Fine(Now0, {}, Kind) /\ Now0.tee[c] = "dead"
  BY Now0Same DEF IsNow, TryRespawn
<1>3. Legal(Now0, h)
  BY <1>1, <1>2, SpawnKeeps
<1> QED
  BY <1>1, <1>3, OnlyStep

(* A tee at the finish. *)
LEMMA TouchFinishStep ==
  ASSUME TeamsIInv, NEW c \in Clients, TouchFinish(c)
  PROVE  TeamsIInv'
<1>1. PICK h : /\ h = OnCharacterFinish(
                    [Now0 EXCEPT !.path[c] = IF @ = "start" THEN "finish" ELSE @], c)
               /\ Only(h)
  BY DEF TouchFinish, Only, Becomes
<1>2. Fine(Now0, {}, Kind) /\ Arrives(Now0, c)
  BY Now0Same DEF IsNow, TouchFinish, Arrives
<1>3. Legal(Now0, h)
  BY <1>1, <1>2, FinishKeeps
<1> QED
  BY <1>1, <1>3, OnlyStep

(* The world kills a tee. *)
LEMMA FallOffStep ==
  ASSUME TeamsIInv, NEW c \in Clients, FallOff(c)
  PROVE  TeamsIInv'
<1>1. PICK h : h = OnCharacterDeath(Corpse(Now0, c), c, "world") /\ Only(h)
  BY DEF FallOff, Only, Becomes, Corpse
<1>2. Fine(Now0, {}, Kind)
  BY Now0Same DEF IsNow
<1>3. Legal(Now0, h)
  BY <1>1, <1>2, FallLegal
<1> QED
  BY <1>1, <1>3, OnlyStep

(* OnKillNetMessage. *)
LEMMA SelfKillStep ==
  ASSUME TeamsIInv, NEW c \in Clients, SelfKill(c)
  PROVE  TeamsIInv'
<1>1. PICK h : h = KillCharacter(Now0, c, "self") /\ Only(h)
  BY DEF SelfKill, Only, Becomes
<1>2. Fine(Now0, {}, Kind)
  BY Now0Same DEF IsNow
<1>3. Legal(Now0, h)
  BY <1>1, <1>2, KillLegal
<1> QED
  BY <1>1, <1>3, OnlyStep

(* OnPlayerDisconnect. *)
LEMMA DisconnectStep ==
  ASSUME TeamsIInv, NEW c \in Clients, Disconnect(c)
  PROVE  TeamsIInv'
<1>1. PICK h : /\ h = [SetForceCharacterTeam(KillCharacter(Now0, c, "game"), c, 0)
                        EXCEPT !.tee[c] = "out"]
               /\ Only(h)
  BY DEF Disconnect, Only, Becomes
<1>2. Fine(Now0, {}, Kind)
  BY Now0Same DEF IsNow
<1>3. Legal(Now0, h)
  BY <1>1, <1>2, DisconnectLegal
<1> QED
  BY <1>1, <1>3, OnlyStep

(* DoTeamChange: whoever goes to the spectators leaves the team, and may let the others finish. *)
LEMMA SpectateStep ==
  ASSUME TeamsIInv, NEW c \in Clients, Spectate(c)
  PROVE  TeamsIInv'
<1>1. PICK h : h = OnCharacterDeath(Now0, c, "game")
  OBVIOUS
<1>2. PICK b : b = IF g.tee[c] = "alive"
                     THEN CheckTeamFinished(SetForceCharacterTeam(h, c, 0), h.team[c]) ELSE Now0
  OBVIOUS
<1>3. PICK r : r = [KillCharacter(b, c, "game") EXCEPT !.tee[c] = "out"] /\ Only(r)
  BY <1>1, <1>2 DEF Spectate, Only, Becomes
<1>4. Fine(Now0, {}, Kind) /\ Now0.tee = g.tee /\ Now0.team = g.team /\ g.team[c] \in Teams
  BY Now0Same DEF IsNow, Games
<1>5. Legal(Now0, r)
  BY <1>1, <1>2, <1>3, <1>4, SpectateLegal
<1> QED
  BY <1>3, <1>5, OnlyStep

(* AttemptJoinTeam. *)
LEMMA JoinStep ==
  ASSUME TeamsIInv, NEW c \in Clients, NEW t \in Teams, Join(c, t)
  PROVE  TeamsIInv'
<1>1. PICK h : /\ h = [SetForceCharacterTeam(Now0, c, t) EXCEPT
                        !.path[c] = IF Now0.practice[t] THEN "practice" ELSE "spawn"]
               /\ Only(h)
  <2>1. Now0.practice = g.practice
    BY Now0Same DEF IsNow
  <2> QED
    BY <2>1 DEF Join, Only, Becomes
<1>2. IsNow(Now0)
  BY Now0Same
<1>3. /\ Fine(Now0, {}, Kind) /\ Now0.tee = g.tee /\ Now0.team = g.team
      /\ Now0.state = g.state /\ Now0.race = g.race /\ Now0.practice = g.practice
      /\ g.team[c] \in Teams
  BY <1>2 DEF IsNow, Games
<1>4. CanJoinTeam(g, c, t)
  BY DEF Join
<1>5. Joins(Now0, c, t)
  BY <1>3, <1>4 DEF CanJoinTeam, Joins, GetSaving, Kind
<1>6. Legal(Now0, h)
  BY <1>1, <1>3, <1>5, JoinKeeps
<1> QED
  BY <1>1, <1>6, OnlyStep

(* ConSwap. *)
LEMMA SwapStep ==
  ASSUME TeamsIInv, NEW c \in Clients, NEW d \in Clients, Swap(c, d)
  PROVE  TeamsIInv'
<1>1. PICK h : h = SwappedTees(Now0, c, d) /\ Only(h)
  BY DEF Swap, Only, Becomes, SwappedTees
<1>2. Fine(Now0, {}, Kind) /\ Now0.tee = g.tee /\ Now0.team = g.team
  BY Now0Same DEF IsNow
<1>3. c # d /\ g.team[c] = g.team[d] /\ {g.tee[c], g.tee[d]} = {"alive"}
  BY DEF Swap
<1>4. Swaps(Now0, c, d)
  BY <1>2, <1>3 DEF Swaps
<1>5. Legal(Now0, h)
  BY <1>1, <1>2, <1>4, SwapKeeps
<1> QED
  BY <1>1, <1>5, OnlyStep

(* ConLock and ConUnlock. *)
LEMMA LockStep ==
  ASSUME TeamsIInv, NEW t \in Teams \ {0}, NEW lock \in BOOLEAN, Lock(t, lock)
  PROVE  TeamsIInv'
<1>1. PICK h : h = Locked(Now0, t, lock) /\ Only(h)
  BY DEF Lock, Only, Becomes, Locked
<1>2. Fine(Now0, {}, Kind) /\ Now0.team = g.team
  BY Now0Same DEF IsNow
<1>3. Members(Now0, t) # {}
  BY <1>2 DEF Lock, Members
<1>4. Legal(Now0, h)
  BY <1>1, <1>2, <1>3, LockLegal
<1> QED
  BY <1>1, <1>4, OnlyStep

(* ConPractice. *)
LEMMA PracticeStep ==
  ASSUME TeamsIInv, NEW t \in Teams \ {0}, Practice(t)
  PROVE  TeamsIInv'
<1>1. PICK cs : cs = Alive(g, t)
  OBVIOUS
<1>2. PICK h : h = Practiced(Now0, t, cs) /\ Only(h)
  <2>1. Only([Now0 EXCEPT !.practice[t] = TRUE,
               !.path = [c \in Clients |-> IF c \in Alive(g, t) THEN "practice" ELSE @[c]]])
    BY DEF Practice
  <2>2. Only(Practiced(Now0, t, cs))
    BY <1>1, <2>1 DEF Practiced
  <2> HIDE DEF Practiced
  <2> QED
    BY <2>2
<1>3. Fine(Now0, {}, Kind) /\ Now0.tee = g.tee /\ Now0.team = g.team
  BY Now0Same DEF IsNow
<1>4. Members(Now0, t) = Members(g, t) /\ Alive(Now0, t) = Alive(g, t)
  BY <1>3 DEF Members, Alive
<1>5. Members(g, t) # {} /\ Kind[t] = "none"
  BY DEF Practice, GetSaving, Kind
<1>6. Practices(Now0, t, cs)
  BY <1>1, <1>4, <1>5 DEF Practices
<1>7. Legal(Now0, h)
  BY <1>2, <1>3, <1>6, PracticeKeeps
<1> QED
  BY <1>2, <1>7, OnlyStep

(* ConUnPractice. *)
LEMMA UnPracticeStep ==
  ASSUME TeamsIInv, NEW t \in Teams \ {0}, UnPractice(t)
  PROVE  TeamsIInv'
<1>1. PICK b : b = KillTeam(Now0, t)
  OBVIOUS
<1>2. PICK h : h = Unpracticed(b, t) /\ Only(h)
  BY <1>1 DEF UnPractice, Only, Becomes, Unpracticed
<1>3. Fine(Now0, {}, Kind) /\ Now0.practice = g.practice
  BY Now0Same DEF IsNow
<1>4. Idle(Now0, t)
  BY <1>3 DEF UnPractice, Idle
<1>5. TeamSlain(Now0, t, b)
  BY <1>1, <1>3, <1>4, KillTeamKeeps
<1>6. Legal(Now0, h)
  BY <1>2, <1>3, <1>5, UnpracticeKeeps
<1> QED
  BY <1>2, <1>6, OnlyStep

(* CGameTeams::Tick. *)
LEMMA UnfinishableTickStep ==
  ASSUME TeamsIInv, NEW t \in Teams \ {0}, UnfinishableTick(t)
  PROVE  TeamsIInv'
<1>1. PICK h : h = (IF g.practice[t] THEN Spared(Now0, t) ELSE KillTeam(Now0, t)) /\ Only(h)
  BY DEF UnfinishableTick, Only, Becomes, Spared
<1>2. Fine(Now0, {}, Kind) /\ Now0.state = g.state
  BY Now0Same DEF IsNow
<1>3. Idle(Now0, t)
  BY <1>2 DEF UnfinishableTick, Idle
<1>4. CASE g.practice[t]
  <2>1. h = Spared(Now0, t) /\ t \in Teams
    BY <1>1, <1>4
  <2>2. Legal(Now0, h)
    BY <1>2, <2>1, SparedLegal
  <2> QED
    BY <1>1, <2>2, OnlyStep
<1>5. CASE ~g.practice[t]
  <2>1. h = KillTeam(Now0, t)
    BY <1>1, <1>5
  <2>2. Legal(Now0, h)
    BY <1>2, <1>3, <2>1, KillTeamLegal
  <2> QED
    BY <1>1, <2>2, OnlyStep
<1> QED
  BY <1>4, <1>5

-----------------------------------------------------------------------------
(* A run begins. *)

\* the team t begins the run k, with new races and paths
RunPut(h, t, k, race, path) ==
  [h EXCEPT !.state[t] = "started", !.kill[t] = FALSE, !.run[t] = k, !.race = race, !.path = path]

(* A team begins a run, with new races and paths. *)
LEMMA RunPutFields ==
  ASSUME NEW h \in Games, NEW t \in Teams, NEW k \in 0..MaxRuns,
         NEW race \in [Clients -> {"none", "started", "finished"}],
         NEW path \in [Clients -> {"spawn", "start", "finish", "practice"}],
         NEW r, r = RunPut(h, t, k, race, path)
  PROVE  /\ r \in Games /\ r.team = h.team /\ r.tee = h.tee
         /\ r.started = h.started /\ r.finished = h.finished
         /\ r.locked = h.locked /\ r.practice = h.practice /\ r.ranked = h.ranked
         /\ r.spoiled = h.spoiled
         /\ r.state = [h.state EXCEPT ![t] = "started"]
         /\ r.kill = [h.kill EXCEPT ![t] = FALSE]
         /\ r.run = [h.run EXCEPT ![t] = k]
         /\ r.race = race /\ r.path = path
BY DEF Games, RunPut

\* the team t begins the run k with the tees cs
Begun(h, t, k, cs) ==
  [h EXCEPT !.state[t] = "started", !.kill[t] = FALSE, !.run[t] = k,
            !.race = [d \in Clients |-> IF d \in cs THEN "started" ELSE @[d]],
            !.path = [d \in Clients |->
                        IF d \in cs /\ @[d] # "practice" THEN "spawn" ELSE @[d]]]

\* r is h, where the team t has begun the run k with the tees cs
HasBegun(h, t, k, cs, r) ==
  /\ r \in Games /\ r.team = h.team /\ r.tee = h.tee
  /\ r.started = h.started /\ r.finished = h.finished
  /\ r.locked = h.locked /\ r.practice = h.practice /\ r.spoiled = h.spoiled
  /\ r.ranked = h.ranked
  /\ r.state[t] = "started" /\ ~r.kill[t] /\ r.run[t] = k
  /\ \A u \in Teams \ {t} :
       r.state[u] = h.state[u] /\ r.kill[u] = h.kill[u] /\ r.run[u] = h.run[u]
  /\ \A d \in Clients :
       /\ d \in cs => r.race[d] = "started"
       /\ d \in cs => r.path[d] = IF h.path[d] = "practice" THEN "practice" ELSE "spawn"
       /\ d \notin cs => r.race[d] = h.race[d] /\ r.path[d] = h.path[d]

(* A team begins a run. *)
LEMMA BegunFields ==
  ASSUME NEW h \in Games, NEW t \in Teams, NEW k \in 0..MaxRuns, NEW cs,
         NEW r, r = Begun(h, t, k, cs)
  PROVE  HasBegun(h, t, k, cs, r)
<1> DEFINE race == [d \in Clients |-> IF d \in cs THEN "started" ELSE h.race[d]]
           path == [d \in Clients |->
                      IF d \in cs /\ h.path[d] # "practice" THEN "spawn" ELSE h.path[d]]
<1>1. /\ h.race \in [Clients -> {"none", "started", "finished"}]
      /\ h.path \in [Clients -> {"spawn", "start", "finish", "practice"}]
      /\ h.state \in [Teams -> {"empty", "open", "started", "unfinishable", "finished"}]
      /\ h.kill \in [Teams -> BOOLEAN] /\ h.run \in [Teams -> 0..MaxRuns]
  BY DEF Games
<1>2. /\ race \in [Clients -> {"none", "started", "finished"}]
      /\ path \in [Clients -> {"spawn", "start", "finish", "practice"}]
  BY <1>1
<1>3. r = RunPut(h, t, k, race, path)
  BY DEF Begun, RunPut
<1>4. \A d \in Clients :
        /\ d \in cs => race[d] = "started"
        /\ d \in cs => path[d] = IF h.path[d] = "practice" THEN "practice" ELSE "spawn"
        /\ d \notin cs => race[d] = h.race[d] /\ path[d] = h.path[d]
  OBVIOUS
<1> HIDE DEF race, path
<1>5. /\ r \in Games /\ r.team = h.team /\ r.tee = h.tee
      /\ r.started = h.started /\ r.finished = h.finished
      /\ r.locked = h.locked /\ r.practice = h.practice /\ r.spoiled = h.spoiled
      /\ r.ranked = h.ranked
      /\ r.state = [h.state EXCEPT ![t] = "started"]
      /\ r.kill = [h.kill EXCEPT ![t] = FALSE]
      /\ r.run = [h.run EXCEPT ![t] = k]
      /\ r.race = race /\ r.path = path
  BY <1>2, <1>3, RunPutFields
<1>6. /\ r.state[t] = "started" /\ ~r.kill[t] /\ r.run[t] = k
      /\ \A u \in Teams \ {t} :
           r.state[u] = h.state[u] /\ r.kill[u] = h.kill[u] /\ r.run[u] = h.run[u]
  BY <1>1, <1>5
<1> QED
  BY <1>4, <1>5, <1>6 DEF HasBegun

\* the team t may begin a run, with the tees cs
MayStart(a, t, cs) ==
  t # 0 /\ Kind[t] = "none" /\ a.state[t] = "open" /\ cs = Alive(a, t)

(* A team that begins a run is in order. *)
LEMMA BegunKeeps ==
  ASSUME NEW a, Fine(a, {}, Kind), NEW t \in Teams, NEW cs, MayStart(a, t, cs),
         NEW k, NEW b, HasBegun(a, t, k, cs, b)
  PROVE  Fine(b, {}, Kind)
<1>1. /\ a \in Games /\ Peopled(a) /\ Waiting(a, Kind) /\ Even(a, Kind)
      /\ \A e \in Clients : FlagsOk(a, e, Kind) /\ RaceOk(a, e, Kind)
  BY DEF Fine
<1>2. t # 0 /\ Kind[t] = "none" /\ a.state[t] = "open" /\ cs = Alive(a, t)
  BY DEF MayStart
<1>3. /\ b \in Games /\ b.team = a.team /\ b.tee = a.tee
      /\ b.started = a.started /\ b.finished = a.finished
      /\ b.locked = a.locked /\ b.practice = a.practice /\ b.spoiled = a.spoiled
      /\ b.state[t] = "started" /\ ~b.kill[t]
      /\ \A u \in Teams \ {t} : b.state[u] = a.state[u] /\ b.kill[u] = a.kill[u]
      /\ \A d \in Clients :
           /\ d \in cs => b.race[d] = "started"
           /\ d \in cs => b.path[d] = IF a.path[d] = "practice" THEN "practice" ELSE "spawn"
           /\ d \notin cs => b.race[d] = a.race[d] /\ b.path[d] = a.path[d]
  BY DEF HasBegun
<1>4. \A u : Members(b, u) = Members(a, u) /\ Alive(b, u) = Alive(a, u)
  BY <1>3 DEF Members, Alive
<1>5. ASSUME NEW u \in Teams
      PROVE  /\ u # 0 => (b.state[u] = "empty" <=> Members(b, u) = {})
             /\ b.state[u] = "empty" => ~b.locked[u] /\ ~b.practice[u] /\ ~b.kill[u]
             /\ u = 0 => /\ b.state[u] \in {"empty", "open"} /\ ~b.locked[u]
                         /\ ~b.practice[u] /\ ~b.spoiled[u]
             /\ Kind[u] # "none" =>
                  /\ u # 0 /\ ~b.practice[u]
                  /\ b.state[u] \in Waits(Kind[u])
  <2>1. /\ u # 0 => (a.state[u] = "empty" <=> Members(a, u) = {})
        /\ a.state[u] = "empty" => ~a.locked[u] /\ ~a.practice[u] /\ ~a.kill[u]
        /\ u = 0 => /\ a.state[u] \in {"empty", "open"} /\ ~a.locked[u]
                    /\ ~a.practice[u] /\ ~a.spoiled[u]
        /\ Kind[u] # "none" =>
             /\ u # 0 /\ ~a.practice[u]
             /\ a.state[u] \in Waits(Kind[u])
    BY <1>1 DEF Peopled, Waiting
  <2>2. CASE u = t
    BY <1>2, <1>3, <1>4, <2>1, <2>2
  <2>3. CASE u # t
    BY <1>3, <1>4, <2>1, <2>3
  <2> QED
    BY <2>2, <2>3
<1>6. Peopled(b) /\ Waiting(b, Kind)
  BY <1>5 DEF Peopled, Waiting
<1>7. Even(b, Kind)
  <2> SUFFICES ASSUME NEW u \in Teams \ {0}, b.state[u] = "started", ~b.practice[u],
                      Kind[u] = "none", ~b.spoiled[u], NEW d \in Alive(b, u), NEW e \in Alive(b, u)
               PROVE  b.race[d] = b.race[e]
    BY DEF Even
  <2>1. d \in Alive(a, u) /\ e \in Alive(a, u) /\ d \in Clients /\ e \in Clients
    BY <1>4 DEF Alive, Members
  <2>2. CASE u = t
    BY <1>2, <1>3, <2>1, <2>2
  <2>3. CASE u # t
    <3>1. d \notin cs /\ e \notin cs
      BY <1>2, <2>1, <2>3 DEF Alive, Members
    <3>2. a.race[d] = a.race[e]
      BY <1>1, <1>3, <2>1, <2>3 DEF Even
    <3> QED
      BY <1>3, <2>1, <3>1, <3>2
  <2> QED
    BY <2>2, <2>3
<1>8. ASSUME NEW e \in Clients PROVE FlagsOk(b, e, Kind) /\ RaceOk(b, e, Kind)
  <2>1. FlagsOk(a, e, Kind) /\ RaceOk(a, e, Kind) /\ a.team[e] \in Teams
    BY <1>1 DEF Games
  <2>2. /\ b.team[e] = a.team[e] /\ b.tee[e] = a.tee[e]
        /\ b.started[e] = a.started[e] /\ b.finished[e] = a.finished[e]
        /\ b.practice = a.practice /\ b.spoiled = a.spoiled
    BY <1>3
  <2>3. CASE a.team[e] = t
    <3>1. ~a.spoiled[t] => ~a.started[e] /\ ~a.finished[e]
      BY <1>2, <2>1, <2>3 DEF FlagsOk
    <3>2. FlagsOk(b, e, Kind)
      BY <1>3, <2>2, <2>3, <3>1 DEF FlagsOk
    <3>3. CASE a.tee[e] = "alive"
      <4>1. e \in cs
        BY <1>2, <2>3, <3>3 DEF Alive, Members
      <4>2. /\ b.race[e] = "started"
            /\ b.path[e] = IF a.path[e] = "practice" THEN "practice" ELSE "spawn"
        BY <1>3, <4>1
      <4>3. a.path[e] = "practice" <=> a.practice[t]
        BY <2>1, <2>3, <3>3 DEF RaceOk
      <4>4. b.state[t] = "started" /\ Kind[t] = "none" /\ t # 0 /\ b.team[e] = t
        BY <1>2, <1>3, <2>2, <2>3
      <4> QED
        BY <2>2, <3>1, <3>2, <4>2, <4>3, <4>4 DEF RaceOk
    <3>4. CASE a.tee[e] # "alive"
      BY <2>2, <3>2, <3>4 DEF RaceOk
    <3> QED
      BY <3>3, <3>4
  <2>4. CASE a.team[e] # t
    <3>1. e \notin cs
      BY <1>2, <2>4 DEF Alive, Members
    <3>2. b.race[e] = a.race[e] /\ b.path[e] = a.path[e] /\ b.state[a.team[e]] = a.state[a.team[e]]
      BY <1>3, <2>1, <2>4, <3>1
    <3> QED
      BY <2>1, <2>2, <3>2, TeeSame
  <2> QED
    BY <2>3, <2>4
<1> QED
  BY <1>3, <1>6, <1>7, <1>8 DEF Fine

-----------------------------------------------------------------------------
(* Steps that begin a run, or ask the database. *)

\* nothing but the team t and its members is touched
Aside(a, h, t) ==
  /\ h \in Games /\ h.team = a.team /\ h.ranked = a.ranked
  /\ \A u \in Teams \ {t} :
       /\ h.state[u] = a.state[u] /\ h.locked[u] = a.locked[u]
       /\ h.practice[u] = a.practice[u] /\ h.kill[u] = a.kill[u] /\ h.run[u] = a.run[u]
       /\ h.spoiled[u] = a.spoiled[u]
  /\ \A c \in Clients : a.team[c] # t =>
       /\ h.tee[c] = a.tee[c] /\ h.race[c] = a.race[c] /\ h.path[c] = a.path[c]
       /\ h.started[c] = a.started[c] /\ h.finished[c] = a.finished[c]

\* the team t is in order
TeamOk(h, t, K) ==
  /\ h.state[t] = "empty" <=> Members(h, t) = {}
  /\ h.state[t] = "empty" => ~h.locked[t] /\ ~h.practice[t] /\ ~h.kill[t]
  /\ K[t] # "none" =>
       /\ ~h.practice[t]
       /\ h.state[t] \in Waits(K[t])
  /\ h.state[t] = "started" /\ ~h.practice[t] /\ K[t] = "none" /\ ~h.spoiled[t] =>
       \A c, d \in Alive(h, t) : h.race[c] = h.race[d]
  /\ \A c \in Members(h, t) : FlagsOk(h, c, K) /\ RaceOk(h, c, K)

(* What is not asked for in other teams does not change what they need. *)
LEMMA KindSame ==
  ASSUME NEW h, NEW c, NEW K, NEW L, L[h.team[c]] = K[h.team[c]],
         FlagsOk(h, c, K), RaceOk(h, c, K)
  PROVE  FlagsOk(h, c, L) /\ RaceOk(h, c, L)
BY DEF FlagsOk, RaceOk

(* All is in order when only one team is touched, and that is in order. *)
LEMMA TeamKeeps ==
  ASSUME NEW a, NEW K, Fine(a, {}, K), NEW t \in Teams \ {0}, NEW h, Aside(a, h, t),
         NEW L, \A u \in Teams \ {t} : L[u] = K[u], TeamOk(h, t, L)
  PROVE  Fine(h, {}, L)
<1>1. /\ a \in Games /\ Peopled(a) /\ Waiting(a, K) /\ Even(a, K)
      /\ \A e \in Clients : FlagsOk(a, e, K) /\ RaceOk(a, e, K)
  BY DEF Fine
<1>2. /\ h \in Games /\ h.team = a.team
      /\ \A u \in Teams \ {t} :
           /\ h.state[u] = a.state[u] /\ h.locked[u] = a.locked[u]
           /\ h.practice[u] = a.practice[u] /\ h.kill[u] = a.kill[u]
           /\ h.spoiled[u] = a.spoiled[u]
      /\ \A c \in Clients : a.team[c] # t =>
           /\ h.tee[c] = a.tee[c] /\ h.race[c] = a.race[c] /\ h.path[c] = a.path[c]
           /\ h.started[c] = a.started[c] /\ h.finished[c] = a.finished[c]
  BY DEF Aside
<1>3. \A u : Members(h, u) = Members(a, u)
  BY <1>2 DEF Members
<1>4. \A u : u # t => Alive(h, u) = Alive(a, u) /\ \A c \in Alive(h, u) : h.race[c] = a.race[c]
  BY <1>2 DEF Alive, Members
<1>5. /\ h.state[t] = "empty" <=> Members(h, t) = {}
      /\ h.state[t] = "empty" => ~h.locked[t] /\ ~h.practice[t] /\ ~h.kill[t]
      /\ L[t] # "none" =>
           /\ ~h.practice[t]
           /\ h.state[t] \in Waits(L[t])
      /\ h.state[t] = "started" /\ ~h.practice[t] /\ L[t] = "none" /\ ~h.spoiled[t] =>
           \A c, d \in Alive(h, t) : h.race[c] = h.race[d]
      /\ \A c \in Members(h, t) : FlagsOk(h, c, L) /\ RaceOk(h, c, L)
  BY DEF TeamOk
<1>6. Peopled(h)
  BY <1>1, <1>2, <1>3, <1>5 DEF Peopled
<1>7. Waiting(h, L)
  BY <1>1, <1>2, <1>5 DEF Waiting
<1>8. Even(h, L)
  <2> SUFFICES ASSUME NEW u \in Teams \ {0}, h.state[u] = "started", ~h.practice[u],
                      L[u] = "none", ~h.spoiled[u], NEW d \in Alive(h, u), NEW e \in Alive(h, u)
               PROVE  h.race[d] = h.race[e]
    BY DEF Even
  <2>1. CASE u = t
    BY <1>5, <2>1
  <2>2. CASE u # t
    <3>1. /\ a.state[u] = "started" /\ ~a.practice[u] /\ K[u] = "none" /\ ~a.spoiled[u]
          /\ d \in Alive(a, u) /\ e \in Alive(a, u)
          /\ h.race[d] = a.race[d] /\ h.race[e] = a.race[e]
      BY <1>2, <1>4, <2>2
    <3>2. a.race[d] = a.race[e]
      BY <1>1, <3>1 DEF Even
    <3> QED
      BY <3>1, <3>2
  <2> QED
    BY <2>1, <2>2
<1>9. ASSUME NEW e \in Clients PROVE FlagsOk(h, e, L) /\ RaceOk(h, e, L)
  <2>1. CASE a.team[e] = t
    <3>1. e \in Members(h, t)
      BY <1>2, <2>1 DEF Members
    <3> QED
      BY <1>5, <3>1
  <2>2. CASE a.team[e] # t
    <3>1. a.team[e] \in Teams \ {t} /\ FlagsOk(a, e, K) /\ RaceOk(a, e, K)
      BY <1>1, <2>2 DEF Games
    <3>2. /\ h.team[e] = a.team[e] /\ h.tee[e] = a.tee[e] /\ h.race[e] = a.race[e]
          /\ h.path[e] = a.path[e]
          /\ h.started[e] = a.started[e] /\ h.finished[e] = a.finished[e]
          /\ h.state[a.team[e]] = a.state[a.team[e]]
          /\ h.practice[a.team[e]] = a.practice[a.team[e]]
          /\ h.spoiled[a.team[e]] = a.spoiled[a.team[e]]
      BY <1>2, <2>2, <3>1
    <3>3. FlagsOk(h, e, K) /\ RaceOk(h, e, K)
      BY <3>1, <3>2, TeeSame
    <3>4. L[h.team[e]] = K[h.team[e]]
      BY <3>1, <3>2
    <3> QED
      BY <3>3, <3>4, KindSame
  <2> QED
    BY <2>1, <2>2
<1> QED
  BY <1>2, <1>6, <1>7, <1>8, <1>9 DEF Fine

\* the teams but t and 0 are as before, and nobody leaves a team but for the database
OtherTeams(h, t) ==
  /\ h \in Games /\ h.ranked = NoRank
  /\ \A u \in Teams \ {t} : h.run[u] = g.run[u]
  /\ \A u \in Teams \ {0, t} :
       /\ h.state[u] = g.state[u] /\ h.practice[u] = g.practice[u]
       /\ h.spoiled[u] = g.spoiled[u]
       /\ Members(h, u) = Members(g, u) /\ Alive(h, u) = Alive(g, u)
       /\ \A c \in Alive(g, u) : h.race[c] = g.race[c]
  /\ \A c \in Clients : Kind[g.team[c]] = "none" => h.team[c] = g.team[c]

(* When only one team is touched, the others are as before. *)
LEMMA AsideOthers ==
  ASSUME NEW a, IsNow(a), NEW t, NEW h, Aside(a, h, t)
  PROVE  OtherTeams(h, t)
<1>1. /\ a.team = g.team /\ a.tee = g.tee /\ a.race = g.race /\ a.state = g.state
      /\ a.practice = g.practice /\ a.run = g.run /\ a.spoiled = g.spoiled /\ a.ranked = NoRank
  BY DEF IsNow
<1>2. /\ h \in Games /\ h.team = g.team /\ h.ranked = NoRank
      /\ \A u \in Teams \ {t} :
           /\ h.state[u] = g.state[u] /\ h.practice[u] = g.practice[u] /\ h.run[u] = g.run[u]
           /\ h.spoiled[u] = g.spoiled[u]
      /\ \A c \in Clients : g.team[c] # t => h.tee[c] = g.tee[c] /\ h.race[c] = g.race[c]
  BY <1>1 DEF Aside
<1>3. \A u : /\ Members(h, u) = Members(g, u)
             /\ u # t => /\ Alive(h, u) = Alive(g, u)
                         /\ \A c \in Alive(g, u) : h.race[c] = g.race[c]
  BY <1>2 DEF Alive, Members
<1> QED
  BY <1>2, <1>3 DEF OtherTeams

(* What such a step does to the history. *)
LEMMA QuietHistory ==
  ASSUME TeamsIInv, NEW t, NEW h, OtherTeams(h, t), Becomes(h)
  PROVE  /\ IsKept(h, g') /\ done' \subseteq done /\ deserted' \subseteq deserted
         /\ h.run # g.run => done' \cap NewRuns = {} /\ deserted' \cap NewRuns = {}
         /\ FairRank'
<1>1. /\ g' = Kept(h)
      /\ done' = (done \ (IF h.run # g.run THEN NewRuns ELSE {}))
                   \cup (IF h.ranked.saved THEN {} ELSE {h.ranked.run} \ {0})
      /\ deserted' = (deserted \ (IF h.run # g.run THEN NewRuns ELSE {})) \cup
           {g.run[g.team[c]] : c \in {c \in Clients :
              /\ g.state[g.team[c]] = "started" /\ ~GetSaving(g.team[c]) /\ g.tee[c] = "alive"
              /\ ~g.spoiled[g.team[c]]
              /\ g.path[c] = "spawn" /\ h.team[c] # g.team[c]}}
  BY DEF Becomes
<1>2. h \in Games /\ h.ranked = NoRank
      /\ \A c \in Clients : Kind[g.team[c]] = "none" => h.team[c] = g.team[c]
  BY DEF OtherTeams
<1>3. g \in Games /\ deserted \in SUBSET (1..MaxRuns)
  BY DEF TeamsIInv, Fine
<1>4. \A c \in Clients : ~GetSaving(g.team[c]) <=> Kind[g.team[c]] = "none"
  BY <1>3 DEF GetSaving, Kind, Games
<1>5. {c \in Clients :
         /\ g.state[g.team[c]] = "started" /\ ~GetSaving(g.team[c]) /\ g.tee[c] = "alive"
         /\ ~g.spoiled[g.team[c]]
         /\ g.path[c] = "spawn" /\ h.team[c] # g.team[c]} = {}
  BY <1>2, <1>4
<1>6. deserted' = deserted \ (IF h.run # g.run THEN NewRuns ELSE {})
  BY <1>1, <1>5
<1>7. done' = done \ (IF h.run # g.run THEN NewRuns ELSE {})
  BY <1>1, <1>2 DEF NoRank, Rank
<1>8. IsKept(h, g')
  BY <1>1, <1>2, KeptFields
<1>9. FairRank'
  <2>1. g'.ranked = NoRank
    BY <1>2, <1>8 DEF IsKept
  <2>2. 0 \notin deserted'
    BY <1>3, <1>6
  <2> QED
    BY <2>1, <2>2 DEF FairRank, NoRank, Rank
<1> QED
  BY <1>6, <1>7, <1>8, <1>9

(* The runs of the other teams stay where they are. *)
LEMMA OtherRuns ==
  ASSUME TeamsIInv, NEW t \in Teams \ {0}, NEW h, OtherTeams(h, t), NEW L, Fine(h, {}, L),
         IsKept(h, g'), \A u \in Teams \ {t} : result'[u] = result[u]
  PROVE  /\ \A u \in Teams \ {t} :
              /\ g'.run[u] = g.run[u] /\ Held'[u] = Held[u]
              /\ g'.run[u] # 0 <=> g'.state[u] \in Racing
         /\ g'.run[t] = IF h.state[t] \in Racing THEN h.run[t] ELSE 0
         /\ Kind'[t] = "none" => Held'[t] = g'.run[t]
<1>1. /\ g'.state = h.state
      /\ \A u \in Teams : g'.run[u] = IF h.state[u] \in Racing THEN h.run[u] ELSE 0
  BY DEF IsKept
<1>2. /\ \A u \in Teams : g.run[u] # 0 <=> g.state[u] \in Racing
      /\ g.state[0] \in {"empty", "open"} /\ h.state[0] \in {"empty", "open"} /\ 0 \in Teams
  BY ClientsFacts DEF TeamsIInv, Fine, Peopled, Settled
<1>3. /\ \A u \in Teams \ {t} : h.run[u] = g.run[u]
      /\ \A u \in Teams \ {0, t} : h.state[u] = g.state[u]
  BY DEF OtherTeams
<1>4. ASSUME NEW u \in Teams \ {t}
      PROVE  g'.run[u] = g.run[u] /\ (g'.run[u] # 0 <=> g'.state[u] \in Racing)
  <2>1. CASE u = 0
    BY <1>1, <1>2, <2>1 DEF Racing
  <2>2. CASE u # 0
    <3>1. h.run[u] = g.run[u] /\ h.state[u] = g.state[u]
      BY <1>3, <2>2
    <3> QED
      BY <1>1, <1>2, <3>1
  <2> QED
    BY <2>1, <2>2
<1>5. ASSUME NEW u \in Teams \ {t} PROVE Held'[u] = Held[u]
  <2>1. result'[u] = result[u] /\ g'.run[u] = g.run[u]
    BY <1>4
  <2> QED
    BY <2>1 DEF Held
<1>6. Kind'[t] = "none" => Held'[t] = g'.run[t]
  BY DEF Kind, Held
<1> QED
  BY <1>1, <1>4, <1>5, <1>6

\* the team t of h has what it needs when the database is asked x for it
MineOk(h, t, x, D) ==
  /\ h.state[t] \in Racing => h.run[t] # 0
  /\ x.kind = "save" =>
       /\ Members(h, t) \subseteq DOMAIN x.save.tees
       /\ h.state[t] \in Racing => h.run[t] = x.save.run
  /\ x.kind = "load" =>
       IF x.status = "success" THEN Members(h, t) \subseteq DOMAIN x.save.tees
       ELSE x.status = "pending" => Members(h, t) \subseteq x.who
  /\ x.kind = "none" /\ h.state[t] = "started" /\ ~h.practice[t] /\ ~h.spoiled[t]
       /\ h.run[t] \in D =>
       \A c \in Alive(h, t) : h.race[c] = "none"

(* Steps that begin the run of one team, or ask the database for it. *)
LEMMA QuietStep ==
  ASSUME TeamsIInv, NEW t \in Teams \ {0}, NEW h, OtherTeams(h, t), Becomes(h),
         Fine(h, {}, Kind'), \A u \in Teams \ {t} : result'[u] = result[u],
         result' \in [Teams -> Answers], saves' \in SUBSET Records,
         MineOk(h, t, result'[t], deserted'),
         OneEach(Held', saves', done'), ForlornSaves(Saved', deserted')
  PROVE  TeamsIInv'
<1>1. /\ done \in SUBSET (1..MaxRuns) /\ deserted \in SUBSET (1..MaxRuns)
      /\ Settled /\ Results /\ Forlorn(g, Kind, deserted)
  BY DEF TeamsIInv
<1>2. /\ IsKept(h, g') /\ done' \subseteq done /\ deserted' \subseteq deserted /\ FairRank'
  BY QuietHistory
<1>3. Fine(g', {}, Kind')
  BY <1>2, KeptKeeps
<1>4. /\ \A u \in Teams \ {t} :
           g'.run[u] = g.run[u] /\ (g'.run[u] # 0 <=> g'.state[u] \in Racing)
      /\ g'.run[t] = IF h.state[t] \in Racing THEN h.run[t] ELSE 0
  BY <1>2, OtherRuns
<1>5. /\ g'.team = h.team /\ g'.tee = h.tee /\ g'.state = h.state /\ g'.practice = h.practice
      /\ \A c \in Clients :
           /\ h.tee[c] = "alive" => g'.race[c] = h.race[c]
           /\ h.tee[c] # "alive" => g'.race[c] = "none" /\ g'.path[c] = "spawn"
      /\ \A u \in Teams : g'.spoiled[u] <=> h.spoiled[u] /\ h.state[u] # "empty"
  BY <1>2 DEF IsKept
<1>6. \A u : /\ Members(g', u) = Members(h, u) /\ Alive(g', u) = Alive(h, u)
             /\ \A c \in Alive(h, u) : g'.race[c] = h.race[c]
  BY <1>5 DEF Members, Alive
<1>7. /\ h.state[t] \in Racing => h.run[t] # 0
      /\ result'[t].kind = "save" =>
           /\ Members(h, t) \subseteq DOMAIN result'[t].save.tees
           /\ h.state[t] \in Racing => h.run[t] = result'[t].save.run
      /\ result'[t].kind = "load" =>
           IF result'[t].status = "success" THEN Members(h, t) \subseteq DOMAIN result'[t].save.tees
           ELSE result'[t].status = "pending" => Members(h, t) \subseteq result'[t].who
      /\ result'[t].kind = "none" /\ h.state[t] = "started" /\ ~h.practice[t]
           /\ ~h.spoiled[t] /\ h.run[t] \in deserted' => \A c \in Alive(h, t) : h.race[c] = "none"
  BY DEF MineOk
<1>8. Settled'
  <2>1. \A u \in Teams : g'.run[u] # 0 <=> g'.state[u] \in Racing
    BY <1>4, <1>5, <1>7
  <2> QED
    BY <1>5, <2>1 DEF Settled
<1>9. /\ \A u \in Teams \ {t} : Kind'[u] = Kind[u]
      /\ \A u \in Teams : Kind'[u] = result'[u].kind /\ Kind[u] = result[u].kind
      /\ Kind[0] = "none"
  <2>1. Waiting(g, Kind)
    BY DEF TeamsIInv, Fine
  <2>2. Kind[0] = "none"
    BY <2>1, ClientsFacts DEF Waiting
  <2> QED
    BY <2>2 DEF Kind
<1>10. \A u \in Teams \ {0, t} :
         /\ h.state[u] = g.state[u] /\ h.practice[u] = g.practice[u]
         /\ h.spoiled[u] = g.spoiled[u]
         /\ Members(h, u) = Members(g, u) /\ Alive(h, u) = Alive(g, u)
         /\ \A c \in Alive(g, u) : h.race[c] = g.race[c]
  BY DEF OtherTeams
<1>11. ASSUME NEW u \in Teams
       PROVE  /\ result'[u].kind = "save" =>
                   /\ Members(g', u) \subseteq DOMAIN result'[u].save.tees
                   /\ g'.run[u] \in {0, result'[u].save.run}
              /\ result'[u].kind = "load" =>
                   IF result'[u].status = "success"
                     THEN Members(g', u) \subseteq DOMAIN result'[u].save.tees
                     ELSE result'[u].status = "pending" => Members(g', u) \subseteq result'[u].who
  <2>1. CASE u = t
    BY <1>4, <1>6, <1>7, <2>1
  <2>2. CASE u # t /\ Kind[u] = "none"
    BY <1>9, <2>2
  <2>3. CASE u # t /\ Kind[u] # "none"
    <3>1. /\ Members(g', u) = Members(g, u) /\ g'.run[u] = g.run[u] /\ result'[u] = result[u]
      BY <1>4, <1>6, <1>9, <1>10, <2>3
    <3> QED
      BY <1>1, <3>1 DEF Results
  <2> QED
    BY <2>1, <2>2, <2>3
<1>12. Results'
  BY <1>11 DEF Results
<1>13. Forlorn(g', Kind', deserted')
  <2> SUFFICES ASSUME NEW u \in Teams, g'.state[u] = "started", ~g'.practice[u],
                      Kind'[u] = "none", ~g'.spoiled[u], g'.run[u] \in deserted',
                      NEW c \in Alive(g', u)
               PROVE  g'.race[c] = "none"
    BY DEF Forlorn
  <2>1. c \in Alive(h, u) /\ g'.race[c] = h.race[c]
    BY <1>6
  <2>2. CASE u = t
    <3>1. h.run[t] \in deserted' /\ ~h.spoiled[t]
      BY <1>4, <1>5, <2>2 DEF Racing
    <3> QED
      BY <1>5, <1>7, <1>9, <2>1, <2>2, <3>1
  <2>3. CASE u = 0
    BY <1>3, <2>3 DEF Fine, Peopled
  <2>4. CASE u \notin {0, t}
    <3>1. /\ g.state[u] = "started" /\ ~g.practice[u] /\ Kind[u] = "none" /\ g.run[u] \in deserted
          /\ ~g.spoiled[u]
          /\ c \in Alive(g, u) /\ h.race[c] = g.race[c]
      BY <1>2, <1>4, <1>5, <1>9, <1>10, <2>1, <2>4
    <3> QED
      BY <1>1, <2>1, <3>1 DEF Forlorn
  <2> QED
    BY <2>2, <2>3, <2>4
<1> QED
  BY <1>1, <1>2, <1>3, <1>8, <1>12, <1>13 DEF TeamsIInv

\* the tee c begins a run for its team
Begins(a, c) ==
  /\ a.tee[c] = "alive" /\ a.team[c] # 0 /\ Kind[a.team[c]] = "none"
  /\ a.state[a.team[c]] = "open"

(* What a tee does that begins a run: the team begins it, and then the tee starts. *)
LEMMA BeginsFields ==
  ASSUME NEW a, Fine(a, {}, Kind), NEW c \in Clients, Begins(a, c),
         NEW k \in 0..MaxRuns, k = CHOOSE r \in NewRuns : TRUE,
         NEW h, h = OnCharacterStart(a, c), NEW b, b = Begun(a, a.team[c], k, Alive(a, a.team[c]))
  PROVE  /\ HasBegun(a, a.team[c], k, Alive(a, a.team[c]), b) /\ Fine(h, {}, Kind)
         /\ \E p : IsPut(b, c, TRUE, b.finished[c], b.race[c], p, h)
<1>1. PICK t : t = a.team[c]
  OBVIOUS
<1>2. /\ a \in Games /\ t \in Teams
      /\ a.tee[c] = "alive" /\ t # 0 /\ Kind[t] = "none" /\ a.state[t] = "open"
  BY <1>1 DEF Fine, Games, Begins
<1>3. PICK cs : cs = Alive(a, t)
  OBVIOUS
<1>4. c \in cs /\ \A d \in cs : d \in Clients /\ a.race[d] = "none"
  <2>1. c \in cs
    BY <1>1, <1>2, <1>3 DEF Alive, Members
  <2>2. ASSUME NEW d \in cs PROVE d \in Clients /\ a.race[d] = "none"
    <3>1. d \in Clients /\ a.team[d] = t /\ a.tee[d] = "alive"
      BY <1>3 DEF Alive, Members
    <3>2. RaceOk(a, d, Kind)
      BY <3>1 DEF Fine
    <3> QED
      BY <1>2, <3>1, <3>2 DEF RaceOk
  <2> QED
    BY <2>1, <2>2
<1>5. b = Begun(a, t, k, cs)
  BY <1>1, <1>3
<1>6. HasBegun(a, t, k, cs, b)
  BY <1>2, <1>5, BegunFields
<1>7. MayStart(a, t, cs)
  BY <1>2, <1>3 DEF MayStart
<1>8. Fine(b, {}, Kind)
  BY <1>2, <1>6, <1>7, BegunKeeps
<1>9. /\ b \in Games /\ b.team[c] = t /\ b.tee[c] = "alive" /\ b.state[t] = "started"
      /\ b.path[c] \in {"spawn", "start", "finish", "practice"}
      /\ \A d \in cs : b.race[d] = "started"
      /\ Alive(b, t) = cs
  <2>1. /\ b \in Games /\ b.team = a.team /\ b.tee = a.tee /\ b.state[t] = "started"
        /\ \A d \in Clients : d \in cs => b.race[d] = "started"
    BY <1>6 DEF HasBegun
  <2>2. Alive(b, t) = Alive(a, t)
    BY <2>1 DEF Alive, Members
  <2> QED
    BY <1>1, <1>2, <1>3, <1>4, <2>1, <2>2 DEF Games
<1>10. PICK p \in {"spawn", "start", "finish", "practice"} :
         p = IF b.path[c] = "spawn" THEN "start" ELSE b.path[c]
  BY <1>9
<1>11. h = Passed(b, c, p)
  <2>1. b = StartRun(a, t)
    BY <1>3, <1>5 DEF Begun, StartRun
  <2>2. h = HitsStart(a, c)
    BY <1>1, <1>2 DEF OnCharacterStart
  <2>3. a.race[c] # "finished" /\ ~\E d \in Alive(a, t) : a.race[d] = "finished"
    BY <1>3, <1>4
  <2>4. h = [b EXCEPT !.started[c] = TRUE, !.path[c] = IF @ = "spawn" THEN "start" ELSE @]
    BY <1>1, <1>2, <2>1, <2>2, <2>3 DEF HitsStart
  <2> QED
    BY <1>10, <2>4 DEF Passed
<1>12. h = OnCharacterStart(b, c)
  <2>1. OnCharacterStart(b, c) = HitsStart(b, c)
    BY <1>2, <1>9 DEF OnCharacterStart
  <2>2. b.race[c] # "finished" /\ ~\E d \in Alive(b, t) : b.race[d] = "finished"
    BY <1>4, <1>9
  <2>3. HitsStart(b, c) = [b EXCEPT !.started[c] = TRUE,
                                    !.path[c] = IF @ = "spawn" THEN "start" ELSE @]
    BY <1>9, <2>2 DEF HitsStart
  <2> QED
    BY <1>10, <1>11, <2>1, <2>3 DEF Passed
<1>13. Starts(b, c)
  BY <1>2, <1>9 DEF Starts
<1>14. Fine(h, {}, Kind)
  BY <1>8, <1>12, <1>13, StartTogether DEF Legal
<1>15. IsPut(b, c, TRUE, b.finished[c], b.race[c], p, h)
  BY <1>9, <1>10, <1>11, PassedFields
<1> QED
  BY <1>1, <1>3, <1>6, <1>14, <1>15

\* the team t has begun the run k in h, and nothing else was touched
RunBegins(h, t, k) ==
  /\ OtherTeams(h, t) /\ Fine(h, {}, Kind) /\ h.state[t] = "started" /\ h.run[t] = k

(* A tee begins a run. *)
LEMMA BeginsRun ==
  ASSUME TeamsIInv, NEW c \in Clients, Begins(g, c),
         NEW k \in 0..MaxRuns, k = CHOOSE r \in NewRuns : TRUE,
         NEW h, h = OnCharacterStart(Now0, c)
  PROVE  RunBegins(h, g.team[c], k)
<1>1. PICK a : a = Now0 /\ IsNow(a)
  BY Now0Same
<1>2. PICK t : t = g.team[c]
  OBVIOUS
<1>3. /\ Fine(a, {}, Kind) /\ a \in Games /\ a.team = g.team /\ a.tee = g.tee
      /\ a.state = g.state /\ t = a.team[c] /\ t \in Teams
  BY <1>1, <1>2 DEF IsNow, Games
<1>4. Begins(a, c)
  BY <1>3 DEF Begins
<1>5. PICK b : b = Begun(a, a.team[c], k, Alive(a, a.team[c]))
  OBVIOUS
<1>6. h = OnCharacterStart(a, c)
  BY <1>1
<1>7. /\ HasBegun(a, a.team[c], k, Alive(a, a.team[c]), b) /\ Fine(h, {}, Kind)
      /\ \E p : IsPut(b, c, TRUE, b.finished[c], b.race[c], p, h)
  BY <1>3, <1>4, <1>5, <1>6, BeginsFields
<1>8. PICK p : IsPut(b, c, TRUE, b.finished[c], b.race[c], p, h)
  BY <1>7
<1>9. HasBegun(a, t, k, Alive(a, t), b)
  BY <1>3, <1>7
<1>10. /\ b.team = a.team /\ b.tee = a.tee /\ b.locked = a.locked /\ b.practice = a.practice
       /\ b.spoiled = a.spoiled
       /\ b.ranked = a.ranked /\ b.started = a.started /\ b.finished = a.finished
       /\ b.state[t] = "started" /\ b.run[t] = k
       /\ \A u \in Teams \ {t} :
            b.state[u] = a.state[u] /\ b.kill[u] = a.kill[u] /\ b.run[u] = a.run[u]
       /\ \A d \in Clients : d \notin Alive(a, t) => b.race[d] = a.race[d] /\ b.path[d] = a.path[d]
  BY <1>9 DEF HasBegun
<1>11. /\ h \in Games /\ h.team = b.team /\ h.tee = b.tee
       /\ h.state = b.state /\ h.locked = b.locked /\ h.practice = b.practice
       /\ h.kill = b.kill /\ h.run = b.run /\ h.spoiled = b.spoiled /\ h.ranked = b.ranked
       /\ \A d \in Clients \ {c} :
            /\ h.started[d] = b.started[d] /\ h.finished[d] = b.finished[d]
            /\ h.race[d] = b.race[d] /\ h.path[d] = b.path[d]
  BY <1>8 DEF IsPut
<1>12. Aside(a, h, t)
  <2>1. \A d \in Clients : a.team[d] # t => d # c /\ d \notin Alive(a, t)
    BY <1>3 DEF Alive, Members
  <2>2. \A d \in Clients : a.team[d] # t =>
          /\ h.tee[d] = a.tee[d] /\ h.race[d] = a.race[d] /\ h.path[d] = a.path[d]
          /\ h.started[d] = a.started[d] /\ h.finished[d] = a.finished[d]
    BY <1>10, <1>11, <2>1
  <2> QED
    BY <1>10, <1>11, <2>2 DEF Aside
<1>13. OtherTeams(h, t)
  BY <1>1, <1>12, AsideOthers
<1>14. h.state[t] = "started" /\ h.run[t] = k
  BY <1>10, <1>11
<1> QED
  BY <1>2, <1>7, <1>13, <1>14 DEF RunBegins

(* A new run is nowhere. *)
LEMMA NewRunsFree ==
  ASSUME TeamsIInv, NEW k \in NewRuns
  PROVE  /\ k \in 1..MaxRuns /\ \A u \in Teams : Held[u] # k
         /\ \A s \in Saved : s.run # k
<1>1. /\ k \in 1..MaxRuns /\ \A u \in Teams : g.run[u] # k
      /\ \A s \in saves : s.run # k
      /\ \A u \in Teams : "save" \in DOMAIN result[u] => result[u].save.run # k
  BY DEF NewRuns
<1>2. result \in [Teams -> Answers]
  BY DEF TeamsIInv
<1>3. \A x \in Answers :
        x.kind # "none" /\ ~(x.kind = "save" <=> x.status = "success") => "save" \in DOMAIN x
  BY DEF Answers, NoResult
<1>4. ASSUME NEW u \in Teams PROVE Held[u] # k
  <2>1. CASE result[u].kind = "none"
    BY <1>1, <2>1 DEF Held
  <2>2. CASE result[u].kind # "none" /\ (result[u].kind = "save" <=> result[u].status = "success")
    BY <1>1, <2>2 DEF Held
  <2>3. CASE result[u].kind # "none" /\ ~(result[u].kind = "save" <=> result[u].status = "success")
    BY <1>1, <1>2, <1>3, <2>3 DEF Held
  <2> QED
    BY <2>1, <2>2, <2>3
<1>5. ASSUME NEW s \in Saved PROVE s.run # k
  <2>1. CASE s \in saves
    BY <1>1, <2>1
  <2>2. CASE s \notin saves
    <3>1. PICK u \in Teams : Kind[u] # "none" /\ Held[u] # 0 /\ s = result[u].save
      BY <2>2 DEF Saved
    <3>2. Held[u] = s.run
      BY <3>1 DEF Held, Kind
    <3> QED
      BY <1>4, <3>2
  <2> QED
    BY <2>1, <2>2
<1> QED
  BY <1>1, <1>4, <1>5

\* the run of t, which had none, is k
Takes(H, G, t, k) == H[t] = 0 /\ G[t] = k /\ \A u \in Teams \ {t} : G[u] = H[u]

(* A team gets a run that is in no other place. *)
LEMMA OneEachTaken ==
  ASSUME NEW H, NEW S, NEW D, OneEach(H, S, D), NEW G, NEW t \in Teams, NEW k,
         Takes(H, G, t, k), NEW T, T \subseteq S, NEW E, E \subseteq D, k \notin E,
         \A u \in Teams \ {t} : H[u] # k, \A s \in T : s.run # k
  PROVE  OneEach(G, T, E)
<1>1. /\ \A v, u \in Teams : v # u /\ H[v] # 0 => H[v] # H[u]
      /\ \A s \in S : s.run \notin D /\ \A u \in Teams : H[u] # s.run
      /\ \A s, r \in S : s.run = r.run => s = r
      /\ \A u \in Teams : H[u] \notin D
  BY DEF OneEach
<1>2. G[t] = k /\ \A u \in Teams \ {t} : G[u] = H[u]
  BY DEF Takes
<1>3. \A v, u \in Teams : v # u /\ G[v] # 0 => G[v] # G[u]
  <2> SUFFICES ASSUME NEW v \in Teams, NEW u \in Teams, v # u, G[v] # 0 PROVE G[v] # G[u]
    OBVIOUS
  <2>1. CASE v = t
    BY <1>2, <2>1
  <2>2. CASE u = t
    BY <1>2, <2>2
  <2>3. CASE v # t /\ u # t
    BY <1>1, <1>2, <2>3
  <2> QED
    BY <2>1, <2>2, <2>3
<1>4. \A s \in T : s.run \notin E /\ \A u \in Teams : G[u] # s.run
  BY <1>1, <1>2
<1>5. \A u \in Teams : G[u] \notin E
  BY <1>1, <1>2
<1> QED
  BY <1>1, <1>3, <1>4, <1>5 DEF OneEach

(* The first tee of an open team hits the start. *)
LEMMA RunBeginsStep ==
  ASSUME TeamsIInv, NEW t \in Teams \ {0}, g.state[t] = "open", Kind[t] = "none",
         NEW k \in NewRuns, NEW h, RunBegins(h, t, k), Only(h)
  PROVE  TeamsIInv'
<1>1. /\ result \in [Teams -> Answers] /\ saves \in SUBSET Records
      /\ Settled /\ OneEach(Held, saves, done) /\ ForlornSaves(Saved, deserted)
  BY DEF TeamsIInv
<1>2. result' = result /\ saves' = saves /\ Becomes(h)
  BY DEF Only
<1>3. /\ k \in 1..MaxRuns /\ \A u \in Teams : Held[u] # k
      /\ \A s \in Saved : s.run # k
  BY NewRunsFree
<1>4. OtherTeams(h, t) /\ Fine(h, {}, Kind) /\ h.state[t] = "started" /\ h.run[t] = k
  BY DEF RunBegins
<1>5. Kind' = Kind
  BY <1>2 DEF Kind
<1>6. g.run[t] = 0 /\ Held[t] = 0 /\ Kind[t] = result[t].kind
  BY <1>1 DEF Settled, Racing, Held, Kind
<1>7. h.run # g.run
  BY <1>3, <1>4, <1>6
<1>8. /\ IsKept(h, g') /\ done' \subseteq done /\ deserted' \subseteq deserted
      /\ done' \cap NewRuns = {} /\ deserted' \cap NewRuns = {}
  BY <1>2, <1>4, <1>7, QuietHistory
<1>9. Takes(Held, Held', t, k)
  <2>1. /\ \A u \in Teams \ {t} : Held'[u] = Held[u]
        /\ g'.run[t] = IF h.state[t] \in Racing THEN h.run[t] ELSE 0
        /\ Kind'[t] = "none" => Held'[t] = g'.run[t]
    BY <1>2, <1>4, <1>8, OtherRuns
  <2>2. Held'[t] = k
    BY <1>4, <1>5, <2>1 DEF Racing
  <2> QED
    BY <1>6, <2>1, <2>2 DEF Takes
<1>10. \A s \in saves : s.run # k
  BY <1>3 DEF Saved
<1>11. OneEach(Held', saves', done')
  BY <1>1, <1>2, <1>3, <1>8, <1>9, <1>10, OneEachTaken
<1>12. ForlornSaves(Saved', deserted')
  <2> SUFFICES ASSUME NEW s \in Saved', s.run \in deserted', ~s.spoiled
               PROVE  \A d \in DOMAIN s.tees : s.tees[d].race = "none"
    BY DEF ForlornSaves
  <2>1. s \in Saved
    <3>1. CASE s \in saves
      BY <3>1 DEF Saved
    <3>2. CASE s \notin saves
      <4>1. PICK u \in Teams : Kind'[u] # "none" /\ Held'[u] # 0 /\ s = result'[u].save
        BY <1>2, <3>2 DEF Saved
      <4>2. u # t /\ Held[u] = Held'[u]
        BY <1>5, <1>9, <4>1 DEF Takes
      <4> QED
        BY <1>2, <1>5, <4>1, <4>2 DEF Saved
    <3> QED
      BY <3>1, <3>2
  <2> QED
    BY <1>1, <1>8, <2>1 DEF ForlornSaves
<1>13. MineOk(h, t, result'[t], deserted')
  <2>1. k \notin deserted' /\ k # 0
    BY <1>3, <1>8
  <2> QED
    BY <1>2, <1>4, <1>6, <2>1 DEF MineOk
<1> QED
  BY <1>1, <1>2, <1>4, <1>5, <1>11, <1>12, <1>13, QuietStep

(* HandleCharacterTiles at the start. *)
LEMMA TouchStartStep ==
  ASSUME TeamsIInv, NEW c \in Clients, TouchStart(c)
  PROVE  TeamsIInv'
<1>1. PICK t : t = g.team[c]
  OBVIOUS
<1>2. /\ Fine(Now0, {}, Kind) /\ Now0.tee = g.tee /\ Now0.team = g.team
      /\ Now0.state = g.state /\ t \in Teams
  BY <1>1, Now0Same DEF IsNow, Games
<1>3. g.tee[c] = "alive" /\ (g.state[t] = "open" /\ t # 0 => NewRuns # {})
  BY <1>1 DEF TouchStart
<1>4. GetSaving(t) <=> Kind[t] # "none"
  BY <1>2 DEF GetSaving, Kind
<1>5. CASE Kind[t] # "none"
  <2>1. PICK h : h = OnCharacterDeath(Corpse(Now0, c), c, "world") /\ Only(h)
    BY <1>1, <1>4, <1>5 DEF TouchStart, Only, Becomes, Corpse
  <2>2. Legal(Now0, h)
    BY <1>2, <2>1, FallLegal
  <2> QED
    BY <2>1, <2>2, OnlyStep
<1>6. CASE Kind[t] = "none"
  <2>1. PICK h : h = OnCharacterStart(Now0, c) /\ Only(h)
    BY <1>1, <1>4, <1>6 DEF TouchStart, Only, Becomes
  <2>2. CASE t = 0
    <3>1. Now0.team[c] = 0
      BY <1>1, <1>2, <2>2
    <3>2. Legal(Now0, h)
      BY <1>2, <2>1, <3>1, StartAlone
    <3> QED
      BY <2>1, <3>2, OnlyStep
  <2>3. CASE t # 0 /\ g.state[t] # "open"
    <3>1. Starts(Now0, c)
      BY <1>1, <1>2, <1>3, <1>6, <2>3 DEF Starts
    <3>2. Legal(Now0, h)
      BY <1>2, <2>1, <3>1, StartTogether
    <3> QED
      BY <2>1, <3>2, OnlyStep
  <2>4. CASE t # 0 /\ g.state[t] = "open"
    <3>1. PICK k \in NewRuns : k = CHOOSE r \in NewRuns : TRUE
      BY <1>3, <2>4
    <3>2. k \in 0..MaxRuns
      BY <3>1, NewRunsFree, ClientsFacts
    <3>3. Begins(g, c)
      BY <1>1, <1>3, <1>6, <2>4 DEF Begins
    <3>4. RunBegins(h, t, k)
      BY <1>1, <2>1, <3>1, <3>2, <3>3, BeginsRun
    <3> QED
      BY <1>2, <1>6, <2>1, <2>4, <3>4, RunBeginsStep
  <2> QED
    BY <2>2, <2>3, <2>4
<1> QED
  BY <1>5, <1>6

(* The saves of the other teams stay what they are. *)
LEMMA SavedKept ==
  ASSUME ForlornSaves(Saved, deserted), deserted' \subseteq deserted,
         NEW t, \A u \in Teams \ {t} : result'[u] = result[u] /\ Held'[u] = Held[u],
         saves' \subseteq Saved,
         Kind'[t] # "none" /\ Held'[t] # 0 => ForlornSaves({result'[t].save}, deserted)
  PROVE  ForlornSaves(Saved', deserted')
<1> SUFFICES ASSUME NEW s \in Saved', s.run \in deserted', ~s.spoiled
             PROVE  \A c \in DOMAIN s.tees : s.tees[c].race = "none"
  BY DEF ForlornSaves
<1>1. CASE s \in Saved
  BY <1>1 DEF ForlornSaves
<1>2. CASE s \notin Saved
  <2>1. PICK u \in Teams : Kind'[u] # "none" /\ Held'[u] # 0 /\ s = result'[u].save
    BY <1>2 DEF Saved
  <2>2. CASE u = t
    <3>1. ForlornSaves({s}, deserted)
      BY <2>1, <2>2
    <3> QED
      BY <3>1 DEF ForlornSaves
  <2>3. CASE u # t
    <3>1. result'[u] = result[u] /\ Held'[u] = Held[u] /\ Kind'[u] = Kind[u]
      BY <2>3 DEF Kind
    <3> QED
      BY <1>2, <2>1, <3>1 DEF Saved
  <2> QED
    BY <2>2, <2>3
<1> QED
  BY <1>1, <1>2

(* Only the database is asked. *)
LEMMA NowOthers ==
  ASSUME TeamsIInv, NEW t
  PROVE  Aside(Now0, Now0, t) /\ OtherTeams(Now0, t)
<1>1. IsNow(Now0)
  BY Now0Same
<1>2. Aside(Now0, Now0, t)
  BY <1>1 DEF IsNow, Aside
<1> QED
  BY <1>1, <1>2, AsideOthers

(* The database is asked for t, or takes what it is asked, and the run stays. *)
LEMMA HeldStays ==
  ASSUME TeamsIInv, NEW t \in Teams \ {0}, NEW h, OtherTeams(h, t), Becomes(h),
         NEW L, Fine(h, {}, L),
         \A u \in Teams \ {t} : result'[u] = result[u], Held'[t] \in {0, Held[t]}, saves' = saves
  PROVE  /\ OneEach(Held', saves', done')
         /\ (Kind'[t] # "none" /\ Held'[t] # 0 => ForlornSaves({result'[t].save}, deserted)) =>
              ForlornSaves(Saved', deserted')
<1>1. /\ OneEach(Held, saves, done) /\ ForlornSaves(Saved, deserted)
      /\ done \in SUBSET (1..MaxRuns) /\ saves \in SUBSET Records
  BY DEF TeamsIInv
<1>2. IsKept(h, g') /\ done' \subseteq done /\ deserted' \subseteq deserted
  BY QuietHistory
<1>3. \A u \in Teams \ {t} : Held'[u] = Held[u]
  BY <1>2, OtherRuns
<1>4. Passes(Held, Held', 0)
  BY <1>3 DEF Passes
<1>5. 0 \notin done /\ (\A s \in saves : s.run # 0) /\ done' \subseteq done \cup ({0} \ {0})
  BY <1>1, <1>2 DEF Records
<1>6. OneEach(Held', saves, done')
  BY <1>1, <1>4, <1>5, OneEachKept
<1>7. \A u \in Teams \ {t} : result'[u] = result[u] /\ Held'[u] = Held[u]
  BY <1>3
<1>8. saves' \subseteq Saved
  BY DEF Saved
<1>9. ASSUME Kind'[t] # "none" /\ Held'[t] # 0 => ForlornSaves({result'[t].save}, deserted)
      PROVE  ForlornSaves(Saved', deserted')
  BY <1>1, <1>2, <1>7, <1>8, <1>9, SavedKept
<1> QED
  BY <1>6, <1>9

(* CScore::LoadTeam. *)
LEMMA LoadTeamStep ==
  ASSUME TeamsIInv, NEW t \in Teams \ {0}, LoadTeam(t)
  PROVE  TeamsIInv'
<1>1. /\ Members(g, t) # {} /\ ~GetSaving(t) /\ g.state[t] = "open" /\ ~g.practice[t]
      /\ result' = [result EXCEPT ![t] = [kind |-> "load", status |-> "pending",
                                         who |-> Members(g, t)]]
      /\ Becomes(Now0) /\ saves' = saves
  BY DEF LoadTeam
<1>2. result \in [Teams -> Answers] /\ saves \in SUBSET Records /\ Settled /\ t \in Teams
  BY DEF TeamsIInv
<1>3. /\ result'[t] = [kind |-> "load", status |-> "pending", who |-> Members(g, t)]
      /\ \A u \in Teams \ {t} : result'[u] = result[u]
  BY <1>1, <1>2
<1>4. result' \in [Teams -> Answers]
  <2>1. [kind |-> "load", status |-> "pending", who |-> Members(g, t)] \in Answers
    BY DEF Answers, Members
  <2> QED
    BY <1>1, <1>2, <2>1
<1>5. IsNow(Now0)
  BY Now0Same
<1>6. /\ Fine(Now0, {}, Kind) /\ Now0.team = g.team /\ Now0.state = g.state
      /\ Now0.practice = g.practice
  BY <1>5 DEF IsNow
<1>7. /\ Kind'[t] = "load" /\ Kind[t] = "none"
      /\ \A u \in Teams \ {t} : Kind'[u] = Kind[u]
  BY <1>1, <1>3 DEF Kind, GetSaving
<1>8. Fine(Now0, {}, Kind')
  <2>1. \A c \in Members(Now0, t) :
          c \in Clients /\ Now0.team[c] = t /\ FlagsOk(Now0, c, Kind) /\ RaceOk(Now0, c, Kind)
    BY <1>6 DEF Fine, Members
  <2>2. Now0.state[t] = "open" /\ ~Now0.practice[t] /\ Members(Now0, t) = Members(g, t)
    BY <1>1, <1>6 DEF Members
  <2>3. ASSUME NEW c \in Members(Now0, t) PROVE FlagsOk(Now0, c, Kind') /\ RaceOk(Now0, c, Kind')
    BY <1>7, <2>1, <2>2 DEF FlagsOk, RaceOk, Racing
  <2>4. TeamOk(Now0, t, Kind')
    BY <1>1, <1>6, <1>7, <2>2, <2>3 DEF TeamOk, Waits
  <2> QED
    BY <1>6, <1>7, <2>4, NowOthers, TeamKeeps
<1>9. Held'[t] = 0
  BY <1>2, <1>3 DEF Held
<1>10. OneEach(Held', saves', done') /\ ForlornSaves(Saved', deserted')
  BY <1>1, <1>3, <1>8, <1>9, NowOthers, HeldStays
<1>11. MineOk(Now0, t, result'[t], deserted')
  <2>1. Members(Now0, t) = Members(g, t)
    BY <1>6 DEF Members
  <2> QED
    BY <1>1, <1>3, <1>6, <2>1 DEF MineOk, Racing
<1> QED
  BY <1>1, <1>2, <1>3, <1>4, <1>8, <1>10, <1>11, NowOthers, QuietStep

\* what a tee has to be saved
PassageOf(h, c) ==
  [race |-> h.race[c], started |-> h.started[c], finished |-> h.finished[c], path |-> h.path[c]]

\* the team t may be saved
Savable(h, t) ==
  /\ Kind[t] = "none" /\ ~h.practice[t] /\ h.state[t] = "started" /\ Members(h, t) = Alive(h, t)

(* A team that is saved was in the race together, without practice. *)
LEMMA SaveIsRecord ==
  ASSUME TeamsIInv, NEW t \in Teams \ {0}, Savable(g, t), NEW s, s = Save(g, t)
  PROVE  /\ s \in Records /\ s.run = g.run[t] /\ DOMAIN s.tees = Members(g, t)
         /\ ForlornSaves({s}, deserted)
<1>1. /\ g \in Games /\ Even(g, Kind) /\ Settled /\ Forlorn(g, Kind, deserted)
      /\ \A c \in Clients : FlagsOk(g, c, Kind) /\ RaceOk(g, c, Kind)
  BY DEF TeamsIInv, Fine
<1>2. Kind[t] = "none" /\ ~g.practice[t] /\ g.state[t] = "started" /\ Members(g, t) = Alive(g, t)
  BY DEF Savable
<1>3. PICK cs : cs = Members(g, t)
  OBVIOUS
<1>4. /\ s = [run |-> g.run[t], locked |-> g.locked[t], spoiled |-> g.spoiled[t],
              tees |-> [c \in cs |-> PassageOf(g, c)]]
      /\ \A c \in cs : c \in Clients /\ g.team[c] = t /\ g.tee[c] = "alive"
  <2>1. s = [run |-> g.run[t], locked |-> g.locked[t], spoiled |-> g.spoiled[t],
             tees |-> [c \in cs |-> PassageOf(g, c)]]
    BY <1>3 DEF Save, PassageOf
  <2> QED
    BY <1>2, <1>3, <2>1 DEF Alive, Members
<1>5. PICK tees : tees = [c \in cs |-> PassageOf(g, c)]
  OBVIOUS
<1>6. s = [run |-> g.run[t], locked |-> g.locked[t], spoiled |-> g.spoiled[t], tees |-> tees]
  BY <1>4, <1>5
<1>7. s.run = g.run[t] /\ s.tees = tees /\ s.locked = g.locked[t] /\ s.spoiled = g.spoiled[t]
  BY <1>6
<1>8. g.run[t] \in 1..MaxRuns /\ g.locked[t] \in BOOLEAN /\ g.spoiled[t] \in BOOLEAN
  <2>1. g.run[t] \in 0..MaxRuns /\ g.locked[t] \in BOOLEAN /\ g.spoiled[t] \in BOOLEAN
    BY <1>1 DEF Games
  <2>2. g.run[t] # 0
    BY <1>1, <1>2 DEF Settled, Racing
  <2> QED
    BY <2>1, <2>2, ClientsFacts
<1>9. ASSUME NEW c \in cs
      PROVE  /\ tees[c] \in Passages
             /\ tees[c].race = g.race[c] /\ tees[c].started = g.started[c]
             /\ tees[c].finished = g.finished[c] /\ tees[c].path = g.path[c]
  <2>1. tees[c] = PassageOf(g, c) /\ c \in Clients
    BY <1>4, <1>5
  <2>2. /\ g.race[c] \in {"none", "started", "finished"}
        /\ g.path[c] \in {"spawn", "start", "finish", "practice"}
        /\ g.started[c] \in BOOLEAN /\ g.finished[c] \in BOOLEAN
    BY <1>1, <2>1 DEF Games
  <2>3. PassageOf(g, c) \in Passages
    BY <2>2 DEF PassageOf, Passages
  <2>4. /\ tees[c].race = g.race[c] /\ tees[c].started = g.started[c]
        /\ tees[c].finished = g.finished[c] /\ tees[c].path = g.path[c]
    BY <2>1 DEF PassageOf
  <2> QED
    BY <2>1, <2>3, <2>4
<1>10. DOMAIN tees = cs
  BY <1>5
<1>11. ~g.spoiled[t] => \A c, d \in cs : g.race[c] = g.race[d]
  BY <1>1, <1>2, <1>3 DEF Even
<1>12. SaveOk(s)
  <2> SUFFICES ASSUME NEW c \in cs
               PROVE  /\ tees[c].path # "practice"
                      /\ ~g.spoiled[t] =>
                           /\ tees[c].finished => tees[c].started
                           /\ tees[c].finished => tees[c].path = "finish" /\ tees[c].race # "none"
                           /\ tees[c].started => tees[c].path \in {"start", "finish"}
                           /\ tees[c].race # "finished"
                           /\ \A d \in cs : tees[d].race = tees[c].race
    BY <1>7, <1>10 DEF SaveOk
  <2>1. ~g.spoiled[t] => \A d \in cs : tees[d].race = tees[c].race
    BY <1>9, <1>11
  <2>2. /\ FlagsOk(g, c, Kind) /\ RaceOk(g, c, Kind) /\ g.team[c] = t /\ g.tee[c] = "alive"
    BY <1>1, <1>4
  <2>3. /\ ~g.spoiled[t] =>
             /\ g.finished[c] => g.started[c]
             /\ g.finished[c] => g.path[c] = "finish" /\ g.race[c] # "none"
             /\ g.started[c] => g.path[c] \in {"start", "finish"}
             /\ g.race[c] \in {"none", "started"}
        /\ g.path[c] = "practice" <=> g.practice[t]
    BY <1>2, <2>2 DEF FlagsOk, RaceOk, Racing
  <2> QED
    BY <1>2, <1>9, <2>1, <2>3
<1>13. s \in Records
  <2>1. tees \in [cs -> Passages]
    BY <1>5, <1>9
  <2>2. cs \in SUBSET Clients
    BY <1>4
  <2>3. tees \in UNION {[S -> Passages] : S \in SUBSET Clients}
    BY <2>1, <2>2
  <2>4. s \in [run : 1..MaxRuns, locked : BOOLEAN, spoiled : BOOLEAN,
               tees : UNION {[S -> Passages] : S \in SUBSET Clients}]
    BY <1>6, <1>8, <2>3
  <2> QED
    BY <1>12, <2>4 DEF Records
<1>14. ForlornSaves({s}, deserted)
  <2> SUFFICES ASSUME g.run[t] \in deserted, ~g.spoiled[t], NEW c \in cs PROVE tees[c].race = "none"
    BY <1>7, <1>10 DEF ForlornSaves
  <2>1. g.race[c] = "none"
    BY <1>1, <1>2, <1>3 DEF Forlorn
  <2> QED
    BY <1>9, <2>1
<1> QED
  BY <1>3, <1>7, <1>10, <1>13, <1>14

\* the tees cs are dead
AllDead(h, cs) == [h EXCEPT !.tee = [c \in Clients |-> IF c \in cs THEN "dead" ELSE @[c]]]

(* All tees of some are dead. *)
LEMMA AllDeadFields ==
  ASSUME NEW h \in Games, NEW cs, NEW r, r = AllDead(h, cs)
  PROVE  /\ r \in Games /\ r.team = h.team /\ r.race = h.race /\ r.path = h.path
         /\ r.started = h.started /\ r.finished = h.finished
         /\ r.state = h.state /\ r.locked = h.locked /\ r.practice = h.practice
         /\ r.kill = h.kill /\ r.run = h.run /\ r.spoiled = h.spoiled /\ r.ranked = h.ranked
         /\ \A c \in Clients : /\ c \in cs => r.tee[c] = "dead"
                               /\ c \notin cs => r.tee[c] = h.tee[c]
<1>1. h.tee \in [Clients -> {"out", "dead", "corpse", "alive"}]
  BY DEF Games
<1> QED
  BY <1>1 DEF Games, AllDead

(* A team that waits for its save has no tee that lives. *)
LEMMA AllDeadKeeps ==
  ASSUME NEW a, Fine(a, {}, Kind), NEW t \in Teams \ {0}, Savable(a, t),
         NEW h, h = AllDead(a, Members(a, t)),
         NEW L, L[t] = "save", \A u \in Teams \ {t} : L[u] = Kind[u]
  PROVE  Fine(h, {}, L) /\ Aside(a, h, t)
<1>1. /\ a \in Games /\ Peopled(a) /\ \A c \in Clients : FlagsOk(a, c, Kind)
  BY DEF Fine
<1>2. ~a.practice[t] /\ a.state[t] = "started"
  BY DEF Savable
<1>3. /\ h \in Games /\ h.team = a.team /\ h.race = a.race /\ h.path = a.path
      /\ h.started = a.started /\ h.finished = a.finished
      /\ h.state = a.state /\ h.locked = a.locked /\ h.practice = a.practice
      /\ h.kill = a.kill /\ h.run = a.run /\ h.spoiled = a.spoiled /\ h.ranked = a.ranked
      /\ \A c \in Clients : /\ c \in Members(a, t) => h.tee[c] = "dead"
                            /\ c \notin Members(a, t) => h.tee[c] = a.tee[c]
  BY <1>1, AllDeadFields
<1>4. Aside(a, h, t)
  BY <1>3 DEF Aside, Members
<1>5. Members(h, t) = Members(a, t)
  BY <1>3 DEF Members
<1>6. ASSUME NEW c \in Members(h, t) PROVE FlagsOk(h, c, L) /\ RaceOk(h, c, L)
  <2>1. /\ c \in Clients /\ h.tee[c] = "dead" /\ a.team[c] = t /\ h.team[c] = t
        /\ FlagsOk(a, c, Kind)
    BY <1>1, <1>3, <1>5, <1>6 DEF Members
  <2>2. /\ ~h.spoiled[t] => (h.finished[c] => h.started[c])
        /\ h.state[t] = "started"
    BY <1>2, <1>3, <2>1 DEF FlagsOk
  <2> QED
    BY <2>1, <2>2 DEF FlagsOk, RaceOk
<1>7. TeamOk(h, t, L)
  <2>1. h.state[t] = "started" /\ ~h.practice[t] /\ Members(h, t) # {}
    BY <1>1, <1>2, <1>3, <1>5 DEF Peopled
  <2> QED
    BY <1>6, <2>1 DEF TeamOk, Waits
<1> QED
  BY <1>4, <1>7, TeamKeeps

(* CScore::SaveTeam. *)
LEMMA SaveTeamStep ==
  ASSUME TeamsIInv, NEW t \in Teams \ {0}, SaveTeam(t)
  PROVE  TeamsIInv'
<1>1. PICK s : s = Save(g, t)
  OBVIOUS
<1>2. PICK h : h = AllDead(Now0, Members(g, t)) /\ Becomes(h)
  BY DEF SaveTeam, AllDead, Becomes
<1>3. /\ Savable(g, t) /\ saves' = saves
      /\ result' = [result EXCEPT ![t] = [kind |-> "save", status |-> "pending", save |-> s]]
  <2>1. Kind[t] = result[t].kind
    BY DEF Kind
  <2> QED
    BY <1>1, <2>1 DEF SaveTeam, Savable, GetSaving
<1>4. result \in [Teams -> Answers] /\ saves \in SUBSET Records /\ Settled /\ t \in Teams
  BY DEF TeamsIInv
<1>5. /\ s \in Records /\ s.run = g.run[t] /\ DOMAIN s.tees = Members(g, t)
      /\ ForlornSaves({s}, deserted)
  BY <1>1, <1>3, SaveIsRecord
<1>6. /\ result'[t] = [kind |-> "save", status |-> "pending", save |-> s]
      /\ \A u \in Teams \ {t} : result'[u] = result[u]
  BY <1>3, <1>4
<1>7. result' \in [Teams -> Answers]
  <2>1. [kind |-> "save", status |-> "pending", save |-> s] \in Answers
    BY <1>5 DEF Answers
  <2> QED
    BY <1>3, <1>4, <2>1
<1>8. IsNow(Now0)
  BY Now0Same
<1>9. /\ Fine(Now0, {}, Kind) /\ Now0.team = g.team /\ Now0.tee = g.tee /\ Now0.state = g.state
      /\ Now0.practice = g.practice /\ Now0.run = g.run
      /\ Now0.spoiled = g.spoiled /\ Now0 \in Games
  BY <1>8 DEF IsNow
<1>10. Savable(Now0, t) /\ Members(Now0, t) = Members(g, t)
  <2>1. Members(Now0, t) = Members(g, t) /\ Alive(Now0, t) = Alive(g, t)
    BY <1>9 DEF Members, Alive
  <2> QED
    BY <1>3, <1>9, <2>1 DEF Savable
<1>11. Kind'[t] = "save" /\ \A u \in Teams \ {t} : Kind'[u] = Kind[u]
  BY <1>6 DEF Kind
<1>12. Fine(h, {}, Kind') /\ Aside(Now0, h, t)
  BY <1>2, <1>9, <1>10, <1>11, AllDeadKeeps
<1>13. OtherTeams(h, t)
  BY <1>8, <1>12, AsideOthers
<1>14. Held'[t] = Held[t] /\ Held[t] = g.run[t]
  <2>1. Held'[t] = s.run
    BY <1>6 DEF Held
  <2>2. Held[t] = g.run[t]
    BY <1>3 DEF Held, Savable, Kind
  <2> QED
    BY <1>5, <2>1, <2>2
<1>15. OneEach(Held', saves', done') /\ ForlornSaves(Saved', deserted')
  <2>1. ForlornSaves({result'[t].save}, deserted)
    BY <1>5, <1>6
  <2> QED
    BY <1>2, <1>3, <1>6, <1>12, <1>13, <1>14, <2>1, HeldStays
<1>16. MineOk(h, t, result'[t], deserted')
  <2>1. h.run = g.run /\ h.spoiled = g.spoiled /\ Members(h, t) = Members(g, t)
    <3>1. h.team = g.team /\ h.run = g.run /\ h.spoiled = g.spoiled
      BY <1>2, <1>9, AllDeadFields
    <3> QED
      BY <3>1 DEF Members
  <2>2. g.run[t] # 0
    BY <1>3, <1>4 DEF Savable, Settled, Racing
  <2> QED
    BY <1>5, <1>6, <2>1, <2>2 DEF MineOk
<1> QED
  BY <1>2, <1>3, <1>4, <1>6, <1>7, <1>12, <1>13, <1>15, <1>16, QuietStep

\* the answer x with another status
WithStatus(x, status) == [x EXCEPT !.status = status]

(* A save gets its answer. *)
LEMMA SaveAnswered ==
  ASSUME NEW x, x \in Answers, x.kind = "save", NEW status \in {"success", "failed"},
         NEW y, y = WithStatus(x, status)
  PROVE  /\ x.save \in Records /\ y \in Answers /\ y.kind = "save"
         /\ y.status = status /\ y.save = x.save
<1>1. x \in [kind : {"save"}, status : {"pending", "success", "failed"}, save : Records]
  BY DEF Answers, NoResult
<1> QED
  BY <1>1 DEF Answers, WithStatus

(* A load that fails gets its answer. *)
LEMMA LoadAnswered ==
  ASSUME NEW x, x \in Answers, x.kind = "load", x.status = "pending",
         NEW y, y = WithStatus(x, "failed")
  PROVE  y \in Answers /\ y.kind = "load" /\ y.status = "failed"
<1>1. x \in [kind : {"load"}, status : {"pending", "failed"}, who : SUBSET Clients]
  BY DEF Answers, NoResult
<1> QED
  BY <1>1 DEF Answers, WithStatus

(* A run goes from the hands of a team into the table. *)
LEMMA OneEachSaved ==
  ASSUME NEW H, NEW S, NEW D, OneEach(H, S, D), NEW t \in Teams, NEW s, H[t] = s.run, s.run # 0,
         NEW G, G[t] = 0, \A u \in Teams \ {t} : G[u] = H[u], 0 \notin D,
         \A r \in S : r.run # 0, NEW E, E \subseteq D
  PROVE  OneEach(G, S \cup {s}, E)
<1>1. /\ \A v, u \in Teams : v # u /\ H[v] # 0 => H[v] # H[u]
      /\ \A r \in S : r.run \notin D /\ \A u \in Teams : H[u] # r.run
      /\ \A r, q \in S : r.run = q.run => r = q
      /\ \A u \in Teams : H[u] \notin D
  BY DEF OneEach
<1>2. \A u \in Teams : G[u] = IF u = t THEN 0 ELSE H[u]
  OBVIOUS
<1>3. \A v, u \in Teams : v # u /\ G[v] # 0 => G[v] # G[u]
  BY <1>1, <1>2
<1>4. \A r \in S \cup {s} : r.run \notin E /\ \A u \in Teams : G[u] # r.run
  <2>1. ASSUME NEW r \in S PROVE r.run \notin E /\ \A u \in Teams : G[u] # r.run
    BY <1>1, <1>2
  <2>2. s.run \notin E
    BY <1>1
  <2>3. ASSUME NEW u \in Teams PROVE G[u] # s.run
    <3>1. CASE u = t
      BY <3>1
    <3>2. CASE u # t
      BY <1>1, <1>2, <3>2
    <3> QED
      BY <3>1, <3>2
  <2> QED
    BY <2>1, <2>2, <2>3
<1>5. \A r, q \in S \cup {s} : r.run = q.run => r = q
  <2>1. \A r \in S : r.run # s.run
    BY <1>1
  <2> QED
    BY <1>1, <2>1
<1>6. \A u \in Teams : G[u] \notin E
  BY <1>1, <1>2
<1> QED
  BY <1>3, <1>4, <1>5, <1>6 DEF OneEach

(* What a team that waits for the database has. *)
LEMMA WaitingMine ==
  ASSUME TeamsIInv, NEW t \in Teams, NEW x, x.kind # "none", x.kind = result[t].kind,
         x.kind = "save" => x.save = result[t].save,
         x.kind = "load" =>
           IF x.status = "success" THEN Members(g, t) \subseteq DOMAIN x.save.tees
           ELSE x.status = "pending" => Members(g, t) \subseteq x.who,
         NEW D
  PROVE  MineOk(Now0, t, x, D)
<1>1. /\ Settled /\ Results
  BY DEF TeamsIInv
<1>2. Now0.team = g.team /\ Now0.state = g.state /\ Now0.run = g.run /\ Now0.spoiled = g.spoiled
  BY Now0Same DEF IsNow
<1>3. Members(Now0, t) = Members(g, t)
  BY <1>2 DEF Members
<1>4. g.run[t] # 0 <=> g.state[t] \in Racing
  BY <1>1 DEF Settled
<1>5. result[t].kind = "save" =>
         /\ Members(g, t) \subseteq DOMAIN result[t].save.tees
         /\ g.run[t] \in {0, result[t].save.run}
  BY <1>1 DEF Results
<1> QED
  BY <1>2, <1>3, <1>4, <1>5 DEF MineOk

(* The worker of the database saves a run. *)
LEMMA WorkSaves ==
  ASSUME TeamsIInv, NEW t \in Teams \ {0}, result[t].kind = "save", result[t].status = "pending",
         result' = [result EXCEPT ![t] = WithStatus(@, "success")],
         saves' = saves \cup {result[t].save}, Becomes(Now0)
  PROVE  TeamsIInv'
<1>1. /\ result \in [Teams -> Answers] /\ saves \in SUBSET Records /\ done \in SUBSET (1..MaxRuns)
      /\ OneEach(Held, saves, done) /\ ForlornSaves(Saved, deserted)
  BY DEF TeamsIInv
<1>2. PICK s : s = result[t].save
  OBVIOUS
<1>3. /\ result'[t] = WithStatus(result[t], "success")
      /\ \A u \in Teams \ {t} : result'[u] = result[u]
  BY <1>1
<1>4. /\ s \in Records /\ result'[t] \in Answers /\ result'[t].kind = "save"
      /\ result'[t].status = "success" /\ result'[t].save = s
  BY <1>1, <1>2, <1>3, SaveAnswered
<1>5. result' \in [Teams -> Answers] /\ saves' \in SUBSET Records
  <2>1. WithStatus(result[t], "success") \in Answers
    BY <1>3, <1>4
  <2> QED
    BY <1>1, <1>2, <1>4, <2>1
<1>6. \A u \in Teams : Kind'[u] = Kind[u]
  BY <1>3, <1>4 DEF Kind
<1>7. Fine(Now0, {}, Kind)
  BY Now0Same DEF IsNow
<1>8. Kind' = Kind
  BY <1>6 DEF Kind
<1>9. OtherTeams(Now0, t)
  BY NowOthers
<1>10. IsKept(Now0, g') /\ done' \subseteq done /\ deserted' \subseteq deserted
  BY <1>9, QuietHistory
<1>11. \A u \in Teams \ {t} : Held'[u] = Held[u]
  BY <1>3, <1>7, <1>9, <1>10, OtherRuns
<1>12. Held[t] = s.run /\ Held'[t] = 0
  BY <1>2, <1>4 DEF Held
<1>13. s.run # 0 /\ 0 \notin done /\ \A r \in saves : r.run # 0
  BY <1>1, <1>4 DEF Records
<1>14. OneEach(Held', saves', done')
  BY <1>1, <1>2, <1>10, <1>11, <1>12, <1>13, OneEachSaved
<1>15. ForlornSaves(Saved', deserted')
  <2>1. s \in Saved
    BY <1>2, <1>12, <1>13 DEF Saved, Kind
  <2>2. saves' \subseteq Saved
    BY <1>2, <2>1 DEF Saved
  <2>3. \A u \in Teams \ {t} : result'[u] = result[u] /\ Held'[u] = Held[u]
    BY <1>3, <1>11
  <2>4. Kind'[t] # "none" /\ Held'[t] # 0 => ForlornSaves({result'[t].save}, deserted)
    BY <1>12
  <2> QED
    BY <1>1, <1>10, <2>2, <2>3, <2>4, SavedKept
<1>16. MineOk(Now0, t, result'[t], deserted')
  BY <1>2, <1>4, WaitingMine
<1> QED
  BY <1>3, <1>5, <1>7, <1>8, <1>9, <1>14, <1>15, <1>16, QuietStep

(* The worker of the database finds a save and takes it out of the table. *)
LEMMA WorkLoads ==
  ASSUME TeamsIInv, NEW t \in Teams \ {0}, result[t].kind = "load", result[t].status = "pending",
         NEW s \in saves, DOMAIN s.tees = result[t].who,
         result' = [result EXCEPT ![t] = [kind |-> "load", status |-> "success", save |-> s]],
         saves' = saves \ {s}, Becomes(Now0)
  PROVE  TeamsIInv'
<1>1. /\ result \in [Teams -> Answers] /\ saves \in SUBSET Records /\ Results
      /\ OneEach(Held, saves, done) /\ ForlornSaves(Saved, deserted)
  BY DEF TeamsIInv
<1>2. /\ result'[t] = [kind |-> "load", status |-> "success", save |-> s]
      /\ \A u \in Teams \ {t} : result'[u] = result[u]
  BY <1>1
<1>3. result' \in [Teams -> Answers] /\ saves' \in SUBSET Records
  <2>1. [kind |-> "load", status |-> "success", save |-> s] \in Answers
    BY <1>1 DEF Answers
  <2> QED
    BY <1>1, <2>1
<1>4. \A u \in Teams : Kind'[u] = Kind[u]
  BY <1>2 DEF Kind
<1>5. Fine(Now0, {}, Kind)
  BY Now0Same DEF IsNow
<1>6. Kind' = Kind
  BY <1>4 DEF Kind
<1>7. OtherTeams(Now0, t)
  BY NowOthers
<1>8. IsKept(Now0, g') /\ done' \subseteq done /\ deserted' \subseteq deserted
  BY <1>7, QuietHistory
<1>9. \A u \in Teams \ {t} : Held'[u] = Held[u]
  BY <1>2, <1>5, <1>7, <1>8, OtherRuns
<1>10. Held[t] = 0 /\ Held'[t] = s.run
  BY <1>2 DEF Held
<1>11. Takes(Held, Held', t, s.run)
  BY <1>9, <1>10 DEF Takes
<1>12. OneEach(Held', saves', done')
  <2>1. /\ s.run \notin done' /\ \A u \in Teams \ {t} : Held[u] # s.run
        /\ \A r \in saves' : r.run # s.run
    BY <1>1, <1>8 DEF OneEach
  <2>2. saves' \subseteq saves
    OBVIOUS
  <2> QED
    BY <1>1, <1>8, <1>11, <2>1, <2>2, OneEachTaken
<1>13. ForlornSaves(Saved', deserted')
  <2>1. saves' \subseteq Saved /\ s \in Saved
    BY DEF Saved
  <2>2. \A u \in Teams \ {t} : result'[u] = result[u] /\ Held'[u] = Held[u]
    BY <1>2, <1>9
  <2>3. ForlornSaves({s}, deserted)
    BY <1>1, <2>1 DEF ForlornSaves
  <2>4. Kind'[t] # "none" /\ Held'[t] # 0 => ForlornSaves({result'[t].save}, deserted)
    BY <1>2, <2>3
  <2> QED
    BY <1>1, <1>8, <2>1, <2>2, <2>4, SavedKept
<1>14. MineOk(Now0, t, result'[t], deserted')
  <2>1. Members(g, t) \subseteq DOMAIN s.tees
    BY <1>1 DEF Results
  <2> QED
    BY <1>2, <2>1, WaitingMine
<1> QED
  BY <1>2, <1>3, <1>5, <1>6, <1>7, <1>12, <1>13, <1>14, QuietStep

(* The worker of the database fails. *)
LEMMA WorkFails ==
  ASSUME TeamsIInv, NEW t \in Teams \ {0}, result[t].kind # "none", result[t].status = "pending",
         result' = [result EXCEPT ![t] = WithStatus(@, "failed")],
         saves' = saves, Becomes(Now0)
  PROVE  TeamsIInv'
<1>1. /\ result \in [Teams -> Answers] /\ saves \in SUBSET Records
      /\ ForlornSaves(Saved, deserted)
  BY DEF TeamsIInv
<1>2. /\ result'[t] = WithStatus(result[t], "failed")
      /\ \A u \in Teams \ {t} : result'[u] = result[u]
  BY <1>1
<1>3. result[t] \in Answers /\ result[t].kind \in {"save", "load"}
  <2>1. \A x \in Answers : x.kind \in {"none", "save", "load"}
    BY DEF Answers, NoResult
  <2> QED
    BY <1>1, <2>1
<1>4. /\ result'[t] \in Answers /\ result'[t].kind = result[t].kind
      /\ result'[t].status = "failed"
      /\ result[t].kind = "save" => result'[t].save = result[t].save
  <2>1. CASE result[t].kind = "save"
    BY <1>2, <1>3, <2>1, SaveAnswered
  <2>2. CASE result[t].kind = "load"
    BY <1>2, <1>3, <2>2, LoadAnswered
  <2> QED
    BY <1>3, <2>1, <2>2
<1>5. result' \in [Teams -> Answers] /\ saves' \in SUBSET Records
  <2>1. WithStatus(result[t], "failed") \in Answers
    BY <1>2, <1>4
  <2> QED
    BY <1>1, <2>1
<1>6. \A u \in Teams : Kind'[u] = Kind[u]
  BY <1>2, <1>4 DEF Kind
<1>7. Fine(Now0, {}, Kind)
  BY Now0Same DEF IsNow
<1>8. Kind' = Kind
  BY <1>6 DEF Kind
<1>9. OtherTeams(Now0, t)
  BY NowOthers
<1>10. Held'[t] = Held[t]
  BY <1>3, <1>4 DEF Held
<1>11. Kind'[t] # "none" /\ Held'[t] # 0 => ForlornSaves({result'[t].save}, deserted)
  <2> SUFFICES ASSUME Held[t] # 0 PROVE ForlornSaves({result'[t].save}, deserted)
    BY <1>10
  <2>1. result[t].kind = "save"
    BY <1>3 DEF Held
  <2>2. result[t].save \in Saved
    BY <2>1 DEF Saved, Kind
  <2>3. ForlornSaves({result[t].save}, deserted)
    BY <1>1, <2>2 DEF ForlornSaves
  <2> QED
    BY <1>4, <2>1, <2>3
<1>12. OneEach(Held', saves', done') /\ ForlornSaves(Saved', deserted')
  BY <1>2, <1>7, <1>9, <1>10, <1>11, HeldStays
<1>13. MineOk(Now0, t, result'[t], deserted')
  BY <1>3, <1>4, WaitingMine
<1> QED
  BY <1>2, <1>5, <1>7, <1>8, <1>9, <1>12, <1>13, QuietStep

(* The worker of the database. *)
LEMMA WorkStep ==
  ASSUME TeamsIInv, NEW t \in Teams \ {0}, Work(t)
  PROVE  TeamsIInv'
<1>1. result[t].kind # "none" /\ result[t].status = "pending" /\ Becomes(Now0)
  BY DEF Work, GetSaving
<1>2. CASE /\ result[t].kind = "save" /\ saves' = saves \cup {result[t].save}
           /\ result' = [result EXCEPT ![t].status = "success"]
  <2>1. result' = [result EXCEPT ![t] = WithStatus(@, "success")]
    BY <1>2 DEF WithStatus
  <2> QED
    BY <1>1, <1>2, <2>1, WorkSaves
<1>3. ASSUME result[t].kind = "load", NEW s \in saves, DOMAIN s.tees = result[t].who,
             result' = [result EXCEPT ![t] = [kind |-> "load", status |-> "success", save |-> s]],
             saves' = saves \ {s}
      PROVE  TeamsIInv'
  BY <1>1, <1>3, WorkLoads
<1>4. CASE result' = [result EXCEPT ![t].status = "failed"] /\ saves' = saves
  <2>1. result' = [result EXCEPT ![t] = WithStatus(@, "failed")]
    BY <1>4 DEF WithStatus
  <2> QED
    BY <1>1, <1>4, <2>1, WorkFails
<1> QED
  BY <1>2, <1>3, <1>4 DEF Work

\* the answer for t is taken, and nothing is asked any more
Taken(t, K) == Kind[t] # "none" /\ K[t] = "none" /\ \A u \in Teams \ {t} : K[u] = Kind[u]

(* The tees of a team are all that is not in order when it waits no more. *)
LEMMA TakenKeeps ==
  ASSUME NEW a, Fine(a, {}, Kind), NEW t \in Teams \ {0}, NEW K, Taken(t, K)
  PROVE  /\ Fine(a, Members(a, t), K)
         /\ \A c \in Members(a, t) : a.tee[c] = "alive" =>
              /\ a.race[c] # "started" /\ a.path[c] # "practice"
              /\ a.state[t] # "finished" => a.race[c] = "none"
<1>1. /\ a \in Games /\ Peopled(a) /\ Waiting(a, Kind) /\ Even(a, Kind)
      /\ \A c \in Clients : FlagsOk(a, c, Kind) /\ RaceOk(a, c, Kind)
  BY DEF Fine
<1>2. Kind[t] # "none" /\ K[t] = "none" /\ \A u \in Teams \ {t} : K[u] = Kind[u]
  BY DEF Taken
<1>3. ~a.practice[t]
  BY <1>1, <1>2 DEF Waiting
<1>4. ASSUME NEW c \in Members(a, t), a.tee[c] = "alive"
      PROVE  /\ a.race[c] # "started" /\ a.path[c] # "practice"
             /\ a.state[t] # "finished" => a.race[c] = "none"
  <2>1. c \in Clients /\ a.team[c] = t /\ RaceOk(a, c, Kind)
    BY <1>1 DEF Members
  <2> QED
    BY <1>2, <1>3, <1>4, <2>1 DEF RaceOk
<1>5. Waiting(a, K)
  BY <1>1, <1>2 DEF Waiting
<1>6. Even(a, K)
  <2> SUFFICES ASSUME NEW u \in Teams \ {0}, a.state[u] = "started", ~a.practice[u],
                      K[u] = "none", ~a.spoiled[u], NEW d \in Alive(a, u), NEW e \in Alive(a, u)
               PROVE  a.race[d] = a.race[e]
    BY DEF Even
  <2>1. CASE u = t
    BY <1>4, <2>1 DEF Alive
  <2>2. CASE u # t
    BY <1>1, <1>2, <2>2 DEF Even
  <2> QED
    BY <2>1, <2>2
<1>7. ASSUME NEW c \in Clients \ Members(a, t) PROVE FlagsOk(a, c, K) /\ RaceOk(a, c, K)
  <2>1. a.team[c] \in Teams \ {t}
    BY <1>1 DEF Games, Members
  <2>2. K[a.team[c]] = Kind[a.team[c]]
    BY <1>2, <2>1
  <2>3. FlagsOk(a, c, Kind) /\ RaceOk(a, c, Kind)
    BY <1>1
  <2> QED
    BY <2>2, <2>3, KindSame
<1> QED
  BY <1>1, <1>4, <1>5, <1>6, <1>7 DEF Fine

\* q comes of a when the members of t up to n have gone to team 0
ResetTo(a, t, n, q, K) ==
  /\ Fine(q, {d \in Members(a, t) : d > n}, K)
  /\ q.run = a.run
  /\ q.spoiled = a.spoiled /\ q.ranked = a.ranked /\ q.tee = a.tee
  /\ q.race = a.race /\ q.path = a.path
  /\ \A d \in Clients : q.team[d] = IF a.team[d] = t /\ d <= n THEN 0 ELSE a.team[d]
  /\ \A u \in Teams \ {0, t} : q.state[u] = a.state[u] /\ (q.practice[u] <=> a.practice[u])

(* A member goes to team 0. *)
LEMMA ResetOne ==
  ASSUME NEW a, a \in Games, NEW t \in Teams \ {0}, NEW K,
         \A c \in Members(a, t) :
           a.tee[c] = "alive" => a.race[c] # "started" /\ a.path[c] # "practice",
         NEW n \in Clients, NEW q, ResetTo(a, t, n - 1, q, K), q.team[n] = t,
         NEW r, r = SetForceCharacterTeam(q, n, 0)
  PROVE  ResetTo(a, t, n, r, K)
<1> DEFINE D == {d \in Members(a, t) : d > n - 1}
           E == {d \in Members(a, t) : d > n}
<1>1. /\ Fine(q, D, K)
      /\ q.run = a.run
      /\ q.spoiled = a.spoiled /\ q.ranked = a.ranked /\ q.tee = a.tee
      /\ q.race = a.race /\ q.path = a.path
      /\ \A d \in Clients : q.team[d] = IF a.team[d] = t /\ d <= n - 1 THEN 0 ELSE a.team[d]
      /\ \A u \in Teams \ {0, t} : q.state[u] = a.state[u] /\ (q.practice[u] <=> a.practice[u])
  BY DEF ResetTo
<1>2. q \in Games /\ Peopled(q)
  BY <1>1 DEF Fine
<1>3. 0 \in Teams /\ n \in Clients
  BY ClientsFacts
<1>4. /\ r.team[n] = 0 /\ \A d \in Clients \ {n} : r.team[d] = q.team[d]
      /\ r.tee = q.tee /\ r.race = q.race /\ r.path = q.path
      /\ r.run = q.run /\ r.spoiled = q.spoiled /\ r.ranked = q.ranked
  BY <1>2, <1>3, ForceFields
<1>5. Clients \subseteq Int
  BY DEF Clients
<1>6. n \in Members(a, t) /\ n \in D /\ D \ E = {n} /\ D \cup {n} = D
  <2>1. a.team[n] = t
    BY <1>1
  <2>2. n \in Members(a, t)
    BY <2>1 DEF Members
  <2>3. Members(a, t) \subseteq Int /\ n \in Int
    BY <1>5 DEF Members
  <2> QED
    BY <2>2, <2>3
<1> HIDE DEF D, E
<1>7. Fine(r, D \cup {n}, K)
  BY <1>1, <1>3, ForceKeeps
<1>8. Fine(r, D, K)
  BY <1>6, <1>7
<1>9. FlagsOk(r, n, K) /\ RaceOk(r, n, K)
  <2>1. r.tee[n] = "alive" => r.race[n] # "started" /\ r.path[n] # "practice"
    BY <1>1, <1>4, <1>6
  <2>2. ~r.practice[0]
    BY <1>3, <1>8 DEF Fine, Peopled
  <2> QED
    BY <1>4, <2>1, <2>2, OutOfTeams
<1>10. Fine(r, E, K)
  BY <1>6, <1>8, <1>9, FineLess
<1>11. \A d \in Clients : r.team[d] = IF a.team[d] = t /\ d <= n THEN 0 ELSE a.team[d]
  <2> SUFFICES ASSUME NEW d \in Clients
               PROVE  r.team[d] = IF a.team[d] = t /\ d <= n THEN 0 ELSE a.team[d]
    OBVIOUS
  <2>1. CASE d = n
    <3>1. a.team[n] = t /\ n <= n
      BY <1>5, <1>6 DEF Members
    <3> QED
      BY <1>4, <2>1, <3>1
  <2>2. CASE d # n
    <3>1. d <= n <=> d <= n - 1
      BY <1>5, <2>2
    <3> QED
      BY <1>1, <1>4, <2>2, <3>1
  <2> QED
    BY <2>1, <2>2
<1>12. ASSUME NEW u \in Teams \ {0, t}
       PROVE  r.state[u] = a.state[u] /\ (r.practice[u] <=> a.practice[u])
  <2>1. /\ \/ r.state[u] = q.state[u]
           \/ r.state[u] = "empty" /\ u = q.team[n]
           \/ u = 0 /\ q.state[u] = "empty" /\ r.state[u] = "open"
        /\ r.practice[u] <=> q.practice[u] /\ r.state[u] # "empty"
    BY <1>2, <1>3, ForceTeams
  <2>2. q.state[u] = "empty" => ~q.practice[u]
    BY <1>2 DEF Peopled
  <2>3. r.state[u] = q.state[u] /\ (r.practice[u] <=> q.practice[u])
    BY <2>1, <2>2
  <2> QED
    BY <1>1, <2>3
<1>13. Fine(r, {d \in Members(a, t) : d > n}, K)
  BY <1>10 DEF E
<1> QED
  BY <1>1, <1>4, <1>11, <1>12, <1>13 DEF ResetTo

(* ResetSavedTeam takes all members to team 0. *)
LEMMA ResetKeeps ==
  ASSUME NEW a, Fine(a, {}, Kind), NEW t \in Teams \ {0}, NEW K, Taken(t, K),
         NEW r, r = ResetSavedTeam(a, t)
  PROVE  ResetTo(a, t, NumClients, r, K) /\ Fine(r, {}, K)
<1> DEFINE Good(n) == {q \in Games : ResetTo(a, t, n, q, K)}
           S == [n \in 0..NumClients |-> Good(n)]
           Pass(q, n) == IF q.team[n] = t THEN SetForceCharacterTeam(q, n, 0) ELSE q
<1>1. NumClients \in Nat /\ Clients = 1..NumClients
  BY TeamsAssumption DEF Clients
<1>2. /\ Fine(a, Members(a, t), K) /\ a \in Games
      /\ \A c \in Members(a, t) :
           a.tee[c] = "alive" => a.race[c] # "started" /\ a.path[c] # "practice"
  BY TakenKeeps DEF Fine
<1>3. a \in Good(0)
  <2>1. \A d \in Clients : d > 0 /\ ~(d <= 0)
    BY <1>1
  <2>2. {d \in Members(a, t) : d > 0} = Members(a, t)
    BY <2>1 DEF Members
  <2>3. ResetTo(a, t, 0, a, K)
    BY <1>2, <2>1, <2>2 DEF ResetTo
  <2> QED
    BY <1>2, <2>3
<1>4. ASSUME NEW n \in 1..NumClients, NEW q \in Good(n - 1) PROVE Pass(q, n) \in Good(n)
  <2>1. ResetTo(a, t, n - 1, q, K) /\ n \in Clients /\ q \in Games
    BY <1>1
  <2>2. CASE q.team[n] = t
    <3> DEFINE p == SetForceCharacterTeam(q, n, 0)
    <3>1. p = SetForceCharacterTeam(q, n, 0) /\ Pass(q, n) = p
      BY <2>2
    <3> HIDE DEF p, Pass
    <3>2. ResetTo(a, t, n, p, K)
      BY <1>2, <2>1, <2>2, <3>1, ResetOne
    <3>3. p \in Games
      BY <3>2 DEF ResetTo, Fine
    <3> QED
      BY <3>1, <3>2, <3>3
  <2>3. CASE q.team[n] # t
    <3>1. a.team[n] # t
      <4>1. q.team[n] = IF a.team[n] = t /\ n <= n - 1 THEN 0 ELSE a.team[n]
        BY <2>1 DEF ResetTo
      <4>2. ~(n <= n - 1)
        BY <1>1
      <4> QED
        BY <2>3, <4>1, <4>2
    <3>2. \A d \in Clients : a.team[d] = t => (d <= n <=> d <= n - 1) /\ (d > n <=> d > n - 1)
      BY <1>1, <3>1
    <3>3. {d \in Members(a, t) : d > n} = {d \in Members(a, t) : d > n - 1}
      BY <3>2 DEF Members
    <3>4. ResetTo(a, t, n, q, K)
      BY <2>1, <3>2, <3>3 DEF ResetTo
    <3>5. Pass(q, n) = q
      BY <2>3
    <3> QED
      BY <2>1, <3>4, <3>5
  <2> QED
    BY <2>2, <2>3
<1>5. S \in [0..NumClients -> SUBSET Games]
  OBVIOUS
<1>6. a \in S[0]
  BY <1>1, <1>3
<1>7. \A n \in 1..NumClients : \A q \in S[n - 1] : Pass(q, n) \in S[n]
  <2>1. \A n \in 1..NumClients : S[n - 1] = Good(n - 1) /\ S[n] = Good(n)
    BY <1>1
  <2> HIDE DEF S, Good, Pass
  <2> QED
    BY <2>1, <1>4
<1>8. S[NumClients] = Good(NumClients)
  BY <1>1
<1> HIDE DEF S
<1>9. ResetSavedTeam(a, t) \in S[NumClients]
  BY <1>5, <1>6, <1>7, ResetLoop
<1>10. ResetTo(a, t, NumClients, r, K)
  BY <1>8, <1>9
<1>11. {d \in Members(a, t) : d > NumClients} = {}
  BY <1>1 DEF Members
<1>12. Fine(r, {}, K)
  BY <1>10, <1>11 DEF ResetTo
<1> QED
  BY <1>10, <1>12

(* A team that is reset leaves the others as they are. *)
LEMMA ResetOthers ==
  ASSUME NEW a, IsNow(a), NEW t \in Teams \ {0}, NEW K, Taken(t, K),
         NEW r, r = ResetSavedTeam(a, t)
  PROVE  Fine(r, {}, K) /\ OtherTeams(r, t) /\ r.state[t] = "empty"
<1>1. /\ a \in Games /\ Fine(a, {}, Kind) /\ a.team = g.team /\ a.tee = g.tee /\ a.race = g.race
      /\ a.state = g.state /\ a.practice = g.practice /\ a.run = g.run
      /\ a.spoiled = g.spoiled /\ a.ranked = NoRank
  BY DEF IsNow
<1>2. ResetTo(a, t, NumClients, r, K) /\ Fine(r, {}, K)
  BY <1>1, ResetKeeps
<1>3. \A d \in Clients : d <= NumClients
  BY TeamsAssumption DEF Clients
<1>4. /\ r.run = g.run
      /\ r.spoiled = g.spoiled /\ r.ranked = NoRank /\ r.tee = g.tee /\ r.race = g.race
      /\ \A d \in Clients : r.team[d] = IF g.team[d] = t THEN 0 ELSE g.team[d]
      /\ \A u \in Teams \ {0, t} : r.state[u] = g.state[u] /\ (r.practice[u] <=> g.practice[u])
  BY <1>1, <1>2, <1>3 DEF ResetTo
<1>5. r \in Games /\ Peopled(r)
  BY <1>2 DEF Fine
<1>6. Members(r, t) = {}
  BY <1>4 DEF Members
<1>7. r.state[t] = "empty"
  BY <1>5, <1>6 DEF Peopled
<1>8. ASSUME NEW u \in Teams \ {0, t}
      PROVE  /\ r.state[u] = g.state[u] /\ r.practice[u] = g.practice[u]
             /\ r.spoiled[u] = g.spoiled[u]
             /\ Members(r, u) = Members(g, u) /\ Alive(r, u) = Alive(g, u)
             /\ \A c \in Alive(g, u) : r.race[c] = g.race[c]
  <2>1. r.practice[u] \in BOOLEAN /\ g.practice[u] \in BOOLEAN
    BY <1>1, <1>5 DEF Games
  <2>2. Members(r, u) = Members(g, u)
    BY <1>4 DEF Members
  <2>3. Alive(r, u) = Alive(g, u)
    BY <1>4, <2>2 DEF Alive
  <2> QED
    BY <1>4, <2>1, <2>2, <2>3
<1>9. \A c \in Clients : Kind[g.team[c]] = "none" => r.team[c] = g.team[c]
  BY <1>4 DEF Taken
<1>10. OtherTeams(r, t)
  BY <1>4, <1>5, <1>8, <1>9 DEF OtherTeams
<1> QED
  BY <1>2, <1>7, <1>10

\* the team t races with the lock, the run, the tees and what they had
LoadedPut(h, t, locked, spoiled, run, tee, race, started, finished, path) ==
  [h EXCEPT !.state[t] = "started", !.locked[t] = locked, !.practice[t] = FALSE, !.run[t] = run,
            !.spoiled[t] = spoiled, !.tee = tee, !.race = race, !.started = started,
            !.finished = finished, !.path = path]

\* r is h, where the team t has got all that
IsLoadedPut(h, t, locked, spoiled, run, tee, race, started, finished, path, r) ==
  /\ r \in Games /\ r.team = h.team /\ r.kill = h.kill /\ r.ranked = h.ranked
  /\ r.tee = tee /\ r.race = race /\ r.started = started /\ r.finished = finished /\ r.path = path
  /\ r.state[t] = "started" /\ ~r.practice[t] /\ r.run[t] = run
  /\ r.spoiled[t] = spoiled
  /\ \A u \in Teams \ {t} :
       /\ r.state[u] = h.state[u] /\ r.locked[u] = h.locked[u]
       /\ r.practice[u] = h.practice[u] /\ r.run[u] = h.run[u]
       /\ r.spoiled[u] = h.spoiled[u]

(* A team gets all that it had. *)
LEMMA LoadedPutFields ==
  ASSUME NEW h \in Games, NEW t \in Teams, NEW locked \in BOOLEAN,
         NEW spoiled \in BOOLEAN, NEW run \in 0..MaxRuns,
         NEW tee \in [Clients -> {"out", "dead", "corpse", "alive"}],
         NEW race \in [Clients -> {"none", "started", "finished"}],
         NEW started \in [Clients -> BOOLEAN], NEW finished \in [Clients -> BOOLEAN],
         NEW path \in [Clients -> {"spawn", "start", "finish", "practice"}],
         NEW r, r = LoadedPut(h, t, locked, spoiled, run, tee, race, started, finished, path)
  PROVE  IsLoadedPut(h, t, locked, spoiled, run, tee, race, started, finished, path, r)
<1>1. /\ r \in Games /\ r.team = h.team /\ r.kill = h.kill /\ r.ranked = h.ranked
      /\ r.tee = tee /\ r.race = race /\ r.started = started /\ r.finished = finished
      /\ r.path = path
      /\ r.state = [h.state EXCEPT ![t] = "started"]
      /\ r.locked = [h.locked EXCEPT ![t] = locked]
      /\ r.practice = [h.practice EXCEPT ![t] = FALSE]
      /\ r.spoiled = [h.spoiled EXCEPT ![t] = spoiled]
      /\ r.run = [h.run EXCEPT ![t] = run]
  BY DEF Games, LoadedPut
<1>2. /\ h.state \in [Teams -> {"empty", "open", "started", "unfinishable", "finished"}]
      /\ h.locked \in [Teams -> BOOLEAN] /\ h.practice \in [Teams -> BOOLEAN]
      /\ h.run \in [Teams -> 0..MaxRuns] /\ h.spoiled \in [Teams -> BOOLEAN]
  BY DEF Games
<1>3. /\ r.state[t] = "started" /\ ~r.practice[t] /\ r.run[t] = run
      /\ r.spoiled[t] = spoiled
      /\ \A u \in Teams \ {t} :
           /\ r.state[u] = h.state[u] /\ r.locked[u] = h.locked[u]
           /\ r.practice[u] = h.practice[u] /\ r.run[u] = h.run[u]
           /\ r.spoiled[u] = h.spoiled[u]
  BY <1>1, <1>2
<1> QED
  BY <1>1, <1>3 DEF IsLoadedPut

(* What a save holds. *)
LEMMA RecordFacts ==
  ASSUME NEW s, s \in Records
  PROVE  /\ s.run \in 1..MaxRuns /\ s.locked \in BOOLEAN /\ s.spoiled \in BOOLEAN /\ SaveOk(s)
         /\ \A c \in DOMAIN s.tees :
              /\ s.tees[c].race \in {"none", "started", "finished"}
              /\ s.tees[c].started \in BOOLEAN /\ s.tees[c].finished \in BOOLEAN
              /\ s.tees[c].path \in {"spawn", "start", "finish", "practice"}
<1>1. /\ s \in [run : 1..MaxRuns, locked : BOOLEAN, spoiled : BOOLEAN,
                tees : UNION {[S -> Passages] : S \in SUBSET Clients}]
      /\ SaveOk(s)
  BY DEF Records
<1>2. PICK S \in SUBSET Clients : s.tees \in [S -> Passages]
  BY <1>1
<1>3. DOMAIN s.tees = S /\ \A c \in S : s.tees[c] \in Passages
  BY <1>2
<1>4. \A x \in Passages :
        /\ x.race \in {"none", "started", "finished"}
        /\ x.started \in BOOLEAN /\ x.finished \in BOOLEAN
        /\ x.path \in {"spawn", "start", "finish", "practice"}
  BY DEF Passages
<1> QED
  BY <1>1, <1>3, <1>4

\* the members of t are back with what they had in s
HasLoaded(h, t, s, r) ==
  /\ Aside(h, r, t)
  /\ r.state[t] = "started" /\ ~r.practice[t] /\ r.run[t] = s.run /\ r.spoiled[t] = s.spoiled
  /\ \A c \in Members(r, t) :
       /\ c \in DOMAIN s.tees /\ r.tee[c] = "alive" /\ r.race[c] = s.tees[c].race
       /\ (r.started[c] <=> s.tees[c].started) /\ (r.finished[c] <=> s.tees[c].finished)
       /\ r.path[c] = s.tees[c].path

(* What Load does, when all members are in the save. *)
LEMMA LoadFields ==
  ASSUME NEW h, h \in Games, NEW t \in Teams \ {0}, NEW s, s \in Records,
         Members(h, t) \subseteq DOMAIN s.tees, NEW r, r = Load(h, t, s)
  PROVE  HasLoaded(h, t, s, r)
<1>1. PICK cs : cs = Members(h, t)
  OBVIOUS
<1> DEFINE back == DOMAIN s.tees \cap Members(h, t)
           tee == [c \in Clients |-> IF c \in back THEN "alive" ELSE h.tee[c]]
           race == [c \in Clients |-> IF c \in back THEN s.tees[c].race ELSE h.race[c]]
           started == [c \in Clients |-> IF c \in back THEN s.tees[c].started ELSE h.started[c]]
           finished == [c \in Clients |-> IF c \in back THEN s.tees[c].finished ELSE h.finished[c]]
           path == [c \in Clients |-> IF c \in back THEN s.tees[c].path ELSE h.path[c]]
<1>2. r = LoadedPut(h, t, s.locked, s.spoiled, s.run, tee, race, started, finished, path)
  BY DEF Load, LoadedPut
<1>3. back = cs
  BY <1>1
<1> HIDE DEF back
<1>4. /\ s.run \in 0..MaxRuns /\ s.locked \in BOOLEAN /\ s.spoiled \in BOOLEAN
      /\ cs \subseteq DOMAIN s.tees
      /\ \A c \in DOMAIN s.tees :
           /\ s.tees[c].race \in {"none", "started", "finished"}
           /\ s.tees[c].started \in BOOLEAN /\ s.tees[c].finished \in BOOLEAN
           /\ s.tees[c].path \in {"spawn", "start", "finish", "practice"}
  BY <1>1, RecordFacts, ClientsFacts
<1>5. /\ h.tee \in [Clients -> {"out", "dead", "corpse", "alive"}]
      /\ h.race \in [Clients -> {"none", "started", "finished"}]
      /\ h.started \in [Clients -> BOOLEAN] /\ h.finished \in [Clients -> BOOLEAN]
      /\ h.path \in [Clients -> {"spawn", "start", "finish", "practice"}]
      /\ h.state \in [Teams -> {"empty", "open", "started", "unfinishable", "finished"}]
      /\ h.locked \in [Teams -> BOOLEAN] /\ h.practice \in [Teams -> BOOLEAN]
      /\ h.run \in [Teams -> 0..MaxRuns] /\ h.spoiled \in [Teams -> BOOLEAN]
  BY DEF Games
<1>6. tee \in [Clients -> {"out", "dead", "corpse", "alive"}]
  BY <1>5
<1>7. race \in [Clients -> {"none", "started", "finished"}]
  BY <1>3, <1>4, <1>5
<1>8. started \in [Clients -> BOOLEAN]
  BY <1>3, <1>4, <1>5
<1>9. finished \in [Clients -> BOOLEAN]
  BY <1>3, <1>4, <1>5
<1>10. path \in [Clients -> {"spawn", "start", "finish", "practice"}]
  BY <1>3, <1>4, <1>5
<1>11. \A c \in Clients :
         /\ c \in cs => tee[c] = "alive" /\ race[c] = s.tees[c].race /\ path[c] = s.tees[c].path
         /\ c \notin cs => tee[c] = h.tee[c] /\ race[c] = h.race[c] /\ path[c] = h.path[c]
  BY <1>3
<1>12. \A c \in Clients :
         /\ c \in cs => started[c] = s.tees[c].started /\ finished[c] = s.tees[c].finished
         /\ c \notin cs => started[c] = h.started[c] /\ finished[c] = h.finished[c]
  BY <1>3
<1> HIDE DEF tee, race, started, finished, path
<1>13. IsLoadedPut(h, t, s.locked, s.spoiled, s.run, tee, race, started, finished, path, r)
  <2>1. h \in Games /\ t \in Teams
    OBVIOUS
  <2>2. PICK locked \in BOOLEAN, spoiled \in BOOLEAN, run \in 0..MaxRuns :
          locked = s.locked /\ spoiled = s.spoiled /\ run = s.run
    BY <1>4
  <2>3. r = LoadedPut(h, t, locked, spoiled, run, tee, race, started, finished, path)
    BY <1>2, <2>2
  <2>4. IsLoadedPut(h, t, locked, spoiled, run, tee, race, started, finished, path, r)
    BY <1>6, <1>7, <1>8, <1>9, <1>10, <2>1, <2>3, LoadedPutFields
  <2> QED
    BY <2>2, <2>4
<1>14. /\ r \in Games /\ r.team = h.team /\ r.kill = h.kill /\ r.ranked = h.ranked
       /\ r.tee = tee /\ r.race = race /\ r.started = started /\ r.finished = finished
       /\ r.path = path
       /\ r.state[t] = "started" /\ ~r.practice[t] /\ r.run[t] = s.run
       /\ r.spoiled[t] = s.spoiled
       /\ \A u \in Teams \ {t} :
            /\ r.state[u] = h.state[u] /\ r.locked[u] = h.locked[u]
            /\ r.practice[u] = h.practice[u] /\ r.run[u] = h.run[u]
            /\ r.spoiled[u] = h.spoiled[u]
  BY <1>13 DEF IsLoadedPut
<1>15. Aside(h, r, t)
  <2>1. \A c \in Clients : h.team[c] # t => c \notin cs
    BY <1>1 DEF Members
  <2>2. \A c \in Clients : h.team[c] # t =>
          /\ r.tee[c] = h.tee[c] /\ r.race[c] = h.race[c] /\ r.path[c] = h.path[c]
          /\ r.started[c] = h.started[c] /\ r.finished[c] = h.finished[c]
    BY <1>11, <1>12, <1>14, <2>1
  <2> QED
    BY <1>14, <2>2 DEF Aside
<1>16. ASSUME NEW c \in Members(r, t)
       PROVE  /\ c \in DOMAIN s.tees /\ r.tee[c] = "alive" /\ r.race[c] = s.tees[c].race
              /\ (r.started[c] <=> s.tees[c].started) /\ (r.finished[c] <=> s.tees[c].finished)
              /\ r.path[c] = s.tees[c].path
  <2>1. c \in cs /\ c \in Clients
    BY <1>1, <1>14 DEF Members
  <2> QED
    BY <1>4, <1>11, <1>12, <1>14, <2>1
<1> QED
  BY <1>14, <1>15, <1>16 DEF HasLoaded

(* A team that is loaded is in order. *)
LEMMA LoadKeeps ==
  ASSUME NEW a, Fine(a, {}, Kind), NEW t \in Teams \ {0}, NEW K, Taken(t, K), Members(a, t) # {},
         NEW s, s \in Records, NEW r, HasLoaded(a, t, s, r)
  PROVE  Fine(r, {}, K)
<1>1. /\ Aside(a, r, t)
      /\ r.state[t] = "started" /\ ~r.practice[t] /\ r.spoiled[t] = s.spoiled
      /\ \A c \in Members(r, t) :
           /\ c \in DOMAIN s.tees /\ r.tee[c] = "alive" /\ r.race[c] = s.tees[c].race
           /\ (r.started[c] <=> s.tees[c].started) /\ (r.finished[c] <=> s.tees[c].finished)
           /\ r.path[c] = s.tees[c].path
  BY DEF HasLoaded
<1>2. K[t] = "none" /\ \A u \in Teams \ {t} : K[u] = Kind[u]
  BY DEF Taken
<1>3. \A c \in DOMAIN s.tees :
        /\ s.tees[c].path # "practice"
        /\ ~s.spoiled =>
             /\ s.tees[c].finished => s.tees[c].started
             /\ s.tees[c].finished => s.tees[c].path = "finish" /\ s.tees[c].race # "none"
             /\ s.tees[c].started => s.tees[c].path \in {"start", "finish"}
             /\ s.tees[c].race \in {"none", "started"}
             /\ \A d \in DOMAIN s.tees : s.tees[d].race = s.tees[c].race
  BY RecordFacts DEF SaveOk
<1>4. ASSUME NEW c \in Members(r, t) PROVE FlagsOk(r, c, K) /\ RaceOk(r, c, K)
  <2>1. /\ r.team[c] = t /\ r.tee[c] = "alive" /\ r.path[c] # "practice"
        /\ ~r.spoiled[t] =>
             /\ r.finished[c] => r.started[c]
             /\ r.finished[c] => r.path[c] = "finish" /\ r.race[c] # "none"
             /\ r.started[c] => r.path[c] \in {"start", "finish"}
             /\ r.race[c] \in {"none", "started"}
    BY <1>1, <1>3 DEF Members
  <2>2. FlagsOk(r, c, K)
    BY <1>1, <2>1 DEF FlagsOk
  <2>3. RaceOk(r, c, K)
    BY <1>1, <1>2, <2>1 DEF RaceOk
  <2> QED
    BY <2>2, <2>3
<1>5. ~r.spoiled[t] => \A c, d \in Alive(r, t) : r.race[c] = r.race[d]
  BY <1>1, <1>3 DEF Alive
<1>6. Members(r, t) # {}
  BY <1>1 DEF Aside, Members
<1>7. TeamOk(r, t, K)
  BY <1>1, <1>2, <1>4, <1>5, <1>6 DEF TeamOk
<1> QED
  BY <1>1, <1>2, <1>7, TeamKeeps

\* h is what becomes of the team t when its answer is taken, and K is asked then
Ends(h, t, K) ==
  /\ OtherTeams(h, t) /\ Fine(h, {}, K)
  /\ h.state[t] \in Racing =>
       /\ h.run[t] # 0 /\ h.run[t] = Held[t]
       /\ ~h.spoiled[t] /\ h.run[t] \in deserted => \A c \in Alive(h, t) : h.race[c] = "none"

(* The run was saved: all members go to team 0. *)
LEMMA ResetEnds ==
  ASSUME TeamsIInv, NEW t \in Teams \ {0}, NEW K, Taken(t, K),
         NEW h, h = ResetSavedTeam(Now0, t)
  PROVE  Ends(h, t, K)
<1>1. IsNow(Now0)
  BY Now0Same
<1>2. Fine(h, {}, K) /\ OtherTeams(h, t) /\ h.state[t] = "empty"
  BY <1>1, ResetOthers
<1> QED
  BY <1>2 DEF Ends, Racing

(* Nothing came back, or nobody is there to get it. *)
LEMMA NothingEnds ==
  ASSUME TeamsIInv, NEW t \in Teams \ {0}, NEW K, Taken(t, K),
         Members(g, t) = {} \/ g.state[t] \in {"empty", "open"}
  PROVE  Ends(Now0, t, K)
<1>1. PICK a : a = Now0 /\ IsNow(a)
  BY Now0Same
<1>2. /\ Fine(a, {}, Kind) /\ a.team = g.team /\ a.state = g.state /\ Peopled(a)
      /\ \A c \in Clients : FlagsOk(a, c, Kind) /\ RaceOk(a, c, Kind)
  BY <1>1 DEF IsNow, Fine
<1>3. Members(a, t) = Members(g, t)
  BY <1>2 DEF Members
<1>4. a.state[t] \in {"empty", "open"}
  BY <1>2, <1>3 DEF Peopled
<1>5. /\ Fine(a, Members(a, t), K)
      /\ \A c \in Members(a, t) : a.tee[c] = "alive" => a.race[c] = "none" /\ a.path[c] # "practice"
  BY <1>2, <1>4, TakenKeeps
<1>6. ASSUME NEW c \in Members(a, t) PROVE FlagsOk(a, c, K) /\ RaceOk(a, c, K)
  <2>1. /\ c \in Clients /\ a.team[c] = t
        /\ FlagsOk(a, c, Kind) /\ RaceOk(a, c, Kind)
        /\ a.tee[c] = "alive" => a.race[c] = "none" /\ a.path[c] # "practice"
    BY <1>2, <1>5 DEF Members
  <2>2. a.state[t] = "open"
    BY <1>2, <1>4 DEF Peopled
  <2>3. ~a.spoiled[t] => ~a.started[c] /\ ~a.finished[c]
    BY <2>1, <2>2 DEF FlagsOk
  <2>4. FlagsOk(a, c, K)
    BY <2>1, <2>2, <2>3 DEF FlagsOk
  <2>5. RaceOk(a, c, K)
    BY <2>1, <2>2, <2>3 DEF RaceOk, Racing
  <2> QED
    BY <2>4, <2>5
<1>7. Fine(a, {}, K)
  BY <1>5, <1>6, FineLess
<1>8. OtherTeams(a, t)
  BY <1>1, NowOthers
<1> QED
  BY <1>1, <1>4, <1>7, <1>8 DEF Ends, Racing

(* The members get the run back. *)
LEMMA LoadEnds ==
  ASSUME TeamsIInv, NEW t \in Teams \ {0}, NEW K, Taken(t, K), Members(g, t) # {},
         NEW s, s \in Saved, s \in Records, Members(g, t) \subseteq DOMAIN s.tees,
         Held[t] = s.run, NEW h, h = Load(Now0, t, s)
  PROVE  Ends(h, t, K)
<1>1. IsNow(Now0)
  BY Now0Same
<1>2. Fine(Now0, {}, Kind) /\ Now0 \in Games /\ Members(Now0, t) = Members(g, t)
  BY <1>1 DEF IsNow, Members
<1>3. HasLoaded(Now0, t, s, h)
  BY <1>2, LoadFields
<1>4. Fine(h, {}, K)
  BY <1>2, <1>3, LoadKeeps
<1>5. OtherTeams(h, t)
  BY <1>1, <1>3, AsideOthers DEF HasLoaded
<1>6. h.run[t] = s.run /\ s.run # 0 /\ h.spoiled[t] = s.spoiled
  BY <1>3, RecordFacts DEF HasLoaded
<1>7. ASSUME s.run \in deserted, ~s.spoiled, NEW c \in Alive(h, t) PROVE h.race[c] = "none"
  <2>1. c \in DOMAIN s.tees /\ h.race[c] = s.tees[c].race
    BY <1>3 DEF HasLoaded, Alive
  <2>2. s.tees[c].race = "none"
    BY <1>7, <2>1 DEF TeamsIInv, ForlornSaves
  <2> QED
    BY <2>1, <2>2
<1> QED
  BY <1>4, <1>5, <1>6, <1>7 DEF Ends

\* h is q, where the team t is spoiled, and some of its members may be dead
Spoils(q, t, h) ==
  /\ h \in Games /\ h.team = q.team /\ h.race = q.race /\ h.path = q.path
  /\ h.started = q.started /\ h.finished = q.finished
  /\ h.state = q.state /\ h.locked = q.locked /\ h.practice = q.practice
  /\ h.kill = q.kill /\ h.run = q.run /\ h.ranked = q.ranked
  /\ h.spoiled[t] /\ \A u \in Teams \ {t} : h.spoiled[u] = q.spoiled[u]
  /\ \A c \in Clients :
       h.tee[c] = q.tee[c] \/ (q.team[c] = t /\ h.tee[c] = "dead")

(* While m_apSaveTeamResult is set, whoever of the team is killed only dies. *)
LEMMA KillOnly ==
  ASSUME NEW t \in Teams, GetSaving(t), NEW q, NEW h, Spoils(q, t, h), NEW c \in Clients,
         h.team[c] = t, NEW r, r = KillCharacter(h, c, "self")
  PROVE  Spoils(q, t, r)
<1>1. CASE h.tee[c] \notin {"corpse", "alive"}
  BY <1>1 DEF KillCharacter
<1>2. CASE h.tee[c] \in {"corpse", "alive"}
  <2> DEFINE x == [h EXCEPT !.tee[c] = "corpse"]
  <2>1. h \in Games
    BY DEF Spoils
  <2>2. x.team = h.team /\ x = [h EXCEPT !.tee[c] = "corpse"]
    BY <2>1 DEF Games
  <2> HIDE DEF x
  <2>3. ~All(x, c, "self") /\ x.team[c] \in Teams
    BY <2>2 DEF All, Free, GetSaving, Kind
  <2>4. OnCharacterDeath(x, c, "self") = Dies(x, c, "self")
    BY <2>3, DeathCases
  <2>5. Dies(x, c, "self") = x
    BY <2>2 DEF Dies
  <2>6. r = [x EXCEPT !.tee[c] = "dead"]
    BY <1>2, <2>2, <2>4, <2>5 DEF KillCharacter
  <2>7. r = [h EXCEPT !.tee[c] = "dead"]
    BY <2>1, <2>2, <2>6 DEF Games
  <2>8. /\ r \in Games /\ r.team = h.team /\ r.race = h.race /\ r.path = h.path
        /\ r.started = h.started /\ r.finished = h.finished
        /\ r.state = h.state /\ r.locked = h.locked /\ r.practice = h.practice
        /\ r.kill = h.kill /\ r.run = h.run /\ r.spoiled = h.spoiled /\ r.ranked = h.ranked
        /\ r.tee[c] = "dead" /\ \A d \in Clients \ {c} : r.tee[d] = h.tee[d]
    BY <2>1, <2>7 DEF Games
  <2>9. \A d \in Clients : r.tee[d] = q.tee[d] \/ (q.team[d] = t /\ r.tee[d] = "dead")
    BY <2>8 DEF Spoils
  <2> QED
    BY <2>8, <2>9 DEF Spoils
<1> QED
  BY <1>1, <1>2

(* A team that is killed while it waits for the database has dead members, and is as it was. *)
LEMMA KillSpoils ==
  ASSUME NEW t \in Teams, GetSaving(t), NEW q, q \in Games,
         NEW h, h = KillTeam([q EXCEPT !.spoiled[t] = TRUE], t)
  PROVE  Spoils(q, t, h)
<1> DEFINE Good == {p \in Games : Spoils(q, t, p)}
           S == [n \in 0..NumClients |-> Good]
           b == [q EXCEPT !.spoiled[t] = TRUE]
           Pass(p, n) == IF p.team[n] = t THEN KillCharacter(p, n, "self") ELSE p
<1>1. NumClients \in Nat /\ Clients = 1..NumClients
  BY TeamsAssumption DEF Clients
<1>2. b \in Good
  BY DEF Games, Spoils
<1>3. ASSUME NEW n \in 1..NumClients, NEW p \in Good PROVE Pass(p, n) \in Good
  <2>1. CASE p.team[n] = t
    <3> DEFINE r == KillCharacter(p, n, "self")
    <3>1. Spoils(q, t, p) /\ n \in Clients /\ r = KillCharacter(p, n, "self")
      BY <1>1
    <3> HIDE DEF r
    <3>2. Spoils(q, t, r)
      BY <2>1, <3>1, KillOnly
    <3>3. r \in Good
      BY <3>2 DEF Spoils
    <3> QED
      BY <2>1, <3>1, <3>3
  <2>2. CASE p.team[n] # t
    BY <2>2
  <2> QED
    BY <2>1, <2>2
<1>4. S \in [0..NumClients -> SUBSET Games]
  OBVIOUS
<1>5. b \in S[0]
  BY <1>1, <1>2
<1>6. \A n \in 1..NumClients : \A p \in S[n - 1] : Pass(p, n) \in S[n]
  <2>1. \A n \in 1..NumClients : S[n - 1] = Good /\ S[n] = Good
    BY <1>1
  <2> HIDE DEF S, Good, Pass
  <2> QED
    BY <2>1, <1>3
<1>7. S[NumClients] = Good /\ h = KillTeam(b, t)
  BY <1>1
<1> HIDE DEF S, b
<1>8. KillTeam(b, t) \in S[NumClients]
  BY <1>4, <1>5, <1>6, KillTeamLoop
<1> QED
  BY <1>7, <1>8

(* What is spoiled needs no more than that. *)
LEMMA SpoilsKeeps ==
  ASSUME NEW q, NEW K, Fine(q, {}, K), NEW t \in Teams \ {0}, NEW h, Spoils(q, t, h)
  PROVE  Fine(h, {}, K)
<1>1. /\ q \in Games /\ Peopled(q) /\ Waiting(q, K) /\ Even(q, K)
      /\ \A e \in Clients : FlagsOk(q, e, K) /\ RaceOk(q, e, K)
  BY DEF Fine
<1>2. /\ h \in Games /\ h.team = q.team /\ h.race = q.race /\ h.path = q.path
      /\ h.started = q.started /\ h.finished = q.finished
      /\ h.state = q.state /\ h.locked = q.locked /\ h.practice = q.practice /\ h.kill = q.kill
      /\ h.spoiled[t] /\ \A u \in Teams \ {t} : h.spoiled[u] = q.spoiled[u]
      /\ \A c \in Clients : h.tee[c] = q.tee[c] \/ (q.team[c] = t /\ h.tee[c] = "dead")
  BY DEF Spoils
<1>3. \A u : Members(h, u) = Members(q, u)
  BY <1>2 DEF Members
<1>4. Peopled(h)
  BY <1>1, <1>2, <1>3 DEF Peopled
<1>5. Waiting(h, K)
  BY <1>1, <1>2 DEF Waiting
<1>6. Even(h, K)
  <2> SUFFICES ASSUME NEW u \in Teams \ {0}, h.state[u] = "started", ~h.practice[u],
                      K[u] = "none", ~h.spoiled[u], NEW d \in Alive(h, u), NEW e \in Alive(h, u)
               PROVE  h.race[d] = h.race[e]
    BY DEF Even
  <2>1. u # t /\ ~q.spoiled[u]
    BY <1>2
  <2>2. d \in Alive(q, u) /\ e \in Alive(q, u)
    BY <1>2 DEF Alive, Members
  <2> QED
    BY <1>1, <1>2, <2>1, <2>2 DEF Even
<1>7. ASSUME NEW e \in Clients PROVE FlagsOk(h, e, K) /\ RaceOk(h, e, K)
  <2>1. FlagsOk(q, e, K) /\ RaceOk(q, e, K) /\ q.team[e] \in Teams
    BY <1>1 DEF Games
  <2>2. CASE q.team[e] # t
    <3>1. h.tee[e] = q.tee[e] /\ h.spoiled[q.team[e]] = q.spoiled[q.team[e]]
      BY <1>2, <2>1, <2>2
    <3> QED
      BY <1>2, <2>1, <3>1, TeeSame
  <2>3. CASE q.team[e] = t
    <3>1. FlagsOk(h, e, K)
      BY <1>2, <2>3 DEF FlagsOk
    <3>2. h.tee[e] = "alive" => q.tee[e] = "alive"
      BY <1>2
    <3>3. RaceOk(h, e, K)
      BY <1>2, <2>1, <2>3, <3>2 DEF RaceOk
    <3> QED
      BY <3>1, <3>3
  <2> QED
    BY <2>2, <2>3
<1> QED
  BY <1>2, <1>4, <1>5, <1>6, <1>7 DEF Fine

(* A loaded tee was invalid: the team is killed before its answer is cleared. *)
LEMMA SpoilsEnds ==
  ASSUME NEW t \in Teams \ {0}, NEW K, NEW q, Ends(q, t, K), NEW h, Spoils(q, t, h)
  PROVE  Ends(h, t, K)
<1>1. /\ OtherTeams(q, t) /\ Fine(q, {}, K)
      /\ q.state[t] \in Racing => q.run[t] # 0 /\ q.run[t] = Held[t]
  BY DEF Ends
<1>2. /\ h \in Games /\ h.team = q.team /\ h.race = q.race
      /\ h.state = q.state /\ h.practice = q.practice /\ h.run = q.run /\ h.ranked = q.ranked
      /\ h.spoiled[t] /\ \A u \in Teams \ {t} : h.spoiled[u] = q.spoiled[u]
      /\ \A c \in Clients : h.tee[c] = q.tee[c] \/ (q.team[c] = t /\ h.tee[c] = "dead")
  BY DEF Spoils
<1>3. Fine(h, {}, K)
  BY <1>1, SpoilsKeeps
<1>4. \A u \in Teams \ {t} : Members(h, u) = Members(q, u) /\ Alive(h, u) = Alive(q, u)
  BY <1>2 DEF Alive, Members
<1>5. OtherTeams(h, t)
  BY <1>1, <1>2, <1>4 DEF OtherTeams
<1> QED
  BY <1>1, <1>2, <1>3, <1>5 DEF Ends

(* The answer is taken. *)
LEMMA EndsStep ==
  ASSUME TeamsIInv, NEW t \in Teams \ {0}, NEW h, Taken(t, Kind'), Ends(h, t, Kind'),
         Becomes(h), result' = [result EXCEPT ![t] = NoResult], saves' = saves
  PROVE  TeamsIInv'
<1>1. result \in [Teams -> Answers] /\ saves \in SUBSET Records
  BY DEF TeamsIInv
<1>2. /\ result'[t] = NoResult /\ NoResult.kind = "none"
      /\ \A u \in Teams \ {t} : result'[u] = result[u]
      /\ result' \in [Teams -> Answers]
  BY <1>1 DEF Answers, NoResult
<1>3. /\ OtherTeams(h, t) /\ Fine(h, {}, Kind')
      /\ h.state[t] \in Racing =>
           /\ h.run[t] # 0 /\ h.run[t] = Held[t]
           /\ ~h.spoiled[t] /\ h.run[t] \in deserted => \A c \in Alive(h, t) : h.race[c] = "none"
  BY DEF Ends
<1>4. IsKept(h, g') /\ deserted' \subseteq deserted
  BY <1>3, QuietHistory
<1>5. /\ g'.run[t] = IF h.state[t] \in Racing THEN h.run[t] ELSE 0
      /\ Kind'[t] = "none" => Held'[t] = g'.run[t]
  BY <1>2, <1>3, <1>4, OtherRuns
<1>6. Kind'[t] = "none"
  BY DEF Taken
<1>7. Held'[t] \in {0, Held[t]}
  BY <1>3, <1>5, <1>6
<1>8. OneEach(Held', saves', done') /\ ForlornSaves(Saved', deserted')
  BY <1>2, <1>3, <1>6, <1>7, HeldStays
<1>9. MineOk(h, t, result'[t], deserted')
  BY <1>2, <1>3, <1>4 DEF MineOk, Racing
<1> QED
  BY <1>1, <1>2, <1>3, <1>8, <1>9, QuietStep

(* The team gets its run back, or loses it. *)
LEMMA AnswerEnds ==
  ASSUME TeamsIInv, NEW t \in Teams \ {0}, NEW K, Taken(t, K),
         NEW x, x = result[t], x.status # "pending",
         NEW q, q = IF x.kind = "save" /\ x.status = "success" THEN ResetSavedTeam(Now0, t)
                    ELSE IF (x.kind = "save" \/ x.status = "success") /\ Members(g, t) # {}
                      THEN Load(Now0, t, x.save) ELSE Now0
  PROVE  Ends(q, t, K)
<1>1. x \in Answers /\ x.kind # "none" /\ Kind[t] = x.kind
  BY DEF TeamsIInv, Taken, Kind
<1>2. CASE x.kind = "save" /\ x.status = "success"
  <2>1. q = ResetSavedTeam(Now0, t)
    BY <1>2
  <2>2. Ends(q, t, K)
    BY <2>1, ResetEnds
  <2> QED
    BY <2>2
<1>3. CASE ~(x.kind = "save" /\ x.status = "success") /\ (x.kind = "save" \/ x.status = "success")
  <2>1. x.kind = "save" <=> x.status # "success"
    BY <1>3
  <2>2. CASE Members(g, t) = {}
    <3>1. q = Now0
      BY <1>3, <2>2
    <3>2. Ends(q, t, K)
      BY <2>2, <3>1, NothingEnds
    <3> QED
      BY <3>2
  <2>3. CASE Members(g, t) # {}
    <3>1. PICK s : s = x.save
      OBVIOUS
    <3>2. q = Load(Now0, t, s)
      BY <1>3, <2>3, <3>1
    <3>3. s \in Records
      <4>1. \A y \in Answers :
              y.kind # "none" /\ (y.kind = "save" <=> y.status # "success") => y.save \in Records
        BY DEF Answers, NoResult
      <4> QED
        BY <1>1, <2>1, <3>1, <4>1
    <3>4. Held[t] = s.run
      BY <1>1, <2>1, <3>1 DEF Held
    <3>5. s.run # 0
      BY <3>3, RecordFacts
    <3>6. s \in Saved
      BY <1>1, <3>1, <3>4, <3>5 DEF Saved, Kind
    <3>7. Members(g, t) \subseteq DOMAIN s.tees
      <4>1. x.kind \in {"save", "load"}
        BY <1>1 DEF Answers, NoResult
      <4> QED
        BY <1>1, <2>1, <3>1, <4>1 DEF TeamsIInv, Results
    <3>8. Ends(q, t, K)
      BY <2>3, <3>2, <3>3, <3>4, <3>6, <3>7, LoadEnds
    <3> QED
      BY <3>8
  <2> QED
    BY <2>2, <2>3
<1>4. CASE x.kind # "save" /\ x.status # "success"
  <2>1. q = Now0
    BY <1>4
  <2>2. g.state[t] \in {"empty", "open"}
    <3>1. Kind[t] # "none" /\ Kind[t] # "save"
      BY <1>1, <1>4 DEF Kind
    <3>2. Waiting(g, Kind)
      BY DEF TeamsIInv, Fine
    <3> QED
      BY <1>1, <3>1, <3>2 DEF Waiting, Waits, Answers, NoResult
  <2>3. Ends(q, t, K)
    BY <2>1, <2>2, NothingEnds
  <2> QED
    BY <2>3
<1> QED
  BY <1>2, <1>3, <1>4

(* ProcessSaveTeam: the team gets its run back or loses it, and is killed when a tee is invalid. *)
LEMMA ProcessSaveTeamStep ==
  ASSUME TeamsIInv, NEW t \in Teams \ {0}, NEW valid \in BOOLEAN, ProcessSaveTeam(t, valid)
  PROVE  TeamsIInv'
<1>1. PICK x : x = result[t]
  OBVIOUS
<1>2. /\ x.kind # "none" /\ x.status # "pending" /\ x \in Answers
      /\ result' = [result EXCEPT ![t] = NoResult] /\ saves' = saves
      /\ result \in [Teams -> Answers] /\ GetSaving(t)
  BY <1>1 DEF ProcessSaveTeam, GetSaving, TeamsIInv
<1>3. PICK q : q = IF x.kind = "save" /\ x.status = "success" THEN ResetSavedTeam(Now0, t)
                   ELSE IF (x.kind = "save" \/ x.status = "success") /\ Members(g, t) # {}
                     THEN Load(Now0, t, x.save) ELSE Now0
  OBVIOUS
<1>4. Taken(t, Kind')
  <2>1. \A u \in Teams \ {t} : result'[u] = result[u]
    BY <1>2
  <2>2. result'[t] = NoResult
    BY <1>2
  <2> QED
    BY <1>1, <1>2, <2>1, <2>2 DEF Taken, Kind, NoResult
<1>5. Ends(q, t, Kind')
  BY <1>1, <1>2, <1>3, <1>4, AnswerEnds
<1>6. PICK h : (h = q \/ h = KillTeam([q EXCEPT !.spoiled[t] = TRUE], t)) /\ Becomes(h)
  <2> DEFINE loaded == IF Members(g, t) = {} THEN Now0 ELSE Load(Now0, t, result[t].save)
             end == IF result[t].kind = "save"
                      THEN (IF result[t].status = "success"
                              THEN ResetSavedTeam(Now0, t) ELSE loaded)
                      ELSE IF ~(result[t].status = "success") THEN Now0 ELSE IF valid THEN loaded
                      ELSE KillTeam([loaded EXCEPT !.spoiled[t] = TRUE], t)
  <2>1. Becomes(end)
    BY DEF ProcessSaveTeam
  <2>2. end = q \/ end = KillTeam([q EXCEPT !.spoiled[t] = TRUE], t)
    BY <1>1, <1>3
  <2> HIDE DEF end
  <2> QED
    BY <2>1, <2>2
<1>7. Ends(h, t, Kind')
  <2>1. CASE h = q
    BY <1>5, <2>1
  <2>2. CASE h = KillTeam([q EXCEPT !.spoiled[t] = TRUE], t)
    <3>1. q \in Games
      BY <1>5 DEF Ends, Fine
    <3>2. Spoils(q, t, h)
      BY <1>2, <2>2, <3>1, KillSpoils
    <3> QED
      BY <1>5, <3>2, SpoilsEnds
  <2> QED
    BY <1>6, <2>1, <2>2
<1> QED
  BY <1>2, <1>4, <1>6, <1>7, EndsStep

-----------------------------------------------------------------------------
(* The invariant and the properties. *)

(* Every step leaves all in order. *)
LEMMA TeamsNextIInv ==
  ASSUME TeamsIInv, [TeamsNext]_teamsVars
  PROVE  TeamsIInv'
<1>1. CASE UNCHANGED teamsVars
  <2>1. /\ g' = g /\ result' = result /\ saves' = saves /\ done' = done /\ deserted' = deserted
    BY <1>1 DEF teamsVars
  <2>2. Kind' = Kind
    BY <2>1 DEF Kind
  <2>3. Held' = Held
    BY <2>1 DEF Held
  <2>4. Saved' = Saved
    BY <2>1, <2>2, <2>3 DEF Saved
  <2>5. Settled' /\ Results' /\ FairRank'
    BY <2>1 DEF TeamsIInv, Settled, Results, FairRank, Members
  <2> QED
    BY <2>1, <2>2, <2>3, <2>4, <2>5 DEF TeamsIInv
<1>2. ASSUME NEW c \in Clients,
             \/ Enter(c) \/ Clean(c) \/ TryRespawn(c) \/ TouchStart(c) \/ TouchFinish(c)
             \/ FallOff(c) \/ SelfKill(c) \/ Disconnect(c) \/ Spectate(c)
      PROVE  TeamsIInv'
  BY <1>2, EnterStep, CleanStep, TryRespawnStep, TouchStartStep, TouchFinishStep,
     FallOffStep, SelfKillStep, DisconnectStep, SpectateStep
<1>3. ASSUME NEW c \in Clients, NEW t \in Teams, Join(c, t) PROVE TeamsIInv'
  BY <1>3, JoinStep
<1>4. ASSUME NEW c \in Clients, NEW d \in Clients, Swap(c, d) PROVE TeamsIInv'
  BY <1>4, SwapStep
<1>5. ASSUME NEW t \in Teams \ {0}, NEW lock \in BOOLEAN, Lock(t, lock) PROVE TeamsIInv'
  BY <1>5, LockStep
<1>6. ASSUME NEW t \in Teams \ {0},
             \/ Practice(t) \/ UnPractice(t) \/ UnfinishableTick(t)
             \/ SaveTeam(t) \/ LoadTeam(t) \/ Work(t)
             \/ \E valid \in BOOLEAN : ProcessSaveTeam(t, valid)
      PROVE  TeamsIInv'
  BY <1>6, PracticeStep, UnPracticeStep, UnfinishableTickStep, SaveTeamStep, LoadTeamStep,
     WorkStep, ProcessSaveTeamStep
<1>7. CASE TeamsNext
  <2> QED
    BY <1>2, <1>3, <1>4, <1>5, <1>6, <1>7 DEF TeamsNext
<1> QED
  BY <1>1, <1>7

(* For any number of clients, teams, members of a team and runs, the tees, the teams, the answers
   of the database, the saves and the history are in order, whoever leaves for the spectators
   while its team is saved, and whether or not the tees that are loaded are valid. *)
THEOREM TeamsInvariant ==
  TeamsSpec => []TeamsIInv
<1>1. TeamsInit => TeamsIInv
  BY TeamsInitIInv
<1>2. TeamsIInv /\ [TeamsNext]_teamsVars => TeamsIInv'
  BY TeamsNextIInv
<1> QED
  BY <1>1, <1>2, PTL DEF TeamsSpec

(* A team is empty exactly when nobody is in it, and then has no lock, practice or time to be
   killed at; whoever waits in an open team has neither start nor finish, unless the team was
   killed for an invalid tee while it was loaded (CGameTeams). *)
THEOREM TeamsAreRight ==
  TeamsSpec => []TeamsInv
<1>1. TeamsIInv => TeamsInv
  BY InvHolds
<1> QED
  BY <1>1, TeamsInvariant, PTL

(* Whoever is ranked went from the start to the finish without practice, and no tee left the team
   of the run before it hit the start, unless the team was killed for an invalid tee while it was
   loaded, or somebody went to the spectators while it was saved (OnTeamFinish, DoTeamChange). *)
THEOREM RanksAreFair ==
  TeamsSpec => []FairRank
<1>1. TeamsIInv => FairRank
  BY InvHolds
<1> QED
  BY <1>1, TeamsInvariant, PTL

(* A run is in one place: one that is ranked has no save, unless DoTeamChange let it be ranked
   while it was saved, and one that is saved is raced by nobody but the team that waits for that
   save (SaveTeam, LoadTeam, ProcessSaveTeam). *)
THEOREM RunsAreRacedOnce ==
  TeamsSpec => []RunOnce
<1>1. TeamsIInv => RunOnce
  BY InvHolds
<1> QED
  BY <1>1, TeamsInvariant, PTL
=============================================================================
