------------------------------- MODULE Teams -------------------------------
(***************************************************************************)
(* CGameTeams: how tees form teams, start, finish and rank together, how   *)
(* practice, locks and deaths end a run, and how a run is saved to the     *)
(* database and loaded from it while the players go on.                    *)
(*                                                                         *)
(* A run is what a team has between its start and its end; run, path,      *)
(* ranked, spoiled, done and deserted are history.  A team is spoiled from *)
(* when it was killed for a tee that was loaded invalid until it is empty. *)
(***************************************************************************)
EXTENDS Integers, FiniteSets

CONSTANTS
  NumClients,  \* clients 1..NumClients
  NumTeams,    \* teams 1..NumTeams besides team 0
  MaxTeamSize, \* sv_max_team_size
  MaxRuns      \* bound: runs that go on or are saved

ASSUME TeamsAssumption ==
  {NumClients, NumTeams, MaxTeamSize, MaxRuns} \subseteq Nat \ {0}

Clients == 1..NumClients
Teams == 0..NumTeams \* TEAM_FLOCK is 0

VARIABLES
  g,        \* the tees and the teams
  result,   \* m_apSaveTeamResult: what the database is asked for
  saves,    \* the table of saves
  done,     \* history: runs that were ranked, but for ranks given while the run was saved
  deserted  \* history: runs that a tee left before it hit the start

teamsVars == <<g, result, saves, done, deserted>>

Rank(cs, run, spoiled, saved) == [who |-> cs, run |-> run, spoiled |-> spoiled, saved |-> saved]
NoRank == Rank({}, 0, FALSE, FALSE)
NoResult == [kind |-> "none"]

TeamsTypeOK ==
  /\ g.team \in [Clients -> Teams]
  /\ g.tee \in [Clients -> {"out", "dead", "corpse", "alive"}]
  /\ g.race \in [Clients -> {"none", "started", "finished"}]
  /\ g.started \in [Clients -> BOOLEAN] /\ g.finished \in [Clients -> BOOLEAN]
  /\ g.path \in [Clients -> {"spawn", "start", "finish", "practice"}]
  /\ g.state \in [Teams -> {"empty", "open", "started", "unfinishable", "finished"}]
  /\ g.locked \in [Teams -> BOOLEAN] /\ g.practice \in [Teams -> BOOLEAN]
  /\ g.kill \in [Teams -> BOOLEAN] /\ g.spoiled \in [Teams -> BOOLEAN]
  /\ g.run \in [Teams -> 0..MaxRuns]
  /\ \A t \in Teams : result[t].kind \in {"none", "save", "load"}
  /\ done \cup deserted \cup {s.run : s \in saves} \subseteq 1..MaxRuns

TeamsInit ==
  /\ g = [team |-> [c \in Clients |-> 0], tee |-> [c \in Clients |-> "out"],
          race |-> [c \in Clients |-> "none"], started |-> [c \in Clients |-> FALSE],
          finished |-> [c \in Clients |-> FALSE], path |-> [c \in Clients |-> "spawn"],
          state |-> [t \in Teams |-> "empty"], locked |-> [t \in Teams |-> FALSE],
          practice |-> [t \in Teams |-> FALSE], kill |-> [t \in Teams |-> FALSE],
          run |-> [t \in Teams |-> 0], spoiled |-> [t \in Teams |-> FALSE], ranked |-> NoRank]
  /\ result = [t \in Teams |-> NoResult]
  /\ saves = {} /\ done = {} /\ deserted = {}

-----------------------------------------------------------------------------
(* The operations of CGameTeams, on the tees and teams h. *)

GetSaving(t) == result[t].kind # "none"
Members(h, t) == {c \in Clients : h.team[c] = t}
Alive(h, t) == {c \in Members(h, t) : h.tee[c] = "alive"}

LastOf(cs) == CHOOSE d \in cs : \A e \in cs : d >= e

\* Op for each client in turn
EachClient(h, Op(_, _)) ==
  LET after[n \in 0..NumClients] == IF n = 0 THEN h ELSE Op(after[n - 1], n)
  IN  after[NumClients]

\* variant: the last one out leaves the lock behind
SetForceCharacterTeamLocked(h, c, t) ==
  LET old == h.team[c]
      last == t # old /\ old # 0 /\ Cardinality(Members(h, old)) <= 1
      left == IF last
                THEN [h EXCEPT !.state[old] = "empty",
                               !.practice[old] = FALSE, !.kill[old] = FALSE]
                ELSE h
  IN  [left EXCEPT !.started[c] = FALSE, !.finished[c] = FALSE, !.team[c] = t,
                   !.state[t] = IF @ = "empty" /\ ~left.locked[t] THEN "open" ELSE @]

SetForceCharacterTeam(h, c, t) ==
  LET old == h.team[c]
      last == t # old /\ old # 0 /\ Cardinality(Members(h, old)) <= 1
      left == IF last
                THEN [h EXCEPT !.state[old] = "empty", !.locked[old] = FALSE,
                               !.practice[old] = FALSE, !.kill[old] = FALSE]
                ELSE h
  IN  [left EXCEPT !.started[c] = FALSE, !.finished[c] = FALSE, !.team[c] = t,
                   !.state[t] = IF @ = "empty" /\ ~left.locked[t] THEN "open" ELSE @]

TeamFinished(h, t) == h.state[t] = "started" /\ \A c \in Members(h, t) : h.finished[c]

\* OnTeamFinish: whoever is not locked in joins team 0
OnTeamFinish(h, cs) ==
  EachClient(h, LAMBDA q, c :
    IF c \in cs /\ ~q.locked[q.team[c]] THEN SetForceCharacterTeam(q, c, 0) ELSE q)

CheckTeamFinished(h, t) ==
  LET cs == Alive(h, t)
      cleared == [h EXCEPT !.started = [c \in Clients |-> @[c] /\ c \notin cs],
                           !.finished = [c \in Clients |-> @[c] /\ c \notin cs],
                           !.race = [c \in Clients |-> IF c \in cs THEN "finished" ELSE @[c]],
                           !.state[t] = "finished"]
  IN  IF ~TeamFinished(h, t) \/ cs = {} THEN h
      ELSE IF h.practice[t] THEN cleared
      ELSE OnTeamFinish([cleared EXCEPT
             !.ranked = Rank(cs, h.run[t], h.spoiled[t], GetSaving(t))], cs)

\* variant: a death before the start does not make the team unfinishable
DiesFinishable(h, c, weapon) ==
  LET t == h.team[c]
  IN  IF GetSaving(t) THEN h
      ELSE IF h.locked[t] /\ weapon # "game"
        THEN [SetForceCharacterTeam(h, c, t) EXCEPT !.state[t] = "open",
                !.practice[t] = @ /\ h.state[t] = "open"]
        ELSE CheckTeamFinished(SetForceCharacterTeam(h, c, 0), t)

\* OnCharacterDeath up to the kill of the others
Dies(h, c, weapon) ==
  LET t == h.team[c]
      locked == h.locked[t] /\ weapon # "game"
      unstarted == h.state[t] = "started" /\ ~h.started[c]
  IN  IF GetSaving(t) THEN h
      ELSE IF locked
        THEN [SetForceCharacterTeam(h, c, t) EXCEPT !.state[t] = "open",
                !.practice[t] = @ /\ h.state[t] = "open"]
        ELSE CheckTeamFinished(SetForceCharacterTeam(
               [h EXCEPT !.kill[t] = @ \/ unstarted,
                         !.state[t] = IF unstarted THEN "unfinishable" ELSE @], c, 0), t)

\* KillCharacter(weapon) of the members in cs, none of whom has others killed with it
KillEach(h, cs, weapon) ==
  EachClient(h, LAMBDA q, c :
    IF c \in cs /\ q.tee[c] \in {"corpse", "alive"}
      THEN Dies([q EXCEPT !.tee[c] = "dead"], c, weapon) ELSE q)

\* OnCharacterDeath: a death in a locked team that runs is the death of the team
OnCharacterDeath(h, c, weapon) ==
  LET t == h.team[c]
      all == /\ ~GetSaving(t) /\ h.locked[t] /\ weapon # "game" /\ h.state[t] # "open"
             /\ Cardinality(Members(h, t)) > 1
      one == Dies(h, c, weapon)
      disband == Cardinality(Members(h, t)) > MaxTeamSize
  IN  IF all THEN KillEach(IF disband THEN [one EXCEPT !.locked[t] = FALSE] ELSE one,
                           Members(one, t) \ {c}, "self")
             ELSE one

KillCharacter(h, c, weapon) ==
  IF h.tee[c] \in {"corpse", "alive"}
    THEN [OnCharacterDeath([h EXCEPT !.tee[c] = "corpse"], c, weapon) EXCEPT !.tee[c] = "dead"]
    ELSE h

KillTeam(h, t) ==
  EachClient(h, LAMBDA q, c : IF q.team[c] = t THEN KillCharacter(q, c, "self") ELSE q)

\* the runs that are over, whose names serve again
NewRuns ==
  1..MaxRuns \ ({g.run[t] : t \in Teams} \cup {s.run : s \in saves}
                \cup {result[t].save.run : t \in {t \in Teams : "save" \in DOMAIN result[t]}})

\* a run begins: the first tee of an open team hits the start
StartRun(h, t) ==
  [h EXCEPT !.state[t] = "started", !.kill[t] = FALSE, !.run[t] = CHOOSE r \in NewRuns : TRUE,
            !.race = [d \in Clients |-> IF d \in Alive(h, t) THEN "started" ELSE @[d]],
            !.path = [d \in Clients |->
                        IF d \in Alive(h, t) /\ @[d] # "practice" THEN "spawn" ELSE @[d]]]

\* OnCharacterStart in a team: the tee waits while another is at the finish still
HitsStart(h, c) ==
  LET t == h.team[c]
      begun == IF h.state[t] = "open" THEN StartRun(h, t) ELSE h
  IN  IF h.race[c] = "finished" THEN h
      ELSE IF \E d \in Alive(h, t) : h.race[d] = "finished" THEN [h EXCEPT !.race[c] = "none"]
      ELSE [begun EXCEPT !.started[c] = TRUE,
                         !.path[c] = IF @ = "spawn" THEN "start" ELSE @]

OnCharacterStart(h, c) ==
  IF h.team[c] = 0
    THEN [h EXCEPT !.started[c] = TRUE, !.race[c] = "started", !.path[c] = "start"]
    ELSE HitsStart(h, c)

OnCharacterFinish(h, c) ==
  IF h.team[c] = 0
    THEN [h EXCEPT !.race[c] = "finished", !.ranked = Rank({c}, 0, FALSE, FALSE)]
    ELSE CheckTeamFinished([h EXCEPT !.finished[c] = @ \/ h.started[c]], h.team[c])

CanJoinTeam(h, c, t) ==
  /\ t # h.team[c] /\ h.tee[c] = "alive"
  /\ h.state[t] \in {"empty", "open"} \/ h.practice[t]
  /\ h.race[c] = "none" \/ (t = 0 /\ h.state[h.team[c]] = "finished")
  /\ ~h.practice[h.team[c]]
  /\ ~GetSaving(t) /\ ~GetSaving(h.team[c])

\* a tee that spawns in a locked team has the race of another member that is alive
OnCharacterSpawn(h, c) ==
  LET t == h.team[c]
      stays == GetSaving(t) \/ h.locked[t]
      at == IF stays THEN h ELSE CheckTeamFinished(SetForceCharacterTeam(h, c, 0), t)
      others == Alive(h, at.team[c])
  IN  [at EXCEPT !.tee[c] = "alive",
                 !.race[c] = IF at.locked[at.team[c]] /\ others # {}
                               THEN h.race[LastOf(others)]
                               ELSE "none",
                 !.path[c] = IF at.practice[at.team[c]] THEN "practice" ELSE "spawn"]

-----------------------------------------------------------------------------
(* CSaveTeam. *)

\* a save: which run, and what each tee had
Save(h, t) ==
  [run |-> h.run[t], locked |-> h.locked[t], spoiled |-> h.spoiled[t],
   tees |-> [c \in Members(h, t) |->
     [race |-> h.race[c], started |-> h.started[c],
      finished |-> h.finished[c], path |-> h.path[c]]]]

\* the members that are still there get back what they had
Load(h, t, s) ==
  LET back == DOMAIN s.tees \cap Members(h, t)
      Of(field, old) == [c \in Clients |-> IF c \in back THEN s.tees[c][field] ELSE old[c]]
  IN  [h EXCEPT !.state[t] = "started", !.locked[t] = s.locked, !.practice[t] = FALSE,
                !.run[t] = s.run, !.spoiled[t] = s.spoiled,
                !.tee = [c \in Clients |-> IF c \in back THEN "alive" ELSE @[c]],
                !.race = Of("race", @), !.started = Of("started", @),
                !.finished = Of("finished", @), !.path = Of("path", @)]

ResetSavedTeam(h, t) ==
  EachClient(h, LAMBDA q, c : IF q.team[c] = t THEN SetForceCharacterTeam(q, c, 0) ELSE q)

-----------------------------------------------------------------------------
(* Steps. *)

Now0 == [g EXCEPT !.ranked = NoRank]

\* a tee that is not alive has no race, a team that does not race no run; of a spoiled team
\* only practice is remembered, until the team is empty
Kept(h) ==
  [h EXCEPT !.race = [c \in Clients |-> IF h.tee[c] = "alive" THEN @[c] ELSE "none"],
            !.path = [c \in Clients |->
                        IF h.tee[c] = "alive" /\ (~h.spoiled[h.team[c]] \/ @[c] = "practice")
                          THEN @[c] ELSE "spawn"],
            !.run = [t \in Teams |->
                       IF h.state[t] \in {"started", "unfinishable"} THEN @[t] ELSE 0],
            !.spoiled = [t \in Teams |-> @[t] /\ h.state[t] # "empty"]]

\* the tees and teams become h (b: h, evaluated once); what is left of a run without a save
\* under way is noted
Becomes(h) ==
  \E b \in {h} :
    /\ g' = Kept(b)
    /\ done' = (done \ (IF b.run # g.run THEN NewRuns ELSE {})) \cup
         (IF b.ranked.saved THEN {} ELSE {b.ranked.run} \ {0})
    /\ deserted' = (deserted \ (IF b.run # g.run THEN NewRuns ELSE {})) \cup
         {g.run[g.team[c]] : c \in {c \in Clients :
            /\ g.state[g.team[c]] = "started" /\ ~GetSaving(g.team[c]) /\ g.tee[c] = "alive"
            /\ ~g.spoiled[g.team[c]]
            /\ g.path[c] = "spawn" /\ b.team[c] # g.team[c]}}

Only(h) == Becomes(h) /\ UNCHANGED <<result, saves>>

\* OnClientEnter, or back from the spectators
Enter(c) == g.tee[c] = "out" /\ Only([Now0 EXCEPT !.tee[c] = "dead", !.path[c] = "spawn"])

\* CPlayer::Tick deletes a dead character, unless it is paused
Clean(c) == g.tee[c] = "corpse" /\ Only([Now0 EXCEPT !.tee[c] = "dead"])

TryRespawn(c) == g.tee[c] = "dead" /\ Only(OnCharacterSpawn(Now0, c))

\* HandleCharacterTiles at the start: no start while the team is saved or loaded
TouchStart(c) ==
  /\ g.tee[c] = "alive"
  /\ g.state[g.team[c]] = "open" /\ g.team[c] # 0 => NewRuns # {}
  /\ Only(IF GetSaving(g.team[c])
            THEN OnCharacterDeath([Now0 EXCEPT !.tee[c] = "corpse"], c, "world")
            ELSE OnCharacterStart(Now0, c))

\* HandleCharacterTiles at the finish
TouchFinish(c) ==
  /\ g.tee[c] = "alive" /\ g.race[c] = "started"
  /\ Only(OnCharacterFinish(
       [Now0 EXCEPT !.path[c] = IF @ = "start" THEN "finish" ELSE @], c))

\* the world kills a tee: its character stays until the next tick of the player
FallOff(c) ==
  /\ g.tee[c] = "alive"
  /\ Only(OnCharacterDeath([Now0 EXCEPT !.tee[c] = "corpse"], c, "world"))

\* OnKillNetMessage
SelfKill(c) == g.tee[c] = "alive" /\ Only(KillCharacter(Now0, c, "self"))

\* OnPlayerDisconnect
Disconnect(c) ==
  /\ g.tee[c] # "out"
  /\ Only([SetForceCharacterTeam(KillCharacter(Now0, c, "game"), c, 0) EXCEPT !.tee[c] = "out"])

\* DoTeamChange to the spectators
Spectate(c) ==
  /\ g.tee[c] # "out"
  /\ LET h == OnCharacterDeath(Now0, c, "game")
         away == IF g.tee[c] = "alive"
                   THEN CheckTeamFinished(SetForceCharacterTeam(h, c, 0), h.team[c]) ELSE Now0
     IN  Only([KillCharacter(away, c, "game") EXCEPT !.tee[c] = "out"])

\* AttemptJoinTeam: by then invited, if the team is locked
Join(c, t) ==
  /\ t = 0 \/ Cardinality(Members(g, t)) < MaxTeamSize \/ g.practice[t]
  /\ CanJoinTeam(g, c, t)
  /\ Only([SetForceCharacterTeam(Now0, c, t) EXCEPT
             !.path[c] = IF g.practice[t] THEN "practice" ELSE "spawn"])

\* ConLock and ConUnlock
Lock(t, lock) ==
  /\ t # 0 /\ Members(g, t) # {} /\ g.locked[t] # lock
  /\ Only([Now0 EXCEPT !.locked[t] = lock])

\* ConPractice, once enough members have voted
Practice(t) ==
  /\ t # 0 /\ Members(g, t) # {} /\ ~GetSaving(t) /\ ~g.practice[t]
  /\ Only([Now0 EXCEPT !.practice[t] = TRUE,
             !.path = [c \in Clients |-> IF c \in Alive(g, t) THEN "practice" ELSE @[c]]])

\* ConUnPractice
UnPractice(t) ==
  /\ t # 0 /\ Members(g, t) # {} /\ ~GetSaving(t) /\ g.practice[t]
  /\ ~(g.locked[t] /\ Cardinality(Members(g, t)) > MaxTeamSize)
  /\ Only([KillTeam(Now0, t) EXCEPT !.practice[t] = FALSE])

\* ConSwap of c and d, asked for before
Swap(c, d) ==
  /\ c # d /\ g.team[c] = g.team[d] /\ {g.tee[c], g.tee[d]} = {"alive"}
  /\ IF g.team[c] = 0 THEN {g.race[c], g.race[d]} = {"started"} ELSE g.state[g.team[c]] = "started"
  /\ LET Swapped(f) == [f EXCEPT ![c] = f[d], ![d] = f[c]]
     IN  Only([Now0 EXCEPT !.race = Swapped(@), !.path = Swapped(@),
                           !.started = Swapped(@), !.finished = Swapped(@)])

\* CGameTeams::Tick
UnfinishableTick(t) ==
  /\ g.kill[t] /\ g.state[t] = "unfinishable"
  /\ Only(IF g.practice[t] THEN [Now0 EXCEPT !.kill[t] = FALSE] ELSE KillTeam(Now0, t))

\* CScore::SaveTeam: every tee must live, and then dies
SaveTeam(t) ==
  /\ t # 0 /\ ~GetSaving(t) /\ ~g.practice[t]
  /\ g.state[t] = "started" /\ Members(g, t) = Alive(g, t)
  /\ result' = [result EXCEPT ![t] = [kind |-> "save", status |-> "pending", save |-> Save(g, t)]]
  /\ Becomes([Now0 EXCEPT !.tee = [c \in Clients |-> IF c \in Members(g, t) THEN "dead" ELSE @[c]]])
  /\ UNCHANGED saves

\* CScore::LoadTeam
LoadTeam(t) ==
  /\ t # 0 /\ Members(g, t) # {} /\ ~GetSaving(t) /\ g.state[t] = "open" /\ ~g.practice[t]
  /\ result' = [result EXCEPT ![t] = [kind |-> "load", status |-> "pending", who |-> Members(g, t)]]
  /\ Becomes(Now0) /\ UNCHANGED saves

\* variant: a load leaves the row in the table
WorkKeeps(t) ==
  /\ GetSaving(t) /\ result[t].status = "pending"
  /\ \/ /\ result[t].kind = "save"
        /\ result' = [result EXCEPT ![t].status = "success"]
        /\ saves' = saves \cup {result[t].save}
     \/ /\ result[t].kind = "load"
        /\ \E s \in saves :
             /\ DOMAIN s.tees = result[t].who
             /\ result' = [result EXCEPT ![t] = [kind |-> "load", status |-> "success", save |-> s]]
        /\ UNCHANGED saves
     \/ result' = [result EXCEPT ![t].status = "failed"] /\ UNCHANGED saves
  /\ Becomes(Now0)

\* the worker of the database
Work(t) ==
  /\ GetSaving(t) /\ result[t].status = "pending"
  /\ \/ /\ result[t].kind = "save"
        /\ result' = [result EXCEPT ![t].status = "success"]
        /\ saves' = saves \cup {result[t].save}
     \/ /\ result[t].kind = "load"
        /\ \E s \in saves :
             /\ DOMAIN s.tees = result[t].who
             /\ result' = [result EXCEPT ![t] = [kind |-> "load", status |-> "success", save |-> s]]
             /\ saves' = saves \ {s}
     \/ result' = [result EXCEPT ![t].status = "failed"] /\ UNCHANGED saves
  /\ Becomes(Now0)

\* variant: an answer is not taken when the team has left
ProcessSaveTeamPresent(t, valid) ==
  /\ GetSaving(t) /\ result[t].status # "pending" /\ Members(g, t) # {}
  /\ result' = [result EXCEPT ![t] = NoResult]
  /\ LET success == result[t].status = "success"
         loaded == Load(Now0, t, result[t].save)
     IN  Becomes(IF result[t].kind = "save"
                   THEN (IF success THEN ResetSavedTeam(Now0, t) ELSE loaded)
                   ELSE IF ~success THEN Now0 ELSE IF valid THEN loaded
                   ELSE KillTeam([loaded EXCEPT !.spoiled[t] = TRUE], t))
  /\ UNCHANGED saves

\* ProcessSaveTeam; a loaded tee may be invalid (in /spec where it cannot be), and then the team
\* is killed while m_apSaveTeamResult is still set
ProcessSaveTeam(t, valid) ==
  /\ GetSaving(t) /\ result[t].status # "pending"
  /\ result' = [result EXCEPT ![t] = NoResult]
  /\ LET success == result[t].status = "success"
         loaded == IF Members(g, t) = {} THEN Now0 ELSE Load(Now0, t, result[t].save)
     IN  Becomes(IF result[t].kind = "save"
                   THEN (IF success THEN ResetSavedTeam(Now0, t) ELSE loaded)
                   ELSE IF ~success THEN Now0 ELSE IF valid THEN loaded
                   ELSE KillTeam([loaded EXCEPT !.spoiled[t] = TRUE], t))
  /\ UNCHANGED saves

TeamsNext ==
  \/ \E c \in Clients :
       \/ Enter(c) \/ Clean(c) \/ TryRespawn(c) \/ TouchStart(c) \/ TouchFinish(c) \/ FallOff(c)
       \/ SelfKill(c) \/ Disconnect(c) \/ Spectate(c)
       \/ (\E t \in Teams : Join(c, t)) \/ (\E d \in Clients : Swap(c, d))
  \/ \E t \in Teams \ {0} :
       \/ (\E lock \in BOOLEAN : Lock(t, lock)) \/ Practice(t) \/ UnPractice(t)
       \/ UnfinishableTick(t) \/ SaveTeam(t) \/ LoadTeam(t) \/ Work(t)
       \/ (\E valid \in BOOLEAN : ProcessSaveTeam(t, valid))

TeamsSpec == TeamsInit /\ [][TeamsNext]_teamsVars

\* the server ticks and the database answers
TeamsFairness ==
  \A t \in Teams \ {0} :
    /\ WF_teamsVars(UnfinishableTick(t))
    /\ WF_teamsVars(Work(t)) /\ WF_teamsVars(\E valid \in BOOLEAN : ProcessSaveTeam(t, valid))

TeamsFairSpec == TeamsSpec /\ TeamsFairness

-----------------------------------------------------------------------------
(* Properties. *)

(* A team is empty exactly when nobody is in it, and then has no lock, practice
   or time to be killed at; whoever waits in an open team has neither start nor
   finish, and a finish needs a start.  Only in a spoiled team the dead keep both:
   ProcessSaveTeam kills it before it clears the result, so OnCharacterDeath returns. *)
TeamsAgree ==
  /\ \A t \in Teams \ {0} : g.state[t] = "empty" <=> Members(g, t) = {}
  /\ \A t \in Teams : g.state[t] = "empty" => ~g.locked[t] /\ ~g.practice[t] /\ ~g.kill[t]
  /\ \A c \in Clients : g.team[c] # 0 /\ ~g.spoiled[g.team[c]] =>
       /\ g.finished[c] => g.started[c]
       /\ g.state[g.team[c]] = "open" => ~g.started[c]
  /\ g.state[0] \in {"empty", "open"} /\ ~g.locked[0] /\ ~g.practice[0]

TeamsInv == TeamsTypeOK /\ TeamsAgree

(* Who is ranked went from the start to the finish in one life, or the life it
   was saved in, without practice, and no tee left its team before the start.
   Two ranks are excepted: that of a spoiled team, where the dead keep their
   finish, and that of a team whose member goes to the spectators while it is
   being saved, when DoTeamChange checks the flags from before the save. *)
FairRank ==
  ~g.ranked.spoiled /\ ~g.ranked.saved =>
    /\ \A c \in g.ranked.who : g.path[c] = "finish"
    /\ g.ranked.run \notin deserted

(* A run is in one place: one that is ranked is over and has no save, and one
   that is saved is raced by nobody, but for the team that waits for that save.
   The rank that DoTeamChange gives while the team is being saved is excepted. *)
RunOnce ==
  \A s \in saves :
    /\ s.run \notin done
    /\ \A t \in Teams :
         g.run[t] = s.run /\ g.state[t] \in {"started", "unfinishable"} => GetSaving(t)

(* The database answers every save and load and the game takes the answer, and
   whoever is in a team that cannot finish is killed when its time is up, unless
   it practices. *)
TeamsSettle ==
  \A t \in Teams \ {0} :
    /\ GetSaving(t) ~> ~GetSaving(t)
    /\ g.state[t] = "unfinishable" /\ g.kill[t] ~>
         g.state[t] # "unfinishable" \/ g.practice[t] \/ Alive(g, t) = {}
=============================================================================
