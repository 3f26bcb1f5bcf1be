---------------------------- MODULE SourceChecks -----------------------------
(***************************************************************************)
(* SourceService.check (src/src/fra/application/source_service.py) over    *)
(* the saved source statuses: processes that run `fra source check` ask    *)
(* the health of one source or of all, one after the other, and save each  *)
(* status before they ask the next.                                        *)
(***************************************************************************)
EXTENDS SourceRouting

CONSTANTS Checkers,   \* processes that run the command
          Targets,    \* the sources a command names: one, or all
          Registries, \* the registries that bootstrap may build
          FailureKinds, \* what health requests fail with
          MaxClock,   \* bound: the last instant
          MaxCommands \* bound: commands that are begun, and repeated collections

ASSUME TargetsAssumption ==
  Targets \subseteq {{p} : p \in Providers} \union {Providers}

ASSUME RegistriesAssumption ==
  \A registry \in Registries :
    /\ DOMAIN registry = Providers
    /\ \A p \in Providers :
         /\ Registrable(registry[p])
         /\ \E i \in DOMAIN AuthorityClasses : AuthorityClasses[i] = registry[p].authority

ASSUME ClockAssumption == MaxClock \in Nat

\* A saved status is not taken for none.
ASSUME StatusAssumption ==
  None \notin [state : {"healthy", "unavailable"}, failure : FailureKinds \union {None},
               at : 0..MaxClock]

VARIABLES clock,    \* the time that processes read
          registry, \* by provider: its descriptor, its roles, whether it is built
          statuses, \* by provider: the status saved last, or None
          checks,   \* by process: its check
          commands  \* how many commands were begun

checkVars == <<clock, registry, statuses, checks, commands>>

Unstarted == [phase |-> "idle", todo |-> <<>>, began |-> 0, covered |-> {}, health |-> None]

Healthy == [state |-> "healthy", failure |-> None, at |-> clock]
Failed(kind) == [state |-> "unavailable", failure |-> kind, at |-> clock]

CheckInit ==
  /\ clock = 0
  /\ registry \in Registries
  /\ statuses = [p \in Providers |-> None]
  /\ checks = [c \in Checkers |-> Unstarted]
  /\ commands = 0

Tick ==
  clock < MaxClock /\ clock' = clock + 1 /\ UNCHANGED <<registry, statuses, checks, commands>>

Command == commands < MaxCommands /\ commands' = commands + 1

Change(c, next) ==
  checks' = [checks EXCEPT ![c] = next] /\ UNCHANGED <<clock, registry>>

Step(c, next) == Change(c, next) /\ UNCHANGED commands

\* The command begins: for the source it names, or for all in order.
BeginCheck(c, sources) ==
  /\ checks[c].phase = "idle" /\ Command
  /\ Change(c, [checks[c] EXCEPT !.phase = "asking", !.began = clock, !.covered = sources,
                                 !.todo = InOrder([p \in sources |-> 0], sources)])
  /\ UNCHANGED statuses

Asking(c) == checks[c].phase = "asking" /\ checks[c].todo # <<>>

\* A source that is registered without an adapter ends the check.
NotConstructed(c) ==
  /\ Asking(c) /\ ~registry[Head(checks[c].todo)].built
  /\ Step(c, [checks[c] EXCEPT !.phase = "raised"]) /\ UNCHANGED statuses

\* The adapter answers, or raises an error that is expected: both are statuses.
HealthKnown(c, health) ==
  /\ Asking(c) /\ registry[Head(checks[c].todo)].built
  /\ Step(c, [checks[c] EXCEPT !.phase = "saving", !.health = health]) /\ UNCHANGED statuses

HealthAnswers(c) == HealthKnown(c, Healthy)
HealthFails(c) == \E kind \in FailureKinds : HealthKnown(c, Failed(kind))

\* Any other error of an adapter goes through: nothing more is asked or saved.
HealthEscapes(c) ==
  /\ Asking(c) /\ registry[Head(checks[c].todo)].built
  /\ Step(c, [checks[c] EXCEPT !.phase = "raised"]) /\ UNCHANGED statuses

\* The repository refuses a status that is older than the one it has.
StaleNever(p, health) == FALSE
Stale(p, health) == statuses[p] # None /\ health.at < statuses[p].at

SaveStatus(c) ==
  LET p == Head(checks[c].todo)
  IN /\ checks[c].phase = "saving" /\ ~Stale(p, checks[c].health)
     /\ statuses' = [statuses EXCEPT ![p] = checks[c].health]
     /\ Step(c, [checks[c] EXCEPT !.phase = "asking", !.todo = Tail(@), !.health = None])

SaveRefused(c) ==
  /\ checks[c].phase = "saving" /\ Stale(Head(checks[c].todo), checks[c].health)
  /\ Step(c, [checks[c] EXCEPT !.phase = "raised", !.health = None]) /\ UNCHANGED statuses

CheckReturns(c) ==
  /\ checks[c].phase = "asking" /\ checks[c].todo = <<>>
  /\ Step(c, [checks[c] EXCEPT !.phase = "returned"]) /\ UNCHANGED statuses

Check(c) ==
  \/ \E sources \in Targets : BeginCheck(c, sources)
  \/ NotConstructed(c) \/ HealthAnswers(c) \/ HealthFails(c) \/ HealthEscapes(c)
  \/ SaveStatus(c) \/ SaveRefused(c) \/ CheckReturns(c)
=============================================================================
