-------------------------------- MODULE Settings --------------------------------
(***************************************************************************)
(* The credentials of the shop on the server: the values in the system     *)
(* configuration, of all sales channels and of single ones that inherit    *)
(* what they do not have, and `validated`, the verdict the plugin keeps    *)
(* beside them: without it TWINT is not offered, and no client is built.   *)
(*                                                                         *)
(* A request that saves is one of Shopware's.  The plugin listens: before  *)
(* the values are stored it puts back `validated`, afterwards it reads the *)
(* values again, asks TWINT, and stores the verdict.  Nothing keeps two    *)
(* requests apart.                                                         *)
(***************************************************************************)
EXTENDS Naturals

CONSTANTS
    Channels,   \* the sales channels
    All,        \* the scope of the values for all of them
    Writers,    \* requests that save, one at a time each
    Values,     \* the values of each key
    Missing,    \* one of them: not there, or empty
    Inherit,    \* no value of its own
    Accepted,   \* the credentials TWINT accepts
    Installed,  \* the credentials at the beginning
    MaxFaults   \* bound on the requests that end half-way

Keys == {"certificate", "storeUuid", "testMode"}
AnyValue == UNION {Values[k] : k \in Keys}
Credentials == {c \in [Keys -> AnyValue] : \A k \in Keys : c[k] \in Values[k]}

ASSUME ScopesAssumption == All \notin Channels
ASSUME ValuesAssumption == \A k \in Keys : Inherit \notin Values[k]
ASSUME AcceptedAssumption ==
    Accepted \subseteq {c \in Credentials : Missing \notin {c["certificate"], c["storeUuid"]}}
ASSUME InstalledAssumption == Installed \subseteq Credentials
ASSUME FaultsAssumption == MaxFaults \in Nat

VARIABLES
    own,       \* the values of a scope
    verdict,   \* its `validated`: "valid", "refused", or "none"
    rq,        \* what a request does next, and with what
    faults,
    doubtful   \* history: scopes whose verdict may be about other values

config == <<own, verdict>>
vars == <<config, rq, faults, doubtful>>

Scopes == Channels \cup {All}
Inheriting == [k \in Keys |-> Inherit]
None == [k \in {} |-> Missing]

\* SystemConfigService::getDomain of a scope, with what it inherits.
Effective(s) == [k \in Keys |-> IF own[s][k] = Inherit THEN own[All][k] ELSE own[s][k]]
IsValidated(s) == (IF verdict[s] = "none" THEN verdict[All] ELSE verdict[s]) = "valid"

Idle == [at |-> "idle", scope |-> All, kvs |-> None, flag |-> "absent",
         kept |-> FALSE, read |-> None, alone |-> FALSE]
Active == {w \in Writers : rq[w].at # "idle"}
Stored == {w \in Writers : rq[w].at \in {"read", "set"}}

\* The scope whose verdict counts, and a scope of which no verdict is open or in
\* doubt, neither its own nor the one it inherits.
Judging(s) == IF verdict[s] = "none" THEN All ELSE s
Clear(s) ==
    \A t \in {s, Judging(s)} : t \notin doubtful /\ \A w \in Stored : rq[w].scope # t

Verdict(valid) == IF valid THEN "valid" ELSE "refused"

-----------------------------------------------------------------------------
Init ==
    /\ \E c \in Installed :
          /\ own = [s \in Scopes |-> IF s = All THEN c ELSE Inheriting]
          /\ verdict = [s \in Scopes |-> IF s = All THEN Verdict(c \in Accepted) ELSE "none"]
    /\ rq = [w \in Writers |-> Idle]
    /\ faults = 0
    /\ doubtful = {}

\* What a request may have for `validated`; setMultiple removes what is null.
Flags == {"absent", "value", "null"}

\* A request works on the values of its scope and of those for all.
Uses(s) == {s, All}

\* A request to save some keys of a scope.
Save(w, s, kvs, flag) ==
    /\ rq[w].at = "idle"
    /\ rq' = [v \in Writers |->
          IF v = w
          THEN [Idle EXCEPT !.at = "before", !.scope = s, !.kvs = kvs, !.flag = flag,
                            !.alone = \A u \in Active : rq[u].scope \notin Uses(s)]
          ELSE [rq[v] EXCEPT !.alone = @ /\ s \notin Uses(rq[v].scope)]]
    /\ UNCHANGED <<config, faults, doubtful>>

\* onBeforeMultipleSystemConfigChanged: a value that was sent for `validated`
\* gives way to the one in force.  isset() does not find one that is null.
Kept_AsSent(s) == TRUE
Kept(s) == IsValidated(s)

Before(w) ==
    /\ rq[w].at = "before"
    /\ rq' = [rq EXCEPT ![w] = [@ EXCEPT !.at = "store",
                   !.kept = rq[w].flag = "value" /\ Kept(rq[w].scope)]]
    /\ UNCHANGED <<config, faults, doubtful>>

\* onMultipleSystemConfigChanged validates if one of the keys matters.
Matters(kvs) == DOMAIN kvs # {}

\* What a stored request leaves in doubt until TWINT is asked: a verdict put
\* back that may be about other values, a scope with values of its own whose
\* verdict was removed, and channels that have a verdict of their own about
\* values they inherit.
Doubts(w) ==
    LET s == rq[w].scope  kvs == rq[w].kvs IN
    {t \in Scopes :
        \/ /\ t = s /\ rq[w].flag = "value"
           /\ ~rq[w].alone \/ Judging(s) \in doubtful
        \/ t = s /\ s # All /\ rq[w].flag = "null" /\ own'[s] # Inheriting
        \/ /\ s = All /\ t # All /\ verdict[t] # "none"
           /\ \E k \in DOMAIN kvs : own[t][k] = Inherit /\ kvs[k] # own[All][k]}

\* SystemConfigService::setMultiple.
Store(w) ==
    /\ rq[w].at = "store"
    /\ LET s == rq[w].scope  kvs == rq[w].kvs IN
       /\ own' = [own EXCEPT ![s] =
              [k \in Keys |-> IF k \in DOMAIN kvs THEN kvs[k] ELSE own[s][k]]]
       /\ verdict' = [verdict EXCEPT ![s] =
              CASE rq[w].flag = "value" -> Verdict(rq[w].kept)
                [] rq[w].flag = "null" -> "none"
                [] OTHER -> @]
       /\ doubtful' = doubtful \cup Doubts(w)
       /\ rq' = [rq EXCEPT ![w] =
              IF Matters(kvs)
              THEN [Idle EXCEPT !.at = "read", !.scope = s, !.alone = rq[w].alone]
              ELSE Idle]
    /\ UNCHANGED faults

\* SettingService::validateCredentials reads what is stored now.  Without a
\* certificate, or a store UUID that is not even empty, the validator cannot be
\* called: the request ends there.
Unreadable(c) == Missing \in {c["certificate"], c["storeUuid"]}

Read(w) ==
    /\ rq[w].at = "read"
    /\ LET c == Effective(rq[w].scope) IN
       \/ /\ Unreadable(c)
          /\ rq' = [rq EXCEPT ![w] = Idle]
          /\ doubtful' = doubtful \cup {rq[w].scope}
       \/ /\ c["certificate"] # Missing
          /\ rq' = [rq EXCEPT ![w] = [@ EXCEPT !.at = "set", !.read = c]]
          /\ UNCHANGED doubtful
    /\ UNCHANGED <<config, faults>>

\* TWINT has answered, or could not be asked, and the verdict is stored for
\* the scope that was saved.
Set(w) ==
    /\ rq[w].at = "set"
    /\ \E valid \in {FALSE, rq[w].read \in Accepted} :
          verdict' = [verdict EXCEPT ![rq[w].scope] = Verdict(valid)]
    /\ doubtful' = IF rq[w].alone THEN doubtful \ {rq[w].scope}
                                  ELSE doubtful \cup {rq[w].scope}
    /\ rq' = [rq EXCEPT ![w] = Idle]
    /\ UNCHANGED <<own, faults>>

\* The request ends where it is: an error of the database, the end of the
\* process.
Fault(w) ==
    /\ rq[w].at # "idle"
    /\ faults < MaxFaults
    /\ faults' = faults + 1
    /\ rq' = [rq EXCEPT ![w] = Idle]
    /\ doubtful' = IF w \in Stored THEN doubtful \cup {rq[w].scope} ELSE doubtful
    /\ UNCHANGED config

\* The values a request may save for a scope: for a channel, also none of its
\* own.
Savable(s, k) == IF s = All THEN Values[k] ELSE Values[k] \cup {Inherit}
Changes(s, keys) ==
    {kvs \in [keys -> AnyValue \cup {Inherit}] : \A k \in keys : kvs[k] \in Savable(s, k)}

Server == \E w \in Writers : Before(w) \/ Store(w) \/ Read(w) \/ Set(w) \/ Fault(w)

Next ==
    \/ Server
    \/ \E w \in Writers, s \in Scopes, keys \in SUBSET Keys, flag \in Flags :
          \E kvs \in Changes(s, keys) : Save(w, s, kvs, flag)

Spec == Init /\ [][Next]_vars

-----------------------------------------------------------------------------
RequestType ==
    [at : {"idle", "before", "store", "read", "set"}, scope : Scopes,
     kvs : UNION {[keys -> AnyValue \cup {Inherit}] : keys \in SUBSET Keys},
     flag : Flags, kept : BOOLEAN, read : Credentials \cup {None}, alone : BOOLEAN]

TypeOK ==
    /\ own \in [Scopes -> [Keys -> AnyValue \cup {Inherit}]]
    /\ \A s \in Scopes, k \in Keys : own[s][k] \in Savable(s, k)
    /\ verdict \in [Scopes -> {"valid", "refused", "none"}]
    /\ rq \in [Writers -> RequestType]
    /\ faults \in 0..MaxFaults
    /\ doubtful \subseteq Scopes

\* What the shop goes by when it offers TWINT and when it builds a client is
\* true of what it then uses: TWINT accepts the values in force for a scope.
\* Each exception is something that happened to this scope, or to the one whose
\* verdict it inherits, since it was last judged: another request for the same
\* values at the same time, one that ended before its verdict, one that removed
\* the verdict of a channel with null, or, for a channel with a verdict of its
\* own, a change of a value that it inherits.
VerdictTells == \A s \in Scopes : Clear(s) /\ IsValidated(s) => Effective(s) \in Accepted
=============================================================================
