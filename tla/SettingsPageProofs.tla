-------------------------- MODULE SettingsPageProofs --------------------------
(***************************************************************************)
(* Proofs about Settings and SettingsPage, for all sales channels,         *)
(* requests and values.                                                    *)
(*                                                                         *)
(* Of the server first.  A request that is alone works on what nobody else *)
(* changes: the verdict it puts back is the one in force, and what it had  *)
(* TWINT judge is what is stored when the answer comes.  A channel without *)
(* doubts has a verdict of its own, or nothing of its own.                 *)
(*                                                                         *)
(* Then of the page: it does with the server only what Settings allows, so *)
(* that all that is proved there holds here, and what the page saves fits  *)
(* the file it shows.                                                      *)
(***************************************************************************)
EXTENDS SettingsPage, TLAPS

AloneOK ==
    \A w, v \in Writers :
        rq[w].at # "idle" /\ rq[w].alone /\ v # w /\ rq[v].at # "idle"
            => rq[v].scope \notin Uses(rq[w].scope)

SavableOK ==
    \A w \in Writers : \A k \in DOMAIN rq[w].kvs : rq[w].kvs[k] \in Savable(rq[w].scope, k)

KeptOK(w) ==
    rq[w].at = "store" /\ rq[w].alone /\ rq[w].flag = "value"
        => (rq[w].kept <=> IsValidated(rq[w].scope))

ReadOK(w) ==
    rq[w].at = "set" /\ rq[w].alone => rq[w].read = Effective(rq[w].scope)

\* Nothing is open or in doubt about the verdict of a scope itself.
Settled(s) == s \notin doubtful /\ \A w \in Stored : rq[w].scope # s

InheritsOK ==
    \A c \in Channels : Settled(c) /\ verdict[c] = "none" => own[c] = Inheriting

JudgedOK ==
    \A s \in Scopes : Settled(s) /\ verdict[s] = "valid" => Effective(s) \in Accepted

IInv ==
    /\ TypeOK
    /\ AloneOK
    /\ SavableOK
    /\ \A w \in Writers : KeptOK(w) /\ ReadOK(w)
    /\ InheritsOK
    /\ JudgedOK

-----------------------------------------------------------------------------
LEMMA EffectiveType ==
    ASSUME TypeOK, NEW s \in Scopes
    PROVE  Effective(s) \in Credentials
<1>1. All \in Scopes
  BY DEF Scopes
<1>2. \A k \in Keys : Effective(s)[k] \in Values[k]
  <2>1. SUFFICES ASSUME NEW k \in Keys PROVE Effective(s)[k] \in Values[k]
    OBVIOUS
  <2>2. own[s][k] \in Savable(s, k) /\ own[All][k] \in Savable(All, k)
    BY <1>1 DEF TypeOK
  <2>. QED
    BY <2>2 DEF Effective, Savable
<1>3. \A k \in Keys : Effective(s)[k] \in AnyValue
  BY <1>2 DEF AnyValue
<1>4. Effective(s) \in [Keys -> AnyValue]
  BY <1>3 DEF Effective
<1>. QED
  BY <1>2, <1>4 DEF Credentials

\* A channel with nothing of its own has what is stored for all.
LEMMA InheritingIsAll ==
    ASSUME TypeOK, NEW c \in Channels, own[c] = Inheriting
    PROVE  Effective(c) = Effective(All)
BY DEF Effective, Inheriting, TypeOK, Scopes

\* So a verdict that is inherited is about what is inherited.
LEMMA VerdictsTell ==
    ASSUME TypeOK, InheritsOK, JudgedOK
    PROVE  VerdictTells
<1> SUFFICES ASSUME NEW s \in Scopes, Clear(s), IsValidated(s)
             PROVE  Effective(s) \in Accepted
  BY DEF VerdictTells
<1>1. Settled(s) /\ Settled(Judging(s)) /\ All \in Scopes
  BY DEF Clear, Settled, Scopes
<1>2. CASE verdict[s] # "none"
  BY <1>1, <1>2 DEF IsValidated, JudgedOK
<1>3. CASE verdict[s] = "none"
  <2>1. s \in Channels /\ verdict[All] = "valid" /\ Settled(All)
    BY <1>1, <1>3 DEF IsValidated, Judging, Scopes
  <2>2. Effective(All) \in Accepted
    BY <1>1, <2>1 DEF JudgedOK
  <2>3. own[s] = Inheriting
    BY <1>1, <1>3, <2>1 DEF InheritsOK
  <2>. QED
    BY <2>1, <2>2, <2>3, InheritingIsAll
<1>. QED
  BY <1>2, <1>3

LEMMA IdleType ==
    /\ Idle.at = "idle" /\ Idle.kvs = None /\ DOMAIN None = {} /\ Idle.scope = All
    /\ None \in UNION {[keys -> AnyValue \cup {Inherit}] : keys \in SUBSET Keys}
    /\ Idle \in RequestType
<1>1. None \in [{} -> AnyValue \cup {Inherit}]
  BY DEF None
<1>2. {} \in SUBSET Keys
  OBVIOUS
<1>3. None \in UNION {[keys -> AnyValue \cup {Inherit}] : keys \in SUBSET Keys}
  BY <1>1, <1>2
<1>. QED
  BY <1>3 DEF Idle, None, RequestType, Scopes, Flags

-----------------------------------------------------------------------------
LEMMA InitHolds == Init => IInv
<1> SUFFICES ASSUME Init PROVE IInv
  OBVIOUS
<1> USE DEF Init
<1>1. PICK c \in Installed :
        /\ own = [s \in Scopes |-> IF s = All THEN c ELSE Inheriting]
        /\ verdict = [s \in Scopes |-> IF s = All THEN Verdict(c \in Accepted) ELSE "none"]
  OBVIOUS
<1>2. c \in Credentials /\ All \in Scopes /\ All \notin Channels
  BY InstalledAssumption, ScopesAssumption DEF Scopes
<1>3. TypeOK
  <2>1. own \in [Scopes -> [Keys -> AnyValue \cup {Inherit}]]
    BY <1>1, <1>2 DEF Credentials, Inheriting
  <2>2. ASSUME NEW s \in Scopes, NEW k \in Keys PROVE own[s][k] \in Savable(s, k)
    BY <1>1, <1>2 DEF Credentials, Inheriting, Savable
  <2>3. verdict \in [Scopes -> {"valid", "refused", "none"}]
    BY <1>1 DEF Verdict
  <2>4. \A w \in Writers : rq[w] = Idle
    OBVIOUS
  <2>5. Idle \in RequestType
    BY IdleType
  <2>. QED
    BY <2>1, <2>2, <2>3, <2>5, FaultsAssumption DEF TypeOK
<1>4. \A w \in Writers : rq[w].at = "idle" /\ DOMAIN rq[w].kvs = {}
  BY IdleType
<1>5. AloneOK /\ SavableOK /\ \A w \in Writers : KeptOK(w) /\ ReadOK(w)
  BY <1>4 DEF AloneOK, SavableOK, KeptOK, ReadOK
<1>6. InheritsOK
  BY <1>1, <1>2 DEF InheritsOK, Scopes
<1>7. JudgedOK
  <2>1. SUFFICES ASSUME NEW s \in Scopes, verdict[s] = "valid" PROVE Effective(s) \in Accepted
    BY DEF JudgedOK
  <2>2. s = All /\ c \in Accepted
    BY <1>1, <1>2, <2>1 DEF Verdict
  <2>3. Effective(All) = c
    <3>1. c \in [Keys -> AnyValue] /\ \A k \in Keys : c[k] # Inherit
      BY <1>2, ValuesAssumption DEF Credentials
    <3>. QED
      BY <1>1, <1>2, <3>1 DEF Effective
  <2>. QED
    BY <2>2, <2>3
<1>. QED
  BY <1>3, <1>5, <1>6, <1>7 DEF IInv

-----------------------------------------------------------------------------
(***************************************************************************)
(* Steps that change neither values nor verdicts.                          *)
(***************************************************************************)
LEMMA SameConfig ==
    ASSUME config' = config
    PROVE  \A s : Effective(s)' = Effective(s) /\ (IsValidated(s)' <=> IsValidated(s))
BY DEF config, Effective, IsValidated

LEMMA SameRequest ==
    ASSUME IInv, config' = config, NEW v \in Writers, rq'[v] = rq[v]
    PROVE  KeptOK(v)' /\ ReadOK(v)'
<1>1. KeptOK(v) /\ ReadOK(v)
  BY DEF IInv
<1>2. /\ Effective(rq[v].scope)' = Effective(rq[v].scope)
      /\ IsValidated(rq[v].scope)' <=> IsValidated(rq[v].scope)
  BY DEF config, Effective, IsValidated
<1>. QED
  BY <1>1, <1>2 DEF KeptOK, ReadOK

\* They keep what is known of the scopes if no request leaves Stored without
\* a doubt about its scope.
LEMMA SameScopes ==
    ASSUME IInv, config' = config, doubtful \subseteq doubtful',
           \A w \in Stored : (w \in Stored' /\ rq'[w].scope = rq[w].scope)
                               \/ rq[w].scope \in doubtful'
    PROVE  InheritsOK' /\ JudgedOK'
<1>1. \A s : Settled(s)' => Settled(s)
  BY DEF Settled
<1>. QED
  BY <1>1, SameConfig DEF IInv, InheritsOK, JudgedOK, config, Scopes

LEMMA SaveKeeps ==
    ASSUME IInv, NEW w \in Writers, NEW s \in Scopes, NEW keys \in SUBSET Keys,
           NEW flag \in Flags, NEW kvs \in Changes(s, keys), Save(w, s, kvs, flag)
    PROVE  IInv'
<1> USE DEF Save
<1> DEFINE new == [Idle EXCEPT !.at = "before", !.scope = s, !.kvs = kvs, !.flag = flag,
                               !.alone = \A u \in Active : rq[u].scope \notin Uses(s)]
           old(v) == [rq[v] EXCEPT !.alone = @ /\ s \notin Uses(rq[v].scope)]
<1>1. /\ rq' \in [Writers -> RequestType]
      /\ rq'[w] = new
      /\ \A v \in Writers \ {w} : rq[v] \in RequestType /\ rq'[v] = old(v)
  <2>1. kvs \in UNION {[ks -> AnyValue \cup {Inherit}] : ks \in SUBSET Keys}
    BY DEF Changes
  <2>2. new \in RequestType
    BY <2>1, IdleType DEF RequestType, Idle
  <2>3. \A v \in Writers : rq[v] \in RequestType
    BY DEF IInv, TypeOK
  <2>4. ASSUME NEW v \in Writers PROVE old(v) \in RequestType
    <3>1. (rq[v].alone /\ s \notin Uses(rq[v].scope)) \in BOOLEAN
      OBVIOUS
    <3>. QED
      BY <2>3, <3>1 DEF RequestType
  <2>5. rq' = [v \in Writers |-> IF v = w THEN new ELSE old(v)]
    OBVIOUS
  <2>. HIDE DEF new, old, Save
  <2>. QED
    BY <2>2, <2>3, <2>4, <2>5
<1>2. /\ rq'[w].at = "before" /\ rq'[w].kvs = kvs /\ rq'[w].scope = s
      /\ rq'[w].alone => \A u \in Active : rq[u].scope \notin Uses(s)
      /\ \A v \in Writers \ {w} :
            /\ rq'[v].at = rq[v].at /\ rq'[v].kvs = rq[v].kvs /\ rq'[v].scope = rq[v].scope
            /\ rq'[v].kept = rq[v].kept /\ rq'[v].flag = rq[v].flag /\ rq'[v].read = rq[v].read
            /\ rq'[v].alone => rq[v].alone /\ s \notin Uses(rq[v].scope)
  <2>1. ASSUME NEW v \in Writers \ {w}
        PROVE  /\ rq'[v].at = rq[v].at /\ rq'[v].kvs = rq[v].kvs /\ rq'[v].scope = rq[v].scope
               /\ rq'[v].kept = rq[v].kept /\ rq'[v].flag = rq[v].flag
               /\ rq'[v].read = rq[v].read
               /\ rq'[v].alone => rq[v].alone /\ s \notin Uses(rq[v].scope)
    <3>1. rq[v] \in RequestType /\ rq'[v] = old(v)
      BY <1>1
    <3>. HIDE DEF Save
    <3>. QED
      BY <3>1 DEF RequestType
  <2>2. /\ rq'[w].at = "before" /\ rq'[w].kvs = kvs /\ rq'[w].scope = s
        /\ rq'[w].alone => \A u \in Active : rq[u].scope \notin Uses(s)
    BY <1>1 DEF Idle
  <2>. QED
    BY <2>1, <2>2
<1> HIDE DEF new, old
<1>3. TypeOK'
  BY <1>1 DEF IInv, TypeOK, config
<1>4. AloneOK'
  <2>1. SUFFICES ASSUME NEW u \in Writers, NEW v \in Writers, rq'[u].at # "idle",
                        rq'[u].alone, v # u, rq'[v].at # "idle"
                 PROVE  rq'[v].scope \notin Uses(rq'[u].scope)
    BY DEF AloneOK
  <2>. HIDE DEF Save
  <2>2. CASE u = w
    <3>1. v \in Active /\ rq'[v].scope = rq[v].scope
      BY <1>2, <2>1, <2>2 DEF Active
    <3>. QED
      BY <1>2, <2>1, <2>2, <3>1
  <2>3. CASE v = w
    <3>1. s \notin Uses(rq[u].scope) /\ rq'[u].scope = rq[u].scope
      BY <1>2, <2>1, <2>3
    <3>. QED
      BY <1>2, <2>3, <3>1 DEF Uses
  <2>4. CASE u # w /\ v # w
    BY <1>2, <2>1, <2>4 DEF IInv, AloneOK
  <2>. QED
    BY <2>2, <2>3, <2>4
<1>5. SavableOK'
  <2>1. \A k \in DOMAIN kvs : kvs[k] \in Savable(s, k)
    BY DEF Changes
  <2>. QED
    BY <1>1, <1>2, <2>1 DEF SavableOK, IInv
<1>6. \A v \in Writers : KeptOK(v)' /\ ReadOK(v)'
  <2>1. KeptOK(w)' /\ ReadOK(w)'
    BY <1>2 DEF KeptOK, ReadOK
  <2>2. ASSUME NEW v \in Writers \ {w} PROVE KeptOK(v)' /\ ReadOK(v)'
    <3>1. KeptOK(v) /\ ReadOK(v)
      BY DEF IInv
    <3>2. rq'[v].scope = rq[v].scope /\ own' = own /\ verdict' = verdict
      BY <1>2 DEF config
    <3>. HIDE DEF Save
    <3>3. /\ Effective(rq[v].scope)' = Effective(rq[v].scope)
          /\ IsValidated(rq[v].scope)' <=> IsValidated(rq[v].scope)
      BY <3>2 DEF Effective, IsValidated
    <3>. QED
      BY <1>2, <3>1, <3>3 DEF KeptOK, ReadOK
  <2>. QED
    BY <2>1, <2>2
<1>7. InheritsOK' /\ JudgedOK'
  <2>1. config' = config /\ doubtful \subseteq doubtful'
    BY DEF config
  <2>2. \A v \in Stored : v \in Stored' /\ rq'[v].scope = rq[v].scope
    BY <1>2 DEF Stored
  <2>. QED
    BY <2>1, <2>2, SameScopes
<1>. QED
  BY <1>3, <1>4, <1>5, <1>6, <1>7 DEF IInv

LEMMA BeforeKeeps ==
    ASSUME IInv, NEW w \in Writers, Before(w)
    PROVE  IInv'
<1> USE DEF Before
<1>1. /\ rq' \in [Writers -> RequestType]
      /\ rq'[w] = [rq[w] EXCEPT !.at = "store", 
                     !.kept = rq[w].flag = "value" /\ IsValidated(rq[w].scope)]
      /\ \A v \in Writers \ {w} : rq'[v] = rq[v]
  <2>1. [rq[w] EXCEPT !.at = "store",
               !.kept = rq[w].flag = "value" /\ IsValidated(rq[w].scope)] \in RequestType
    BY DEF IInv, TypeOK, RequestType, IsValidated
  <2>. QED
    BY <2>1 DEF IInv, TypeOK, Kept
<1>2. /\ rq'[w].at = "store" /\ rq'[w].flag = rq[w].flag
      /\ rq[w].flag = "value" => (rq'[w].kept <=> IsValidated(rq[w].scope))
      /\ rq'[w].kvs = rq[w].kvs /\ rq'[w].scope = rq[w].scope /\ (rq'[w].alone <=> rq[w].alone)
  BY <1>1 DEF IInv, TypeOK, RequestType
<1>3. TypeOK'
  BY <1>1 DEF IInv, TypeOK, config
<1>4. AloneOK' /\ SavableOK'
  BY <1>1, <1>2 DEF Before, AloneOK, SavableOK, IInv
<1>5. \A v \in Writers : KeptOK(v)' /\ ReadOK(v)'
  <2>1. KeptOK(w)' /\ ReadOK(w)'
    <3>1. IsValidated(rq[w].scope)' <=> IsValidated(rq[w].scope)
      BY DEF config, IsValidated
    <3>. QED
      BY <1>2, <3>1 DEF KeptOK, ReadOK
  <2>2. ASSUME NEW v \in Writers \ {w} PROVE KeptOK(v)' /\ ReadOK(v)'
    BY <1>1, SameRequest
  <2>. QED
    BY <2>1, <2>2
<1>6. InheritsOK' /\ JudgedOK'
  BY <1>1, <1>2, SameScopes DEF Stored
<1>. QED
  BY <1>3, <1>4, <1>5, <1>6 DEF IInv

LEMMA FaultKeeps ==
    ASSUME IInv, NEW w \in Writers, Fault(w)
    PROVE  IInv'
<1> USE DEF Fault
<1>1. /\ rq' \in [Writers -> RequestType]
      /\ rq'[w] = Idle
      /\ \A v \in Writers \ {w} : rq'[v] = rq[v]
  BY IdleType DEF IInv, TypeOK
<1>2. rq'[w].at = "idle" /\ DOMAIN rq'[w].kvs = {}
  BY <1>1, IdleType
<1>3. TypeOK'
  BY <1>1, FaultsAssumption DEF IInv, TypeOK, config, Stored, RequestType
<1>4. AloneOK' /\ SavableOK'
  BY <1>1, <1>2 DEF Before, AloneOK, SavableOK, IInv
<1>5. \A v \in Writers : KeptOK(v)' /\ ReadOK(v)'
  <2>1. KeptOK(w)' /\ ReadOK(w)'
    BY <1>2 DEF KeptOK, ReadOK
  <2>2. ASSUME NEW v \in Writers \ {w} PROVE KeptOK(v)' /\ ReadOK(v)'
    BY <1>1, SameRequest
  <2>. QED
    BY <2>1, <2>2
<1>6. InheritsOK' /\ JudgedOK'
  BY <1>1, <1>2, SameScopes DEF Stored
<1>. QED
  BY <1>3, <1>4, <1>5, <1>6 DEF IInv

LEMMA ReadKeeps ==
    ASSUME IInv, NEW w \in Writers, Read(w)
    PROVE  IInv'
<1> DEFINE c == Effective(rq[w].scope)
<1>a. rq[w].at = "read" /\ UNCHANGED <<config, faults>>
  BY DEF Read
<1>b. rq[w] \in RequestType /\ rq[w].scope \in Scopes
  BY DEF IInv, TypeOK, RequestType
<1>1. CASE rq' = [rq EXCEPT ![w] = Idle] /\ doubtful' = doubtful \cup {rq[w].scope}
  <2>1. /\ rq' \in [Writers -> RequestType]
        /\ rq'[w] = Idle
        /\ \A v \in Writers \ {w} : rq'[v] = rq[v]
    BY <1>1, IdleType DEF IInv, TypeOK
  <2>2. rq'[w].at = "idle" /\ DOMAIN rq'[w].kvs = {}
    BY <2>1, IdleType
  <2>3. TypeOK'
    BY <1>1, <1>a, <1>b, <2>1 DEF IInv, TypeOK, config
  <2>4. AloneOK' /\ SavableOK'
    BY <2>1, <2>2 DEF AloneOK, SavableOK, IInv
  <2>5. \A v \in Writers : KeptOK(v)' /\ ReadOK(v)'
    <3>1. KeptOK(w)' /\ ReadOK(w)'
      BY <2>2 DEF KeptOK, ReadOK
    <3>2. ASSUME NEW v \in Writers \ {w} PROVE KeptOK(v)' /\ ReadOK(v)'
      BY <1>a, <2>1, SameRequest
    <3>. QED
      BY <3>1, <3>2
  <2>6. InheritsOK' /\ JudgedOK'
    BY <1>1, <1>a, <2>1, <2>2, SameScopes DEF Stored
  <2>. QED
    BY <2>3, <2>4, <2>5, <2>6 DEF IInv
<1>2. CASE /\ rq' = [rq EXCEPT ![w] = [@ EXCEPT !.at = "set", !.read = c]]
           /\ UNCHANGED doubtful
  <2>0. c \in Credentials
    BY <1>b, EffectiveType DEF IInv
  <2>1. /\ rq' \in [Writers -> RequestType]
        /\ rq'[w] = [rq[w] EXCEPT !.at = "set", !.read = c]
        /\ \A v \in Writers \ {w} : rq'[v] = rq[v]
    <3>1. [rq[w] EXCEPT !.at = "set", !.read = c] \in RequestType
      BY <1>b, <2>0 DEF RequestType
    <3>. QED
      BY <1>2, <3>1 DEF IInv, TypeOK
  <2>2. /\ rq'[w].at = "set" /\ rq'[w].read = c /\ rq'[w].kvs = rq[w].kvs
        /\ rq'[w].scope = rq[w].scope /\ (rq'[w].alone <=> rq[w].alone)
    BY <1>b, <2>1 DEF RequestType
  <2>3. TypeOK'
    BY <1>2, <1>a, <2>1 DEF IInv, TypeOK, config
  <2>4. AloneOK' /\ SavableOK'
    <3>1. \A v \in Writers : (rq'[v].at = "idle" <=> rq[v].at = "idle")
                              /\ (rq'[v].alone <=> rq[v].alone)
      BY <1>a, <2>1, <2>2
    <3>3. AloneOK'
      BY <2>2, <2>1, <3>1 DEF AloneOK, IInv
    <3>2. SavableOK'
      BY <2>1, <2>2 DEF SavableOK, IInv
    <3>. QED
      BY <3>2, <3>3
  <2>5. \A v \in Writers : KeptOK(v)' /\ ReadOK(v)'
    <3>1. KeptOK(w)' /\ ReadOK(w)'
      <4>1. Effective(rq[w].scope)' = c
        BY <1>a, <2>2 DEF config, Effective
      <4>. QED
        BY <2>2, <4>1 DEF KeptOK, ReadOK
    <3>2. ASSUME NEW v \in Writers \ {w} PROVE KeptOK(v)' /\ ReadOK(v)'
      BY <1>a, <2>1, SameRequest
    <3>. QED
      BY <3>1, <3>2
  <2>6. InheritsOK' /\ JudgedOK'
    BY <1>2, <1>a, <2>1, <2>2, SameScopes DEF Stored
  <2>. QED
    BY <2>3, <2>4, <2>5, <2>6 DEF IInv
<1>. QED
  BY <1>1, <1>2 DEF Read

-----------------------------------------------------------------------------
(***************************************************************************)
(* Steps that change the values or the verdict of one scope.               *)
(***************************************************************************)
\* A request keeps what is true of it while another one changes a scope that
\* it does not use.
LEMMA NobodyElse ==
    ASSUME IInv, NEW w \in Writers, rq[w].at # "idle", NEW v \in Writers, v # w,
           rq'[v] = rq[v],
           \A t \in Scopes : t # rq[w].scope => own'[t] = own[t] /\ verdict'[t] = verdict[t]
    PROVE  KeptOK(v)' /\ ReadOK(v)'
<1> SUFFICES ASSUME rq[v].at # "idle", rq[v].alone PROVE KeptOK(v)' /\ ReadOK(v)'
  BY DEF KeptOK, ReadOK
<1>1. rq[w].scope \notin {rq[v].scope, All}
  BY DEF IInv, AloneOK, Uses
<1>2. rq[v].scope \in Scopes /\ All \in Scopes
  BY DEF IInv, TypeOK, RequestType, Scopes
<1>3. /\ Effective(rq[v].scope)' = Effective(rq[v].scope)
      /\ IsValidated(rq[v].scope)' <=> IsValidated(rq[v].scope)
  BY <1>1, <1>2 DEF Effective, IsValidated
<1>. QED
  BY <1>3 DEF IInv, KeptOK, ReadOK

LEMMA StoreKeeps ==
    ASSUME IInv, NEW w \in Writers, Store(w)
    PROVE  IInv'
<1> DEFINE s == rq[w].scope
           kvs == rq[w].kvs
           flag == rq[w].flag
<1> HIDE DEF s, kvs, flag
<1>0. rq[w] \in RequestType /\ s \in Scopes /\ All \in Scopes /\ rq[w].at = "store"
  BY DEF IInv, TypeOK, RequestType, Store, Scopes, s
<1>1. /\ own' = [own EXCEPT ![s] =
               [k \in Keys |-> IF k \in DOMAIN kvs THEN kvs[k] ELSE own[s][k]]]
      /\ verdict' = [verdict EXCEPT ![s] =
               CASE flag = "value" -> Verdict(rq[w].kept)
                 [] flag = "null" -> "none"
                 [] OTHER -> verdict[s]]
      /\ doubtful' = doubtful \cup Doubts(w)
      /\ rq' = [rq EXCEPT ![w] =
               IF Matters(kvs)
               THEN [Idle EXCEPT !.at = "read", !.scope = s, !.alone = rq[w].alone]
               ELSE Idle]
      /\ faults' = faults
  BY DEF Store, s, kvs, flag
<1>2. /\ rq' \in [Writers -> RequestType]
      /\ rq'[w].at \in {"idle", "read"} /\ DOMAIN rq'[w].kvs = {}
      /\ Matters(kvs) => rq'[w].at = "read" /\ rq'[w].scope = s /\ (rq'[w].alone <=> rq[w].alone)
      /\ ~Matters(kvs) => rq'[w].at = "idle"
      /\ \A v \in Writers \ {w} : rq'[v] = rq[v]
  <2>1. [Idle EXCEPT !.at = "read", !.scope = s, !.alone = rq[w].alone] \in RequestType
    BY <1>0, IdleType DEF RequestType
  <2>2. rq \in [Writers -> RequestType]
    BY DEF IInv, TypeOK
  <2>3. CASE Matters(kvs)
    <3>1. rq'[w] = [Idle EXCEPT !.at = "read", !.scope = s, !.alone = rq[w].alone]
      BY <1>1, <2>2, <2>3
    <3>. QED
      BY <1>1, <2>1, <2>2, <2>3, <3>1, IdleType DEF Idle
  <2>4. CASE ~Matters(kvs)
    BY <1>1, <2>2, <2>4, IdleType
  <2>. QED
    BY <2>3, <2>4
<1>3. ~Matters(kvs) => own' = own
  <2>1. SUFFICES ASSUME ~Matters(kvs) PROVE own' = own
    OBVIOUS
  <2>2. DOMAIN kvs = {}
    BY <2>1 DEF Matters
  <2>3. own \in [Scopes -> [Keys -> AnyValue \cup {Inherit}]]
    BY DEF IInv, TypeOK
  <2>4. [k \in Keys |-> IF k \in DOMAIN kvs THEN kvs[k] ELSE own[s][k]] = own[s]
    BY <1>0, <2>2, <2>3
  <2>. QED
    BY <1>0, <1>1, <2>3, <2>4
<1>4. \A t \in Scopes : t # s => own'[t] = own[t] /\ verdict'[t] = verdict[t]
  BY <1>0, <1>1 DEF IInv, TypeOK
<1>5. verdict \in [Scopes -> {"valid", "refused", "none"}]
  BY DEF IInv, TypeOK
<1>6. /\ doubtful \subseteq doubtful'
      /\ s \notin doubtful' /\ flag = "value" => rq[w].alone /\ Judging(s) \notin doubtful
      /\ s \notin doubtful' /\ flag = "null" /\ s # All => own'[s] = Inheriting
      /\ \A t \in Scopes, k \in DOMAIN kvs :
            s = All /\ t # All /\ t \notin doubtful' /\ verdict[t] # "none" /\ own[t][k] = Inherit
                => kvs[k] = own[All][k]
  BY <1>0, <1>1 DEF Doubts, s, kvs, flag
<1>7. \A t : Settled(t)' => Settled(t)
  BY <1>0, <1>2, <1>6 DEF Stored, Settled
<1>7a. \A t : t = s /\ Settled(t)' => ~Matters(kvs)
  BY <1>2 DEF Settled, Stored
<1>8. TypeOK'
  <2>1. \A k \in DOMAIN kvs : kvs[k] \in Savable(s, k)
    BY DEF IInv, SavableOK, s, kvs
  <2>2. kvs \in UNION {[keys -> AnyValue \cup {Inherit}] : keys \in SUBSET Keys}
    BY <1>0 DEF RequestType, kvs
  <2>3. \A k \in DOMAIN kvs : kvs[k] \in AnyValue \cup {Inherit}
    BY <2>2
  <2>4. own' \in [Scopes -> [Keys -> AnyValue \cup {Inherit}]]
    <3>1. [k \in Keys |-> IF k \in DOMAIN kvs THEN kvs[k] ELSE own[s][k]]
             \in [Keys -> AnyValue \cup {Inherit}]
      BY <1>0, <2>3 DEF IInv, TypeOK
    <3>. QED
      BY <1>1, <3>1 DEF IInv, TypeOK
  <2>5. \A k \in Keys : own'[s][k] \in Savable(s, k)
    BY <1>0, <1>1, <2>1 DEF IInv, TypeOK
  <2>6. \A t \in Scopes, k \in Keys : own'[t][k] \in Savable(t, k)
    BY <1>4, <2>5 DEF IInv, TypeOK
  <2>7. verdict' \in [Scopes -> {"valid", "refused", "none"}]
    BY <1>0, <1>1, <1>5 DEF Verdict
  <2>8. doubtful' \subseteq Scopes /\ faults' \in 0..MaxFaults
    BY <1>0, <1>1 DEF IInv, TypeOK, Doubts
  <2>. QED
    BY <1>2, <2>4, <2>6, <2>7, <2>8 DEF TypeOK
<1>9. AloneOK'
  <2>1. rq'[w].at # "idle" => rq'[w].scope = rq[w].scope /\ (rq'[w].alone <=> rq[w].alone)
    BY <1>2 DEF s
  <2>. QED
    BY <1>0, <1>2, <2>1 DEF AloneOK, IInv
<1>10. SavableOK'
  BY <1>2 DEF SavableOK, IInv
<1>11. \A v \in Writers : KeptOK(v)' /\ ReadOK(v)'
  <2>1. KeptOK(w)' /\ ReadOK(w)'
    BY <1>2 DEF KeptOK, ReadOK
  <2>2. ASSUME NEW v \in Writers \ {w} PROVE KeptOK(v)' /\ ReadOK(v)'
    BY <1>0, <1>2, <1>4, NobodyElse DEF s
  <2>. QED
    BY <2>1, <2>2
<1>12. InheritsOK'
  <2>1. SUFFICES ASSUME NEW c \in Channels, Settled(c)', verdict'[c] = "none"
                 PROVE  own'[c] = Inheriting
    BY DEF InheritsOK
  <2>2. c \in Scopes /\ c # All /\ c \notin doubtful' /\ Settled(c)
    BY <1>7, <2>1, ScopesAssumption DEF Scopes, Settled
  <2>3. CASE c # s
    BY <1>4, <2>1, <2>2, <2>3 DEF IInv, InheritsOK
  <2>4. CASE c = s /\ flag = "null"
    BY <1>6, <2>2, <2>4
  <2>5. CASE c = s /\ flag # "null"
    <3>1. verdict[c] = "none"
      BY <1>0, <1>1, <1>5, <2>1, <2>5 DEF Verdict
    <3>. QED
      BY <1>3, <1>7a, <2>1, <2>2, <2>5, <3>1 DEF IInv, InheritsOK
  <2>. QED
    BY <2>3, <2>4, <2>5
<1>13. JudgedOK'
  <2>1. SUFFICES ASSUME NEW t \in Scopes, Settled(t)', verdict'[t] = "valid"
                 PROVE  Effective(t)' \in Accepted
    BY DEF JudgedOK
  <2>2. Settled(t) /\ t \notin doubtful'
    BY <1>7, <2>1 DEF Settled
  <2>3. CASE t = s
    <3>1. own' = own
      BY <1>3, <1>7a, <2>1, <2>3
    <3>2. Effective(t)' = Effective(t)
      BY <3>1 DEF Effective
    <3>3. CASE flag # "value"
      <4>1. verdict[t] = "valid"
        BY <1>0, <1>1, <1>5, <2>1, <2>3, <3>3
      <4>. QED
        BY <2>2, <3>2, <4>1 DEF IInv, JudgedOK
    <3>4. CASE flag = "value"
      <4>1. rq[w].alone /\ Judging(s) \notin doubtful
        BY <1>6, <2>2, <2>3, <3>4
      <4>2. IsValidated(s)
        <5>1. rq[w].kept
          BY <1>0, <1>1, <1>5, <2>1, <2>3, <3>4 DEF Verdict
        <5>. QED
          BY <1>0, <3>4, <4>1, <5>1 DEF IInv, KeptOK, s, flag
      <4>3. \A v \in Stored : rq[v].scope \notin {s, All}
        <5>1. w \notin Stored
          BY <1>0 DEF Stored
        <5>. QED
          BY <1>0, <4>1, <5>1 DEF IInv, AloneOK, Uses, Stored, s
      <4>4. Clear(s)
        BY <2>2, <2>3, <4>1, <4>3 DEF Clear, Judging, Settled
      <4>. QED
        BY <1>0, <2>3, <3>2, <4>2, <4>4, VerdictsTell DEF IInv, VerdictTells
    <3>. QED
      BY <3>3, <3>4
  <2>4. CASE t # s
    <3>1. verdict[t] = "valid" /\ own'[t] = own[t]
      BY <1>4, <2>1, <2>4
    <3>2. \A k \in Keys : own[t][k] = Inherit => own'[All][k] = own[All][k]
      <4>1. CASE s # All
        BY <1>0, <1>4, <4>1
      <4>2. CASE s = All
        <5>1. SUFFICES ASSUME NEW k \in Keys, own[t][k] = Inherit
                       PROVE  own'[All][k] = own[All][k]
          OBVIOUS
        <5>2. own'[All][k] = IF k \in DOMAIN kvs THEN kvs[k] ELSE own[All][k]
          BY <1>0, <1>1, <4>2 DEF IInv, TypeOK
        <5>. QED
          BY <1>6, <2>2, <2>4, <3>1, <4>2, <5>1, <5>2
      <4>. QED
        BY <4>1, <4>2
    <3>3. Effective(t)' = Effective(t)
      BY <3>1, <3>2 DEF Effective
    <3>. QED
      BY <2>2, <3>1, <3>3 DEF IInv, JudgedOK
  <2>. QED
    BY <2>3, <2>4
<1>. QED
  BY <1>8, <1>9, <1>10, <1>11, <1>12, <1>13 DEF IInv

LEMMA SetKeeps ==
    ASSUME IInv, NEW w \in Writers, Set(w)
    PROVE  IInv'
<1> DEFINE s == rq[w].scope
<1> HIDE DEF s
<1>0. rq[w] \in RequestType /\ s \in Scopes /\ rq[w].at = "set"
  BY DEF IInv, TypeOK, RequestType, Set, s
<1>1. PICK valid \in {FALSE, rq[w].read \in Accepted} :
        verdict' = [verdict EXCEPT ![s] = Verdict(valid)]
  BY DEF Set, s
<1>2. /\ doubtful' = IF rq[w].alone THEN doubtful \ {s} ELSE doubtful \cup {s}
      /\ own' = own /\ faults' = faults
      /\ rq' \in [Writers -> RequestType]
      /\ rq'[w] = Idle
      /\ \A v \in Writers \ {w} : rq'[v] = rq[v]
  BY IdleType DEF IInv, TypeOK, Set, s
<1>3. rq'[w].at = "idle" /\ DOMAIN rq'[w].kvs = {}
  BY <1>2, IdleType
<1>4. /\ verdict'[s] \in {"valid", "refused"}
      /\ verdict'[s] = "valid" => rq[w].read \in Accepted
      /\ \A t \in Scopes : t # s => verdict'[t] = verdict[t]
  BY <1>0, <1>1 DEF IInv, TypeOK, Verdict
<1>5. \A t : t # s /\ Settled(t)' => Settled(t)
  BY <1>2 DEF Settled, Stored, s
<1>6. \A t \in Scopes : Effective(t)' = Effective(t)
  BY <1>2 DEF Effective
<1>7. TypeOK'
  <2>1. verdict' \in [Scopes -> {"valid", "refused", "none"}]
    BY <1>0, <1>1 DEF IInv, TypeOK, Verdict
  <2>. QED
    BY <1>0, <1>2, <2>1 DEF IInv, TypeOK
<1>8. AloneOK' /\ SavableOK'
  BY <1>2, <1>3 DEF AloneOK, SavableOK, IInv
<1>9. \A v \in Writers : KeptOK(v)' /\ ReadOK(v)'
  <2>1. KeptOK(w)' /\ ReadOK(w)'
    BY <1>3 DEF KeptOK, ReadOK
  <2>2. ASSUME NEW v \in Writers \ {w} PROVE KeptOK(v)' /\ ReadOK(v)'
    BY <1>0, <1>2, <1>4, NobodyElse DEF s
  <2>. QED
    BY <2>1, <2>2
<1>10. InheritsOK'
  <2>1. SUFFICES ASSUME NEW c \in Channels, Settled(c)', verdict'[c] = "none"
                 PROVE  own'[c] = Inheriting
    BY DEF InheritsOK
  <2>2. c # s
    BY <1>4, <2>1
  <2>. QED
    BY <1>2, <1>4, <1>5, <2>1, <2>2 DEF IInv, InheritsOK, Scopes
<1>11. JudgedOK'
  <2>1. SUFFICES ASSUME NEW t \in Scopes, Settled(t)', verdict'[t] = "valid"
                 PROVE  Effective(t)' \in Accepted
    BY DEF JudgedOK
  <2>2. CASE t # s
    BY <1>4, <1>5, <1>6, <2>1, <2>2 DEF IInv, JudgedOK
  <2>3. CASE t = s
    <3>1. rq[w].alone
      BY <1>2, <2>1, <2>3 DEF Settled
    <3>2. rq[w].read = Effective(s)
      BY <1>0, <3>1 DEF IInv, ReadOK, s
    <3>. QED
      BY <1>4, <1>6, <2>1, <2>3, <3>2
  <2>. QED
    BY <2>2, <2>3
<1>. QED
  BY <1>7, <1>8, <1>9, <1>10, <1>11 DEF IInv

-----------------------------------------------------------------------------
LEMMA NextKeeps == IInv /\ [Next]_vars => IInv'
<1> SUFFICES ASSUME IInv, [Next]_vars PROVE IInv'
  OBVIOUS
<1>1. CASE UNCHANGED vars
  BY <1>1 DEF vars, config, IInv, TypeOK, AloneOK, SavableOK, KeptOK, ReadOK, InheritsOK,
              JudgedOK, Settled, Stored, IsValidated, Effective
<1>2. ASSUME NEW w \in Writers, Before(w) \/ Store(w) \/ Read(w) \/ Set(w) \/ Fault(w)
      PROVE  IInv'
  BY <1>2, BeforeKeeps, StoreKeeps, ReadKeeps, SetKeeps, FaultKeeps
<1>3. ASSUME NEW w \in Writers, NEW s \in Scopes, NEW keys \in SUBSET Keys,
             NEW flag \in Flags, NEW kvs \in Changes(s, keys), Save(w, s, kvs, flag)
      PROVE  IInv'
  BY <1>3, SaveKeeps
<1>. QED
  BY <1>1, <1>2, <1>3 DEF Next, Server

THEOREM Invariance == Spec => []IInv
BY InitHolds, NextKeeps, PTL DEF Spec

(***************************************************************************)
(* The variables have their types: a scope never holds a value that may    *)
(* not be saved for it.                                                    *)
(***************************************************************************)
THEOREM TypeCorrect == Spec => []TypeOK
<1>1. IInv => TypeOK
  BY DEF IInv
<1>. QED
  BY <1>1, Invariance, PTL

(***************************************************************************)
(* Whatever is saved, by whom and for which scope, and whatever ends       *)
(* half-way: where nothing is in doubt, "validated" is said only of        *)
(* credentials TWINT accepts.                                              *)
(***************************************************************************)
THEOREM VerdictTellsAlways == Spec => []VerdictTells
<1>1. IInv => VerdictTells
  BY VerdictsTell DEF IInv
<1>. QED
  BY <1>1, Invariance, PTL

-----------------------------------------------------------------------------
\* The page.
PageTypes ==
    /\ fields \in Credentials
    /\ shown \in Files \cup {Missing} /\ file \in Files \cup {Missing}
    /\ cert \in Files \cup {Missing, Inherit}
    /\ uploads \in [Files -> Nat]
    /\ typed \in BOOLEAN /\ loads \in BOOLEAN /\ switch \in BOOLEAN
    /\ locked \in BOOLEAN /\ testing \in BOOLEAN /\ loading \in BOOLEAN
    /\ crossed \in BOOLEAN /\ late \in BOOLEAN
    /\ tested \in Credentials \cup {None}
    /\ edits \in 0..MaxEdits
    /\ \A f \in Files : uploads[f] <= edits

\* Without crossing, what is under way is of the file shown.
UploadsOK ==
    /\ shown \in {file, Missing}
    /\ \A f \in Files : uploads[f] > 0 => crossed \/ shown \in {f, Missing}

Full(c) == c["certificate"] # Missing /\ c["storeUuid"] # Missing

\* The request of the page has everything, and brings it where it belongs.
RequestOK ==
    /\ rq[Page].at \in {"before", "store"} =>
           rq[Page].scope = All /\ DOMAIN rq[Page].kvs = Keys /\ Full(rq[Page].kvs)
    /\ PageIsJudged

PageInv ==
    /\ IInv
    /\ PageTypes
    /\ UploadsOK
    /\ CertificateIsOfFile
    /\ LockedForPassword
    /\ RequestOK

-----------------------------------------------------------------------------
LEMMA CredentialsOfAll == TypeOK => own[All] \in Credentials
<1> SUFFICES ASSUME TypeOK PROVE own[All] \in Credentials
  OBVIOUS
<1>1. All \in Scopes
  BY DEF Scopes
<1>2. \A k \in Keys : own[All][k] \in Values[k]
  BY <1>1 DEF TypeOK, Savable
<1>3. own[All] \in [Keys -> AnyValue]
  BY <1>1, <1>2 DEF TypeOK, AnyValue
<1>. QED
  BY <1>2, <1>3 DEF Credentials

\* A field of the page changed.
LEMMA FieldChanged ==
    ASSUME fields \in Credentials, NEW k \in Keys, NEW v \in Values[k]
    PROVE  [fields EXCEPT ![k] = v] \in Credentials
<1>1. v \in AnyValue
  BY DEF AnyValue
<1>. QED
  BY <1>1 DEF Credentials

LEMMA FieldsCanBeSaved ==
    ASSUME fields \in Credentials
    PROVE  fields \in Changes(All, Keys) /\ DOMAIN fields = Keys
BY DEF Credentials, Changes, Savable

LEMMA FileIsValue ==
    /\ \A f \in Files \cup {Missing} : f \in Values["certificate"]
    /\ "certificate" \in Keys /\ "storeUuid" \in Keys /\ "testMode" \in Keys
    /\ Inherit \notin Files \cup {Missing} /\ Missing \notin Files
    /\ {On, Off} = Values["testMode"]
BY PageAssumption, ValuesAssumption DEF Keys

-----------------------------------------------------------------------------
LEMMA PageInit == InitPage => PageInv
<1> SUFFICES ASSUME InitPage PROVE PageInv
  OBVIOUS
<1>1. IInv
  BY InitHolds DEF InitPage
<1>2. own[All] \in Credentials
  BY <1>1, CredentialsOfAll DEF IInv
<1>3. fields \in Credentials
  <2>1. PICK query \in Queries : fields = Toggled(query)
    BY DEF InitPage
  <2>2. [own[All] EXCEPT !["testMode"] = Off] \in Credentials
    <3>1. Off \in AnyValue
      BY FileIsValue DEF AnyValue
    <3>. QED
      BY <1>2, <3>1, FileIsValue DEF Credentials
  <2>. QED
    BY <1>2, <2>1, <2>2 DEF Toggled
<1>4. switch \in BOOLEAN
  BY DEF InitPage, SwitchVisible
<1>5. PageTypes
  <2>1. /\ shown \in Files \cup {Missing} /\ file \in Files \cup {Missing}
        /\ cert \in Files \cup {Missing, Inherit} /\ tested \in Credentials \cup {None}
    BY DEF InitPage
  <2>2. /\ typed \in BOOLEAN /\ loads \in BOOLEAN /\ locked \in BOOLEAN /\ testing \in BOOLEAN
        /\ loading \in BOOLEAN /\ crossed \in BOOLEAN /\ late \in BOOLEAN
    BY DEF InitPage
  <2>3. /\ uploads \in [Files -> Nat] /\ edits \in 0..MaxEdits
        /\ \A f \in Files : uploads[f] <= edits
    BY EditsAssumption DEF InitPage
  <2>. QED
    BY <1>3, <1>4, <2>1, <2>2, <2>3 DEF PageTypes
<1>6. UploadsOK /\ CertificateIsOfFile /\ LockedForPassword
  BY DEF InitPage, UploadsOK, CertificateIsOfFile, LockedForPassword
<1>7. RequestOK
  BY IdleType, PageAssumption DEF InitPage, Init, RequestOK, PageIsJudged
<1>. QED
  BY <1>1, <1>5, <1>6, <1>7 DEF PageInv

\* What is done on the page and does not reach the server.
LEMMA ServerStays ==
    ASSUME PageInv, UNCHANGED vars
    PROVE  IInv' /\ RequestOK'
<1>1. IInv'
  BY NextKeeps DEF PageInv
<1>. QED
  BY <1>1 DEF PageInv, RequestOK, PageIsJudged, Unreadable, Full, vars, config

LEMMA ChooseFileKeeps ==
    ASSUME PageInv, NEW f \in Files, ChooseFile(f)
    PROVE  PageInv'
<1> USE DEF ChooseFile, Edit, Lock, Send, Cleared
<1>1. IInv' /\ RequestOK'
  BY ServerStays
<1>2. fields' \in Credentials
  BY FieldChanged, FileIsValue DEF PageInv, PageTypes
<1>3. PageTypes'
  <2>1. crossed' \in BOOLEAN
    BY DEF Uploading
  <2>2. locked' \in BOOLEAN
    BY DEF PageInv, PageTypes
  <2>3. edits' \in 0..MaxEdits /\ uploads' \in [Files -> Nat]
    BY EditsAssumption DEF PageInv, PageTypes
  <2>4. \A g \in Files : uploads'[g] <= edits'
    BY EditsAssumption DEF PageInv, PageTypes
  <2>. QED
    BY <1>2, <2>1, <2>2, <2>3, <2>4 DEF PageInv, PageTypes
<1>4. UploadsOK'
  BY FileIsValue DEF PageInv, PageTypes, UploadsOK, Uploading
<1>5. fields'["certificate"] = Missing
  BY FileIsValue DEF PageInv, PageTypes, Credentials
<1>6. CertificateIsOfFile' /\ LockedForPassword'
  BY <1>5 DEF CertificateIsOfFile, LockedForPassword, PasswordShown
<1>. QED
  BY <1>1, <1>3, <1>4, <1>6 DEF PageInv

LEMMA RemoveFileKeeps ==
    ASSUME PageInv, RemoveFile
    PROVE  PageInv'
<1> USE DEF RemoveFile, Edit, flags
<1>1. IInv' /\ RequestOK'
  BY ServerStays
<1>2. PageTypes'
  BY EditsAssumption DEF PageInv, PageTypes
<1>3. UploadsOK' /\ CertificateIsOfFile' /\ LockedForPassword'
  BY DEF PageInv, UploadsOK, CertificateIsOfFile, LockedForPassword, PasswordShown
<1>. QED
  BY <1>1, <1>2, <1>3 DEF PageInv

LEMMA TypePasswordKeeps ==
    ASSUME PageInv, NEW something \in BOOLEAN, TypePassword(something)
    PROVE  PageInv'
<1> USE DEF TypePassword, Edit, Lock, Send
<1>1. IInv' /\ RequestOK'
  BY ServerStays
<1>2. /\ file = Missing => UNCHANGED <<locked, uploads, crossed>>
      /\ file # Missing /\ something =>
            /\ uploads' = [uploads EXCEPT ![file] = @ + 1]
            /\ crossed' = (crossed \/ Uploading)
            /\ locked' = locked
      /\ file # Missing /\ ~something => locked' = TRUE /\ UNCHANGED <<uploads, crossed>>
  OBVIOUS
<1>3. PageTypes'
  <2>0. Uploading \in BOOLEAN
    BY DEF Uploading
  <2>1. locked' \in BOOLEAN /\ crossed' \in BOOLEAN
    BY <1>2, <2>0 DEF PageInv, PageTypes
  <2>2. uploads' \in [Files -> Nat] /\ \A f \in Files : uploads'[f] <= edits'
    BY <1>2, EditsAssumption DEF PageInv, PageTypes
  <2>. QED
    BY <2>1, <2>2, EditsAssumption DEF PageInv, PageTypes
<1>4. UploadsOK'
  BY <1>2 DEF PageInv, PageTypes, UploadsOK, Uploading
<1>5. crossed => crossed'
  BY <1>2
<1>6. CertificateIsOfFile' /\ LockedForPassword'
  BY <1>5 DEF PageInv, CertificateIsOfFile, LockedForPassword, PasswordShown
<1>. QED
  BY <1>1, <1>3, <1>4, <1>6 DEF PageInv

LEMMA UploadedKeeps ==
    ASSUME PageInv, NEW f \in Files, Uploaded(f)
    PROVE  PageInv'
<1> USE DEF Uploaded
<1>1. IInv' /\ RequestOK'
  BY ServerStays
<1>2. uploads' \in [Files -> Nat] /\ \A g \in Files : uploads'[g] <= uploads[g]
  BY DEF PageInv, PageTypes
<1>3. UploadsOK'
  BY <1>2 DEF PageInv, PageTypes, UploadsOK
<1>4. /\ fields' \in Credentials /\ cert' \in Files \cup {Missing} /\ locked' \in BOOLEAN
      /\ fields'["certificate"] \in {fields["certificate"], f}
  <2>1. CASE Extracted(f)
    <3>1. [fields EXCEPT !["certificate"] = f] \in Credentials
      BY FieldChanged, FileIsValue DEF PageInv, PageTypes
    <3>2. fields'["certificate"] = f
      BY <2>1, FileIsValue DEF PageInv, PageTypes, Extracted, Credentials
    <3>. QED
      BY <2>1, <3>1, <3>2 DEF Extracted, Lock
  <2>2. CASE NotExtracted
    BY <2>2 DEF PageInv, PageTypes, NotExtracted
  <2>. QED
    BY <2>1, <2>2
<1>5. PageTypes'
  BY <1>2, <1>4 DEF PageInv, PageTypes
<1>6. CertificateIsOfFile'
  BY <1>4 DEF PageInv, UploadsOK, CertificateIsOfFile
<1>7. LockedForPassword'
  BY DEF LockedForPassword, PasswordShown, Extracted, NotExtracted, Lock
<1>. QED
  BY <1>1, <1>3, <1>5, <1>6, <1>7 DEF PageInv

LEMMA CertificateLoadedKeeps ==
    ASSUME PageInv, CertificateLoaded
    PROVE  PageInv'
<1> USE DEF CertificateLoaded, flags
<1>1. IInv' /\ RequestOK'
  BY ServerStays
<1>2. own[All]["certificate"] \in Files \cup {Missing}
  BY CredentialsOfAll, FileIsValue, PageAssumption DEF PageInv, IInv, Credentials
<1>3. PageTypes'
  BY <1>2 DEF PageInv, PageTypes
<1>4. UploadsOK' /\ CertificateIsOfFile' /\ LockedForPassword'
  BY DEF PageInv, UploadsOK, CertificateIsOfFile, LockedForPassword
<1>. QED
  BY <1>1, <1>3, <1>4 DEF PageInv

LEMMA EditKeeps ==
    ASSUME PageInv, EditMode \/ EditUuid
    PROVE  PageInv'
<1> USE DEF EditMode, EditUuid, Edit, certificate, flags
<1>1. IInv' /\ RequestOK'
  BY ServerStays
<1>2. fields' \in Credentials /\ fields'["certificate"] = fields["certificate"]
  <2>1. PICK k \in {"storeUuid", "testMode"} :
          \E v \in Values[k] : fields' = [fields EXCEPT ![k] = v]
    BY FileIsValue
  <2>. QED
    BY <2>1, FieldChanged, FileIsValue DEF PageInv, PageTypes, Credentials
<1>3. PageTypes'
  BY <1>2, EditsAssumption DEF PageInv, PageTypes
<1>4. UploadsOK' /\ CertificateIsOfFile' /\ LockedForPassword'
  BY <1>2 DEF PageInv, UploadsOK, CertificateIsOfFile, LockedForPassword, PasswordShown
<1>. QED
  BY <1>1, <1>3, <1>4 DEF PageInv

LEMMA TestKeeps ==
    ASSUME PageInv, Test \/ Saved
    PROVE  PageInv'
<1> USE DEF Test, Saved, Validate, certificate
<1>1. IInv' /\ RequestOK'
  BY ServerStays
<1>2. PageTypes'
  BY DEF PageInv, PageTypes
<1>3. UploadsOK' /\ CertificateIsOfFile' /\ LockedForPassword'
  BY DEF PageInv, UploadsOK, CertificateIsOfFile, LockedForPassword, PasswordShown
<1>. QED
  BY <1>1, <1>2, <1>3 DEF PageInv

-----------------------------------------------------------------------------
(***************************************************************************)
(* What reaches the server.                                                *)
(***************************************************************************)
\* A request that another one begins leaves the page's what it was, no longer
\* alone.
LEMMA SavedByPage ==
    ASSUME PageInv, Save(Page, All, fields, "value"), Complete
    PROVE  RequestOK'
<1>1. Full(fields)
  BY PageAssumption DEF Complete, Full
<1>2. DOMAIN fields = Keys
  BY DEF PageInv, PageTypes, Credentials
<1>3. Page \in Writers
  BY PageAssumption
<1>4. rq'[Page] = [Idle EXCEPT !.at = "before", !.scope = All, !.kvs = fields,
                      !.flag = "value", !.alone = \A u \in Active : rq[u].scope \notin Uses(All)]
  BY <1>3 DEF Save
<1>5. rq'[Page].at = "before" /\ rq'[Page].scope = All /\ rq'[Page].kvs = fields
  BY <1>4 DEF Idle
<1>. QED
  BY <1>1, <1>2, <1>5 DEF RequestOK, PageIsJudged

LEMMA TestedKeeps ==
    ASSUME PageInv, Tested
    PROVE  PageInv'
<1> USE DEF Tested, certificate
<1>1. PageTypes'
  <2>1. testing' \in BOOLEAN /\ loading' \in BOOLEAN
    BY DEF PageInv, PageTypes
  <2>. QED
    BY <2>1 DEF PageInv, PageTypes
<1>2. UploadsOK' /\ CertificateIsOfFile' /\ LockedForPassword'
  BY DEF PageInv, UploadsOK, CertificateIsOfFile, LockedForPassword, PasswordShown
<1>3. CASE UNCHANGED vars
  BY <1>1, <1>2, <1>3, ServerStays DEF PageInv
<1>4. CASE MayBeSaved /\ Save(Page, All, fields, "value")
  <2>1. IInv'
    <3>1. Page \in Writers /\ All \in Scopes /\ Keys \in SUBSET Keys /\ "value" \in Flags
      BY PageAssumption DEF Scopes, Flags
    <3>2. fields \in Changes(All, Keys)
      BY FieldsCanBeSaved DEF PageInv, PageTypes
    <3>. QED
      BY <1>4, <3>1, <3>2, SaveKeeps DEF PageInv
  <2>2. RequestOK'
    BY <1>4, SavedByPage DEF MayBeSaved
  <2>. QED
    BY <1>1, <1>2, <2>1, <2>2 DEF PageInv
<1>. QED
  BY <1>3, <1>4

LEMMA OthersSaveKeeps ==
    ASSUME PageInv, NEW w \in Writers, NEW s \in Scopes, NEW kvs \in Sent, OthersSave(w, s, kvs)
    PROVE  PageInv'
<1> USE DEF OthersSave, Edit, certificate, flags
<1>1. PageTypes'
  BY EditsAssumption DEF PageInv, PageTypes
<1>2. UploadsOK' /\ CertificateIsOfFile' /\ LockedForPassword'
  BY DEF PageInv, UploadsOK, CertificateIsOfFile, LockedForPassword, PasswordShown
<1>3. PICK flag \in Flags : Save(w, s, kvs, flag)
  OBVIOUS
<1>4. IInv'
  <2>1. PICK ks \in SUBSET Keys : DOMAIN kvs = ks
    BY PageAssumption DEF Changes
  <2>. QED
    BY <1>3, <2>1, SaveKeeps DEF PageInv
<1>5. RequestOK'
  <2>. Page \in Writers /\ w # Page /\ rq[Page] \in RequestType
    BY PageAssumption DEF PageInv, IInv, TypeOK
  <2>. HIDE DEF OthersSave
  <2>1. rq'[Page] = [rq[Page] EXCEPT !.alone = @ /\ s \notin Uses(rq[Page].scope)]
    BY <1>3 DEF Save
  <2>2. /\ rq'[Page].at = rq[Page].at /\ rq'[Page].scope = rq[Page].scope
        /\ rq'[Page].kvs = rq[Page].kvs /\ (rq'[Page].alone => rq[Page].alone)
    BY <2>1 DEF RequestType
  <2>3. own' = own
    BY <1>3 DEF Save, config
  <2>. QED
    BY <2>2, <2>3 DEF Unreadable, PageInv, RequestOK, PageIsJudged
<1>. QED
  BY <1>1, <1>2, <1>4, <1>5 DEF PageInv

LEMMA ServerKeeps ==
    ASSUME PageInv, Server, UNCHANGED page
    PROVE  PageInv'
<1> USE DEF page, certificate, flags
<1>1. PageTypes'
  BY DEF PageInv, PageTypes
<1>2. UploadsOK' /\ CertificateIsOfFile' /\ LockedForPassword'
  BY DEF PageInv, UploadsOK, CertificateIsOfFile, LockedForPassword, PasswordShown
<1>3. PICK w \in Writers : Before(w) \/ Store(w) \/ Read(w) \/ Set(w) \/ Fault(w)
  BY DEF Server
<1>4. IInv'
  BY <1>3, BeforeKeeps, StoreKeeps, ReadKeeps, SetKeeps, FaultKeeps DEF PageInv
<1>5. rq \in [Writers -> RequestType] /\ Page \in Writers /\ rq[Page] \in RequestType
  BY PageAssumption DEF PageInv, IInv, TypeOK
<1>6. RequestOK'
  <2>1. CASE w # Page
    <3>1. rq'[Page] = rq[Page]
      BY <1>3, <1>5, <2>1 DEF Before, Store, Read, Set, Fault
    <3>2. CASE Store(w)
      <4>1. rq[Page].at = "read" /\ rq[Page].alone => rq[w].scope # All
        BY <1>5, <2>1, <3>2 DEF Store, PageInv, IInv, AloneOK, Uses
      <4>2. rq[w].scope # All => own'[All] = own[All]
        BY <3>2 DEF Store, PageInv, IInv, TypeOK, Scopes
      <4>. QED
        BY <3>1, <4>1, <4>2 DEF PageInv, RequestOK, PageIsJudged, Unreadable
    <3>3. CASE own' = own
      BY <3>1, <3>3 DEF PageInv, RequestOK, PageIsJudged, Unreadable
    <3>. QED
      BY <1>3, <3>2, <3>3 DEF Before, Read, Set, Fault, config
  <2>2. CASE w = Page
    <3>1. CASE Before(w)
      <4>1. /\ rq'[Page].at = "store" /\ rq'[Page].scope = rq[Page].scope
            /\ rq'[Page].kvs = rq[Page].kvs /\ rq[Page].at = "before"
        BY <1>5, <2>2, <3>1 DEF Before, RequestType
      <4>. QED
        BY <4>1 DEF PageInv, RequestOK, PageIsJudged
    <3>2. CASE Store(w)
      <4>1. rq[Page].scope = All /\ DOMAIN rq[Page].kvs = Keys /\ Full(rq[Page].kvs)
        BY <2>2, <3>2 DEF PageInv, RequestOK, Store
      <4>2. own \in [Scopes -> [Keys -> AnyValue \cup {Inherit}]] /\ All \in Scopes
        BY DEF PageInv, IInv, TypeOK, Scopes
      <4>3. own'[All] = [k \in Keys |-> rq[Page].kvs[k]]
        BY <2>2, <3>2, <4>1, <4>2 DEF Store
      <4>4. ~Unreadable(own'[All])
        BY <4>1, <4>3, FileIsValue DEF Unreadable, Full
      <4>5. rq'[Page].at \in {"read", "idle"}
        BY <1>5, <2>2, <3>2, IdleType DEF Store, Idle
      <4>. QED
        BY <4>4, <4>5 DEF RequestOK, PageIsJudged
    <3>3. CASE Read(w) \/ Set(w) \/ Fault(w)
      <4>1. rq'[Page] = Idle \/ \E c : rq'[Page] = [rq[Page] EXCEPT !.at = "set", !.read = c]
        BY <1>5, <2>2, <3>3 DEF Read, Set, Fault
      <4>2. CASE rq'[Page] = Idle
        BY <4>2, IdleType DEF Idle, RequestOK, PageIsJudged
      <4>3. ASSUME NEW c, rq'[Page] = [rq[Page] EXCEPT !.at = "set", !.read = c]
            PROVE  rq'[Page].at = "set"
        BY <1>5, <4>3 DEF RequestType
      <4>. QED
        BY <4>1, <4>2, <4>3 DEF RequestOK, PageIsJudged
    <3>. QED
      BY <1>3, <3>1, <3>2, <3>3
  <2>. QED
    BY <2>1, <2>2
<1>. QED
  BY <1>1, <1>2, <1>4, <1>6 DEF PageInv

-----------------------------------------------------------------------------
LEMMA PageNext == PageInv /\ [NextPage]_<<vars, page>> => PageInv'
<1> SUFFICES ASSUME PageInv, [NextPage]_<<vars, page>> PROVE PageInv'
  OBVIOUS
<1>1. CASE UNCHANGED <<vars, page>>
  <2>1. IInv' /\ RequestOK'
    BY <1>1, ServerStays
  <2>2. PageTypes' /\ UploadsOK' /\ CertificateIsOfFile' /\ LockedForPassword'
    BY <1>1 DEF page, certificate, flags, PageInv, PageTypes, UploadsOK, CertificateIsOfFile,
                LockedForPassword, PasswordShown
  <2>. QED
    BY <2>1, <2>2 DEF PageInv
<1>2. CASE Visit
  BY <1>2, ChooseFileKeeps, UploadedKeeps, TypePasswordKeeps, RemoveFileKeeps,
     CertificateLoadedKeeps, EditKeeps, TestKeeps, TestedKeeps, OthersSaveKeeps DEF Visit
<1>3. CASE Server /\ UNCHANGED page
  BY <1>3, ServerKeeps
<1>. QED
  BY <1>1, <1>2, <1>3 DEF NextPage

THEOREM PageInvariance == SpecPage => []PageInv
BY PageInit, PageNext, PTL DEF SpecPage

(***************************************************************************)
(* Page and server together have their types.                              *)
(***************************************************************************)
THEOREM PageTypeCorrect == SpecPage => []PageTypeOK
<1>1. PageInv => PageTypeOK
  <2>1. ASSUME PageInv PROVE uploads \in [Files -> 0..MaxEdits]
    <3>1. \A f \in Files : uploads[f] \in 0..MaxEdits
      BY <2>1, EditsAssumption DEF PageInv, PageTypes
    <3>. QED
      BY <2>1, <3>1 DEF PageInv, PageTypes
  <2>. QED
    BY <2>1 DEF PageInv, PageTypes, PageTypeOK, IInv
<1>. QED
  BY <1>1, PageInvariance, PTL

(***************************************************************************)
(* The certificate of the page is that of the file it shows, for any       *)
(* number of files, passwords and uploads, unless two files were under way *)
(* at once.                                                                *)
(***************************************************************************)
THEOREM CertificateIsOfFileAlways == SpecPage => []CertificateIsOfFile
<1>1. PageInv => CertificateIsOfFile
  BY DEF PageInv
<1>. QED
  BY <1>1, PageInvariance, PTL

(***************************************************************************)
(* What the page had stored is always complete when the server comes to    *)
(* judge it, unless another request came between.                          *)
(***************************************************************************)
THEOREM PageIsJudgedAlways == SpecPage => []PageIsJudged
<1>1. PageInv => PageIsJudged
  BY DEF PageInv, RequestOK
<1>. QED
  BY <1>1, PageInvariance, PTL

(***************************************************************************)
(* A locked button has its way out on the page.                            *)
(***************************************************************************)
THEOREM LockedForPasswordAlways == SpecPage => []LockedForPassword
<1>1. PageInv => LockedForPassword
  BY DEF PageInv
<1>. QED
  BY <1>1, PageInvariance, PTL

(***************************************************************************)
(* The page does with the server what Settings says: each of its steps is  *)
(* one of Settings or leaves the server alone.  So "validated" keeps its   *)
(* promise with a page in front of it.                                     *)
(***************************************************************************)
THEOREM PageImplementsSettings == SpecPage => Spec
<1>1. InitPage => Init
  BY DEF InitPage
<1>2. PageInv /\ [NextPage]_<<vars, page>> => [Next]_vars
  <2> SUFFICES ASSUME PageInv, [NextPage]_<<vars, page>> PROVE [Next]_vars
    OBVIOUS
  <2>1. CASE Tested
    <3>1. CASE Save(Page, All, fields, "value")
      <4>1. Page \in Writers /\ All \in Scopes /\ Keys \in SUBSET Keys /\ "value" \in Flags
        BY PageAssumption DEF Scopes, Flags
      <4>2. fields \in Changes(All, Keys)
        BY FieldsCanBeSaved DEF PageInv, PageTypes
      <4>. QED
        BY <3>1, <4>1, <4>2 DEF Next
    <3>. QED
      BY <2>1, <3>1 DEF Tested
  <2>2. ASSUME NEW w \in Writers, NEW s \in Scopes, NEW kvs \in Sent, OthersSave(w, s, kvs)
        PROVE  Next
    <3>1. PICK keys \in SUBSET Keys : DOMAIN kvs = keys
      BY PageAssumption DEF Changes
    <3>. QED
      BY <2>2, <3>1 DEF OthersSave, Next
  <2>3. CASE Visit /\ ~Tested /\ ~\E w \in Writers, s \in Scopes, kvs \in Sent : OthersSave(w, s, kvs)
    BY <2>3 DEF Visit, ChooseFile, Uploaded, TypePassword, RemoveFile, CertificateLoaded,
                EditMode, EditUuid, Test, Saved
  <2>. QED
    BY <2>1, <2>2, <2>3 DEF NextPage, Next, Visit
<1>. QED
  BY <1>1, <1>2, PageInvariance, PTL DEF SpecPage, Spec

\* What the shop holds for valid, TWINT accepts, also with the page at work.
THEOREM PageVerdictTells == SpecPage => []VerdictTells
BY PageImplementsSettings, VerdictTellsAlways, PTL
=============================================================================
