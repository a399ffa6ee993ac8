-------------------------- MODULE GoPolicies_proofs --------------------------
(***************************************************************************)
(* What ParsePolicies returns, for every document: which policies it       *)
(* keeps, and what each of them does.                                      *)
(***************************************************************************)
EXTENDS GoPolicies, TLAPS

-----------------------------------------------------------------------------
(* The invariant *)

EnvVars == [name : Names, text : Texts]
Outcomes ==
  [injectSet : BOOLEAN, inject : BOOLEAN,
   versions : UNION {[D -> Texts] : D \in SUBSET Names}, configs : Seq(EnvVars)]

DecoderTypes ==
  /\ doc \in Seq(PolicyRecords)
  /\ i \in Nat \ {0} /\ a \in Nat \ {0} /\ v \in Nat \ {0}
  /\ outcome \in Outcomes
  /\ out \in Seq([place : Nat, outcome : Outcomes])
  /\ skipped \in Seq(Nat)

\* All that precedes value y of action x of p decoded, and neither ended the policy.
Decoded(p, x, y) ==
  /\ x <= Len(p.actions) + 1
  /\ y # 1 => /\ x <= Len(p.actions) /\ Does(p, x) \in Valued /\ ~p.actions[x].tooMany
              /\ y <= Len(p.actions[x].values) + 1
  /\ \A z \in 1 .. x - 1 :
       Handles(p, z) => ~p.actions[z].tooMany /\ ~Malformed(p.actions[z])
  /\ \A z \in 1 .. y - 1 : p.actions[x].values[z].wellFormed

Past(p, x, kinds) == {z \in 1 .. x - 1 : Does(p, z) \in kinds}
Kind(p, kinds) == {z \in DOMAIN p.actions : Does(p, z) \in kinds}
Made(p, x, y, kinds) == {s \in Settings(p, Kind(p, kinds)) : Earlier(s, <<x, y>>)}

\* The outcome so far is that of what precedes.
Accounts(o, p, x, y) ==
  /\ DecidedBy(o, p, Past(p, x, Injects))
  /\ VersionsSetBy(o, p, Made(p, x, y, Versions))
  /\ VariablesSetBy(o, p, Made(p, x, y, Variables))
  /\ InOrder(o, p, Made(p, x, y, Variables))

InPolicy ==
  i <= Len(doc) /\ doc[i].parses => Decoded(doc[i], a, v) /\ Accounts(outcome, doc[i], a, v)

\* The policies before this one are sorted into those kept and those skipped.
Sorted ==
  /\ i <= Len(doc) + 1
  /\ {out[x].place : x \in DOMAIN out} = {k \in 1 .. i - 1 : ~AtFault(doc[k])}
  /\ {skipped[x] : x \in DOMAIN skipped} = {k \in 1 .. i - 1 : AtFault(doc[k])}
  /\ \A x, y \in DOMAIN out : x < y => out[x].place < out[y].place
  /\ \A x, y \in DOMAIN skipped : x < y => skipped[x] < skipped[y]

DecoderInv == DecoderTypes /\ InPolicy /\ Sorted /\ OutcomeOfActionsRun /\ ConfigsInOrder

-----------------------------------------------------------------------------
(* Policies and their settings *)

\* The fields of a policy that parses have the types of the schema.
LEMMA PolicyTypes ==
  ASSUME NEW p \in PolicyRecords
  PROVE  /\ p.parses \in BOOLEAN /\ p.actions \in Seq(ActionRecords)
         /\ Len(p.actions) \in Nat /\ DOMAIN p.actions = 1 .. Len(p.actions)
         /\ \A x \in 1 .. Len(p.actions) :
              /\ p.actions[x] \in ActionRecords
              /\ Len(p.actions[x].values) \in Nat
              /\ DOMAIN p.actions[x].values = 1 .. Len(p.actions[x].values)
              /\ \A y \in 1 .. Len(p.actions[x].values) : p.actions[x].values[y] \in ValueRecords
              /\ Count(p, x) \in Nat
<1>1. p.parses \in BOOLEAN /\ p.actions \in Seq(ActionRecords)
  BY DEF PolicyRecords
<1>2. Len(p.actions) \in Nat /\ DOMAIN p.actions = 1 .. Len(p.actions)
  BY <1>1
<1>3. ASSUME NEW x \in 1 .. Len(p.actions)
      PROVE  /\ p.actions[x] \in ActionRecords
             /\ Len(p.actions[x].values) \in Nat
             /\ DOMAIN p.actions[x].values = 1 .. Len(p.actions[x].values)
             /\ \A y \in 1 .. Len(p.actions[x].values) : p.actions[x].values[y] \in ValueRecords
             /\ Count(p, x) \in Nat
  <2>1. p.actions[x] \in ActionRecords
    BY <1>1, <1>3
  <2>2. p.actions[x].values \in Seq(ValueRecords)
    BY <2>1 DEF ActionRecords
  <2>3. Len(p.actions[x].values) \in Nat
    BY <2>2
  <2> QED BY <2>1, <2>2, <2>3 DEF Count
<1> QED BY <1>1, <1>2, <1>3

\* A setting is a pair of an action and of one of its values.
LEMMA SettingPairs ==
  ASSUME NEW p \in PolicyRecords, NEW X \in SUBSET (1 .. Len(p.actions)), NEW s
  PROVE  s \in Settings(p, X) <=>
           \E x \in X : \E y \in 1 .. Count(p, x) : s = <<x, y>>
BY DEF Settings

\* The settings before value y of action x are pairs that precede it.
LEMMA MadePairs ==
  ASSUME NEW p \in PolicyRecords, NEW x \in Nat, NEW y \in Nat, NEW kinds, NEW s
  PROVE  s \in Made(p, x, y, kinds) <=>
           \E z \in 1 .. Len(p.actions) : \E w \in 1 .. Count(p, z) :
             s = <<z, w>> /\ Does(p, z) \in kinds /\ (z < x \/ (z = x /\ w < y))
<1>1. Kind(p, kinds) \subseteq 1 .. Len(p.actions)
  BY PolicyTypes DEF Kind
<1>2. s \in Settings(p, Kind(p, kinds)) <=>
        \E z \in Kind(p, kinds) : \E w \in 1 .. Count(p, z) : s = <<z, w>>
  BY <1>1, SettingPairs
<1>3. \A z : z \in Kind(p, kinds) <=> z \in 1 .. Len(p.actions) /\ Does(p, z) \in kinds
  BY PolicyTypes DEF Kind
<1>4. \A z, w : s = <<z, w>> => (Earlier(s, <<x, y>>) <=> (z < x \/ (z = x /\ w < y)))
  BY DEF Earlier
<1> QED BY <1>2, <1>3, <1>4 DEF Made

\* Among them are no two that each precede the other.
LEMMA EarlierOrders ==
  ASSUME NEW p \in PolicyRecords, NEW x \in Nat, NEW y \in Nat, NEW kinds,
         NEW s \in Made(p, x, y, kinds)
  PROVE  Earlier(s, <<x, y>>) /\ ~Earlier(<<x, y>>, s)
<1>1. PICK z \in 1 .. Len(p.actions) : \E w \in 1 .. Count(p, z) :
        s = <<z, w>> /\ Does(p, z) \in kinds /\ (z < x \/ (z = x /\ w < y))
  BY MadePairs
<1>2. PICK w \in 1 .. Count(p, z) : s = <<z, w>> /\ (z < x \/ (z = x /\ w < y))
  BY <1>1
<1>3. Len(p.actions) \in Nat /\ Count(p, z) \in Nat
  BY PolicyTypes
<1>4. z \in Nat /\ w \in Nat /\ s[1] = z /\ s[2] = w
  BY <1>2, <1>3
<1> QED BY <1>2, <1>4 DEF Earlier

\* No setting precedes itself.
LEMMA NeverEarlier ==
  ASSUME NEW p \in PolicyRecords, NEW x \in Nat, NEW y \in Nat, NEW kinds,
         NEW s \in Made(p, x, y, kinds)
  PROVE  ~Earlier(s, s)
<1>1. PICK z \in 1 .. Len(p.actions) : \E w \in 1 .. Count(p, z) : s = <<z, w>>
  BY MadePairs
<1>2. PICK w \in 1 .. Count(p, z) : s = <<z, w>>
  BY <1>1
<1>3. Len(p.actions) \in Nat /\ Count(p, z) \in Nat
  BY PolicyTypes
<1>4. z \in Int /\ w \in Int /\ s[1] = z /\ s[2] = w
  BY <1>2, <1>3
<1> QED BY <1>4 DEF Earlier

\* A value that is done adds one setting.
LEMMA MadeMore ==
  ASSUME NEW p \in PolicyRecords, NEW x \in 1 .. Len(p.actions), NEW y \in 1 .. Count(p, x),
         NEW kinds, Does(p, x) \in kinds
  PROVE  Made(p, x, y + 1, kinds) = Made(p, x, y, kinds) \cup {<<x, y>>}
<1>1. Len(p.actions) \in Nat /\ \A z \in 1 .. Len(p.actions) : Count(p, z) \in Nat
  BY PolicyTypes
<1>2. x \in Nat /\ y \in Nat /\ y + 1 \in Nat
  BY <1>1
<1>3. ASSUME NEW s
      PROVE  s \in Made(p, x, y + 1, kinds) <=> s \in Made(p, x, y, kinds) \/ s = <<x, y>>
  <2>1. ASSUME NEW z \in 1 .. Len(p.actions), NEW w \in 1 .. Count(p, z)
        PROVE  (z < x \/ (z = x /\ w < y + 1)) <=>
                 (z < x \/ (z = x /\ w < y)) \/ (z = x /\ w = y)
    BY <1>1, <1>2
  <2>2. s \in Made(p, x, y + 1, kinds) => s \in Made(p, x, y, kinds) \/ s = <<x, y>>
    BY <1>2, <2>1, MadePairs
  <2>3. s \in Made(p, x, y, kinds) => s \in Made(p, x, y + 1, kinds)
    BY <1>2, <2>1, MadePairs
  <2>4. <<x, y>> \in Made(p, x, y + 1, kinds)
    BY <1>2, MadePairs
  <2> QED BY <2>2, <2>3, <2>4
<1> QED BY <1>3

\* An action without such a setting adds none, nor does one that is done.
LEMMA MadeNext ==
  ASSUME NEW p \in PolicyRecords, NEW x \in 1 .. Len(p.actions), NEW y \in Nat \ {0}, NEW kinds,
         Does(p, x) \notin kinds \/ y = Count(p, x) + 1
  PROVE  Made(p, x + 1, 1, kinds) = Made(p, x, y, kinds)
<1>1. Len(p.actions) \in Nat /\ \A z \in 1 .. Len(p.actions) : Count(p, z) \in Nat
  BY PolicyTypes
<1>2. x \in Nat /\ x + 1 \in Nat /\ y \in Nat /\ 1 \in Nat
  BY <1>1
<1>3. ASSUME NEW z \in 1 .. Len(p.actions), NEW w \in 1 .. Count(p, z), Does(p, z) \in kinds
      PROVE  (z < x + 1 \/ (z = x + 1 /\ w < 1)) <=> (z < x \/ (z = x /\ w < y))
  BY <1>1, <1>2, <1>3
<1>4. ASSUME NEW s
      PROVE  s \in Made(p, x + 1, 1, kinds) <=> s \in Made(p, x, y, kinds)
  BY <1>2, <1>3, MadePairs
<1> QED BY <1>4

\* Another value of such an action adds none.
LEMMA MadeSame ==
  ASSUME NEW p \in PolicyRecords, NEW x \in 1 .. Len(p.actions), NEW y \in Nat \ {0}, NEW kinds,
         Does(p, x) \notin kinds
  PROVE  Made(p, x, y + 1, kinds) = Made(p, x, y, kinds)
<1>1. Len(p.actions) \in Nat
  BY PolicyTypes
<1>2. x \in Nat /\ y \in Nat /\ y + 1 \in Nat
  BY <1>1
<1>3. ASSUME NEW z \in 1 .. Len(p.actions), NEW w \in 1 .. Count(p, z), Does(p, z) \in kinds
      PROVE  (z < x \/ (z = x /\ w < y + 1)) <=> (z < x \/ (z = x /\ w < y))
  BY <1>3
<1>4. ASSUME NEW s
      PROVE  s \in Made(p, x, y + 1, kinds) <=> s \in Made(p, x, y, kinds)
  BY <1>2, <1>3, MadePairs
<1> QED BY <1>4

-----------------------------------------------------------------------------
(* What one setting does to an outcome *)

\* The last of the actions to decide has its way.
LEMMA InjectDecides ==
  ASSUME NEW o, NEW n, NEW p, NEW J \in SUBSET Nat, NEW x \in Nat,
         DecidedBy(o, p, J), \A z \in J : z < x,
         n.injectSet = TRUE, n.inject = (Does(p, x) = "INJECT_ALLOW")
  PROVE  DecidedBy(n, p, J \cup {x})
<1>1. \A z \in J \cup {x} : z <= x
  OBVIOUS
<1>2. \A y \in J : ~(x <= y)
  OBVIOUS
<1>3. (\E y \in J \cup {x} : Does(p, y) = "INJECT_ALLOW" /\ \A z \in J \cup {x} : z <= y)
        <=> Does(p, x) = "INJECT_ALLOW"
  BY <1>1, <1>2
<1> QED BY <1>3 DEF DecidedBy

\* A version that is set is that of the last setting with its name.
LEMMA VersionSet ==
  ASSUME NEW o, NEW n, NEW p, NEW S, NEW r,
         VersionsSetBy(o, p, S), \A s \in S : Earlier(s, r),
         n.versions = SetVersion(o.versions, NameAt(p, r), TextAt(p, r))
  PROVE  VersionsSetBy(n, p, S \cup {r})
<1>1. /\ DOMAIN n.versions = DOMAIN o.versions \cup {NameAt(p, r)}
      /\ \A m \in DOMAIN n.versions :
           n.versions[m] = IF m = NameAt(p, r) THEN TextAt(p, r) ELSE o.versions[m]
  BY DEF SetVersion
<1>2. DOMAIN n.versions = {NameAt(p, s) : s \in S \cup {r}}
  BY <1>1 DEF VersionsSetBy
<1>3. ASSUME NEW s \in S \cup {r}, LastOf(p, s, S \cup {r})
      PROVE  n.versions[NameAt(p, s)] = TextAt(p, s)
  <2>1. NameAt(p, s) \in DOMAIN n.versions
    BY <1>2
  <2>2. CASE s = r
    BY <1>1, <2>1, <2>2
  <2>3. CASE s # r
    <3>1. s \in S /\ NameAt(p, s) # NameAt(p, r)
      BY <1>3, <2>3 DEF LastOf
    <3>2. LastOf(p, s, S)
      BY <1>3 DEF LastOf
    <3> QED BY <1>1, <2>1, <3>1, <3>2 DEF VersionsSetBy
  <2> QED BY <2>2, <2>3
<1> QED BY <1>2, <1>3 DEF VersionsSetBy

\* In order, and so once each.
LEMMA OnceEach ==
  ASSUME NEW o, NEW p, NEW S, InOrder(o, p, S), o.configs \in Seq(EnvVars),
         \A s \in S : ~Earlier(s, s)
  PROVE  \A j, k \in DOMAIN o.configs : o.configs[j].name = o.configs[k].name => j = k
<1>1. ASSUME NEW j \in DOMAIN o.configs, NEW k \in DOMAIN o.configs, j < k
      PROVE  o.configs[j].name # o.configs[k].name
  BY <1>1 DEF InOrder
<1>2. \A j \in DOMAIN o.configs : j \in Int
  OBVIOUS
<1>3. \A j, k \in DOMAIN o.configs : j < k \/ k < j \/ j = k
  BY <1>2
<1> QED BY <1>1, <1>3

Replaced(c, d, name, text) ==
  /\ DOMAIN d = DOMAIN c
  /\ \E h \in DOMAIN c :
       /\ c[h].name = name
       /\ \A k \in DOMAIN c : /\ d[k].name = c[k].name
                              /\ d[k].text = IF k = h THEN text ELSE c[k].text
Added(c, d, name, text) ==
  /\ \A k \in DOMAIN c : c[k].name # name
  /\ DOMAIN d = DOMAIN c \cup {Len(c) + 1}
  /\ d[Len(c) + 1].name = name /\ d[Len(c) + 1].text = text
  /\ \A k \in DOMAIN c : d[k] = c[k] /\ k < Len(c) + 1

\* A variable that is there is replaced, another one follows those that are.
LEMMA UpsertFacts ==
  ASSUME NEW c \in Seq(EnvVars), NEW name \in Names, NEW text \in Texts,
         \A j, k \in DOMAIN c : c[j].name = c[k].name => j = k,
         NEW d, d = upsertEnvVar(c, name, text)
  PROVE  /\ d \in Seq(EnvVars)
         /\ Replaced(c, d, name, text) \/ Added(c, d, name, text)
<1>1. Len(c) \in Nat /\ DOMAIN c = 1 .. Len(c)
  OBVIOUS
<1>2. EnvVar(name, text) \in EnvVars
  BY DEF EnvVar, EnvVars
<1>3. EnvVar(name, text).name = name /\ EnvVar(name, text).text = text
  BY DEF EnvVar
<1>4. CASE \E k \in DOMAIN c : c[k].name = name
  <2> DEFINE First(k) == c[k].name = name /\ \A j \in DOMAIN c : j < k => ~(c[j].name = name)
             h == CHOOSE k \in DOMAIN c : First(k)
  <2>1. PICK g \in DOMAIN c : c[g].name = name
    BY <1>4
  <2>2. \A j \in DOMAIN c : j < g => j # g
    BY <1>1
  <2>3. First(g)
    BY <2>1, <2>2
  <2>4. h \in DOMAIN c /\ First(h)
    BY <2>3
  <2>5. d = [c EXCEPT ![h] = EnvVar(name, text)]
    BY <1>4 DEF upsertEnvVar
  <2> HIDE DEF h
  <2>6. d \in Seq(EnvVars)
    BY <1>2, <2>4, <2>5
  <2>7. DOMAIN d = DOMAIN c /\ \A k \in DOMAIN c : d[k] = IF k = h THEN EnvVar(name, text) ELSE c[k]
    BY <2>5
  <2>8. c[h].name = name /\ \A k \in DOMAIN c : /\ d[k].name = c[k].name
                                               /\ d[k].text = IF k = h THEN text ELSE c[k].text
    BY <1>3, <2>4, <2>7
  <2> QED BY <2>4, <2>6, <2>7, <2>8 DEF Replaced
<1>5. CASE ~\E k \in DOMAIN c : c[k].name = name
  <2>1. d = Append(c, EnvVar(name, text))
    BY <1>5 DEF upsertEnvVar
  <2>2. d \in Seq(EnvVars) /\ Len(d) = Len(c) + 1
    BY <1>2, <2>1
  <2>3. DOMAIN d = DOMAIN c \cup {Len(c) + 1}
    BY <1>1, <2>2
  <2>4. d[Len(c) + 1] = EnvVar(name, text) /\ \A k \in DOMAIN c : d[k] = c[k] /\ k < Len(c) + 1
    BY <1>1, <1>2, <2>1
  <2> QED BY <1>3, <1>5, <2>2, <2>3, <2>4 DEF Added
<1> QED BY <1>4, <1>5

\* A variable that is set has the text of the last setting with its name, and keeps
\* its place.
LEMMA VariableSet ==
  ASSUME NEW o, NEW n, NEW p, NEW S, NEW r,
         VariablesSetBy(o, p, S), InOrder(o, p, S), o.configs \in Seq(EnvVars),
         NameAt(p, r) \in Names, TextAt(p, r) \in Texts,
         \A s \in S : Earlier(s, r) /\ ~Earlier(s, s),
         n.configs = upsertEnvVar(o.configs, NameAt(p, r), TextAt(p, r))
  PROVE  n.configs \in Seq(EnvVars) /\ VariablesSetBy(n, p, S \cup {r}) /\ InOrder(n, p, S \cup {r})
<1>1. PICK c : c = o.configs
  OBVIOUS
<1>2. PICK d : d = n.configs
  OBVIOUS
<1>3. PICK name : name = NameAt(p, r)
  OBVIOUS
<1>4. PICK text : text = TextAt(p, r)
  OBVIOUS
<1>5. /\ c \in Seq(EnvVars) /\ name \in Names /\ text \in Texts
      /\ d = upsertEnvVar(c, name, text)
      /\ \A j, k \in DOMAIN c : c[j].name = c[k].name => j = k
  BY <1>1, <1>2, <1>3, <1>4, OnceEach
<1>6. /\ \A k \in DOMAIN c : \E s \in S : NameAt(p, s) = c[k].name
      /\ \A s \in S : \E k \in DOMAIN c : c[k].name = NameAt(p, s)
      /\ \A s \in S, k \in DOMAIN c :
           LastOf(p, s, S) /\ c[k].name = NameAt(p, s) => c[k].text = TextAt(p, s)
      /\ \A j, k \in DOMAIN c :
           j < k => \E s \in S : /\ NameAt(p, s) = c[j].name
                                 /\ \A t \in S : NameAt(p, t) = c[k].name => Earlier(s, t)
  <2>1. {c[k].name : k \in DOMAIN c} = {NameAt(p, s) : s \in S}
    BY <1>1 DEF VariablesSetBy
  <2>2. \A s \in S, k \in DOMAIN c :
          LastOf(p, s, S) /\ c[k].name = NameAt(p, s) => c[k].text = TextAt(p, s)
    BY <1>1 DEF VariablesSetBy
  <2>3. \A j, k \in DOMAIN c :
          j < k => \E s \in S : /\ NameAt(p, s) = c[j].name
                                /\ \A t \in S : NameAt(p, t) = c[k].name => Earlier(s, t)
    BY <1>1 DEF InOrder
  <2>4. \A k \in DOMAIN c : c[k].name \in {NameAt(p, s) : s \in S}
    BY <2>1
  <2>5. \A s \in S : NameAt(p, s) \in {c[k].name : k \in DOMAIN c}
    BY <2>1
  <2> QED BY <2>2, <2>3, <2>4, <2>5
<1>7. d \in Seq(EnvVars)
  BY <1>5, UpsertFacts
<1>8. ASSUME NEW s \in S, LastOf(p, s, S \cup {r})
      PROVE  LastOf(p, s, S) /\ NameAt(p, s) # name
  BY <1>3, <1>8 DEF LastOf
<1>9. CASE Replaced(c, d, name, text)
  <2>0. DOMAIN d = DOMAIN c
    BY <1>9 DEF Replaced
  <2>1. PICK h \in DOMAIN c :
          /\ c[h].name = name
          /\ \A k \in DOMAIN c : /\ d[k].name = c[k].name
                                 /\ d[k].text = IF k = h THEN text ELSE c[k].text
    BY <1>9 DEF Replaced
  <2>2. \A k \in DOMAIN d : \E s \in S \cup {r} : NameAt(p, s) = d[k].name
    BY <1>6, <2>0, <2>1
  <2>3. \A s \in S \cup {r} : \E k \in DOMAIN d : d[k].name = NameAt(p, s)
    BY <1>3, <1>6, <2>0, <2>1
  <2>4. {d[k].name : k \in DOMAIN d} = {NameAt(p, s) : s \in S \cup {r}}
    BY <2>2, <2>3
  <2>5. ASSUME NEW s \in S \cup {r}, NEW k \in DOMAIN d, LastOf(p, s, S \cup {r}),
               d[k].name = NameAt(p, s)
        PROVE  d[k].text = TextAt(p, s)
    <3>1. CASE s = r
      <4>1. k \in DOMAIN c /\ c[k].name = c[h].name
        BY <1>3, <2>0, <2>1, <2>5, <3>1
      <4>2. k = h
        BY <1>5, <4>1
      <4> QED BY <1>4, <2>1, <3>1, <4>2
    <3>2. CASE s # r
      <4>1. s \in S /\ LastOf(p, s, S) /\ NameAt(p, s) # name
        BY <1>8, <2>5, <3>2
      <4>2. k \in DOMAIN c /\ c[k].name = NameAt(p, s) /\ k # h
        BY <2>0, <2>1, <2>5, <4>1
      <4> QED BY <1>6, <2>1, <4>1, <4>2
    <3> QED BY <3>1, <3>2
  <2>6. ASSUME NEW j \in DOMAIN d, NEW k \in DOMAIN d, j < k
        PROVE  \E s \in S \cup {r} :
                 /\ NameAt(p, s) = d[j].name
                 /\ \A t \in S \cup {r} : NameAt(p, t) = d[k].name => Earlier(s, t)
    <3>1. j \in DOMAIN c /\ k \in DOMAIN c /\ d[j].name = c[j].name /\ d[k].name = c[k].name
      BY <2>0, <2>1
    <3>2. PICK s \in S : /\ NameAt(p, s) = c[j].name
                         /\ \A t \in S : NameAt(p, t) = c[k].name => Earlier(s, t)
      BY <1>6, <2>6, <3>1
    <3>3. s \in S \cup {r} /\ Earlier(s, r)
      OBVIOUS
    <3> QED BY <3>1, <3>2, <3>3
  <2>7. VariablesSetBy(n, p, S \cup {r})
    BY <1>2, <2>4, <2>5 DEF VariablesSetBy
  <2>8. InOrder(n, p, S \cup {r})
    BY <1>2, <2>6 DEF InOrder
  <2> QED BY <1>2, <1>7, <2>7, <2>8
<1>10. CASE Added(c, d, name, text)
  <2>1. PICK h : h = Len(c) + 1
    OBVIOUS
  <2>2. /\ DOMAIN d = DOMAIN c \cup {h} /\ d[h].name = name /\ d[h].text = text
        /\ \A k \in DOMAIN c : d[k] = c[k]
        /\ h \in Int /\ \A k \in DOMAIN c : k \in Int /\ k < h
    BY <1>5, <1>10, <2>1 DEF Added
  <2>3. /\ \A k \in DOMAIN d : \E s \in S \cup {r} : NameAt(p, s) = d[k].name
        /\ \A s \in S \cup {r} : \E k \in DOMAIN d : d[k].name = NameAt(p, s)
    <3>1. ASSUME NEW k \in DOMAIN d PROVE \E s \in S \cup {r} : NameAt(p, s) = d[k].name
      <4>1. CASE k = h
        BY <1>3, <2>2, <4>1
      <4>2. CASE k \in DOMAIN c
        BY <1>6, <2>2, <4>2
      <4> QED BY <2>2, <4>1, <4>2
    <3>2. ASSUME NEW s \in S \cup {r} PROVE \E k \in DOMAIN d : d[k].name = NameAt(p, s)
      <4>1. CASE s = r
        BY <1>3, <2>2, <4>1
      <4>2. CASE s \in S
        BY <1>6, <2>2, <4>2
      <4> QED BY <4>1, <4>2
    <3> QED BY <3>1, <3>2
  <2>4. {d[k].name : k \in DOMAIN d} = {NameAt(p, s) : s \in S \cup {r}}
    BY <2>3
  <2>5. \A s \in S : NameAt(p, s) # name
    BY <1>6, <1>10 DEF Added
  <2>6. ASSUME NEW s \in S \cup {r}, NEW k \in DOMAIN d, LastOf(p, s, S \cup {r}),
               d[k].name = NameAt(p, s)
        PROVE  d[k].text = TextAt(p, s)
    <3>1. CASE s = r
      <4>1. k = h
        BY <1>3, <1>10, <2>2, <2>6, <3>1 DEF Added
      <4> QED BY <1>4, <2>2, <3>1, <4>1
    <3>2. CASE s # r
      <4>1. s \in S /\ LastOf(p, s, S)
        BY <1>8, <2>6, <3>2
      <4>2. k \in DOMAIN c /\ c[k].name = NameAt(p, s)
        BY <2>2, <2>5, <2>6, <4>1
      <4> QED BY <1>6, <2>2, <4>1, <4>2
    <3> QED BY <3>1, <3>2
  <2>7. ASSUME NEW j \in DOMAIN d, NEW k \in DOMAIN d, j < k
        PROVE  \E s \in S \cup {r} :
                 /\ NameAt(p, s) = d[j].name
                 /\ \A t \in S \cup {r} : NameAt(p, t) = d[k].name => Earlier(s, t)
    <3>1. j \in DOMAIN c
      BY <2>2, <2>7
    <3>2. CASE k \in DOMAIN c
      <4>1. PICK s \in S : /\ NameAt(p, s) = c[j].name
                           /\ \A t \in S : NameAt(p, t) = c[k].name => Earlier(s, t)
        BY <1>6, <2>7, <3>1, <3>2
      <4>2. s \in S \cup {r} /\ Earlier(s, r)
        OBVIOUS
      <4> QED BY <2>2, <3>1, <3>2, <4>1, <4>2
    <3>3. CASE k = h
      <4>2. PICK s \in S : NameAt(p, s) = c[j].name
        BY <1>6, <3>1
      <4>3. s \in S \cup {r} /\ Earlier(s, r)
        OBVIOUS
      <4>4. \A t \in S \cup {r} : NameAt(p, t) = d[k].name => t = r
        BY <2>2, <2>5, <3>3
      <4> QED BY <2>2, <3>1, <4>2, <4>3, <4>4
    <3> QED BY <2>2, <3>2, <3>3
  <2>8. VariablesSetBy(n, p, S \cup {r})
    BY <1>2, <2>4, <2>6 DEF VariablesSetBy
  <2>9. InOrder(n, p, S \cup {r})
    BY <1>2, <2>7 DEF InOrder
  <2> QED BY <1>2, <1>7, <2>8, <2>9
<1> QED BY <1>5, <1>9, <1>10, UpsertFacts

-----------------------------------------------------------------------------
(* Through the actions of a policy *)

\* At the first value of the first action nothing was done yet.
LEMMA NothingAtStart ==
  ASSUME NEW p \in PolicyRecords
  PROVE  Decoded(p, 1, 1) /\ Accounts(NoOutcome, p, 1, 1)
<1>1. Len(p.actions) \in Nat
  BY PolicyTypes
<1>2. Decoded(p, 1, 1)
  BY <1>1 DEF Decoded
<1>3. \A kinds : Past(p, 1, kinds) = {}
  BY DEF Past
<1>4. ASSUME NEW kinds PROVE Made(p, 1, 1, kinds) = {}
  <2>1. ASSUME NEW s PROVE s \notin Made(p, 1, 1, kinds)
    <3>1. \A z \in 1 .. Len(p.actions) : Count(p, z) \in Nat
      BY PolicyTypes
    <3>2. \A z \in 1 .. Len(p.actions) : \A w \in 1 .. Count(p, z) : ~(z < 1) /\ ~(w < 1)
      BY <1>1, <3>1
    <3> QED BY <3>2, MadePairs
  <2> QED BY <2>1
<1>5. /\ NoOutcome.injectSet = FALSE /\ NoOutcome.inject = FALSE
      /\ DOMAIN NoOutcome.versions = {} /\ DOMAIN NoOutcome.configs = {}
  BY DEF NoOutcome
<1>6. DecidedBy(NoOutcome, p, {})
  BY <1>5 DEF DecidedBy
<1>7. VersionsSetBy(NoOutcome, p, {})
  BY <1>5 DEF VersionsSetBy
<1>8. VariablesSetBy(NoOutcome, p, {}) /\ InOrder(NoOutcome, p, {})
  BY <1>5 DEF VariablesSetBy, InOrder
<1> QED BY <1>2, <1>3, <1>4, <1>6, <1>7, <1>8 DEF Accounts

\* What is past grows by an action at a time.
LEMMA PastMore ==
  ASSUME NEW p \in PolicyRecords, NEW x \in 1 .. Len(p.actions), NEW kinds
  PROVE  /\ Does(p, x) \in kinds => Past(p, x + 1, kinds) = Past(p, x, kinds) \cup {x}
         /\ Does(p, x) \notin kinds => Past(p, x + 1, kinds) = Past(p, x, kinds)
<1>1. x \in Nat
  BY PolicyTypes
<1>2. \A z : z \in 1 .. (x + 1) - 1 <=> z \in 1 .. x - 1 \/ z = x
  BY <1>1
<1>3. \A z : z \in Past(p, x + 1, kinds) <=> (z \in 1 .. x - 1 \/ z = x) /\ Does(p, z) \in kinds
  BY <1>2 DEF Past
<1>4. \A z : z \in Past(p, x, kinds) <=> z \in 1 .. x - 1 /\ Does(p, z) \in kinds
  BY DEF Past
<1> QED BY <1>3, <1>4

\* What is set of versions is a matter of the versions alone.
LEMMA SameVersions ==
  ASSUME NEW o, NEW n, NEW p, NEW S, VersionsSetBy(o, p, S), n.versions = o.versions
  PROVE  VersionsSetBy(n, p, S)
BY DEF VersionsSetBy

\* What is set of variables is a matter of the variables alone.
LEMMA SameVariables ==
  ASSUME NEW o, NEW n, NEW p, NEW S, VariablesSetBy(o, p, S), InOrder(o, p, S),
         n.configs = o.configs
  PROVE  VariablesSetBy(n, p, S) /\ InOrder(n, p, S)
<1>1. VariablesSetBy(n, p, S)
  BY DEF VariablesSetBy
<1> QED BY <1>1 DEF InOrder

\* What was decided is a matter of injection alone.
LEMMA SameDecision ==
  ASSUME NEW o, NEW n, NEW p, NEW J, DecidedBy(o, p, J),
         n.inject = o.inject, n.injectSet = o.injectSet
  PROVE  DecidedBy(n, p, J)
BY DEF DecidedBy

\* Past an action that was decoded to its end.
LEMMA DecodedNext ==
  ASSUME NEW p \in PolicyRecords, NEW x \in 1 .. Len(p.actions), NEW y \in Nat \ {0},
         Decoded(p, x, y), ~TooMany(p.actions[x]),
         Does(p, x) \in Valued => y = Len(p.actions[x].values) + 1
  PROVE  Decoded(p, x + 1, 1)
<1>1. /\ Len(p.actions) \in Nat /\ Len(p.actions[x].values) \in Nat
      /\ DOMAIN p.actions[x].values = 1 .. Len(p.actions[x].values)
  BY PolicyTypes
<1>2. x + 1 <= Len(p.actions) + 1
  BY <1>1
<1>3. ~Malformed(p.actions[x])
  <2>1. CASE Does(p, x) \in Valued
    <3>1. \A z \in 1 .. Len(p.actions[x].values) : p.actions[x].values[z].wellFormed
      BY <1>1, <2>1 DEF Decoded
    <3> QED BY <1>1, <3>1 DEF Malformed
  <2>2. CASE Does(p, x) \notin Valued
    BY <2>2 DEF Malformed, Does
  <2> QED BY <2>1, <2>2
<1>4. Handles(p, x) => ~p.actions[x].tooMany
  BY DEF Handles, Does, TooMany
<1>5. ASSUME NEW z \in 1 .. (x + 1) - 1, Handles(p, z)
      PROVE  ~p.actions[z].tooMany /\ ~Malformed(p.actions[z])
  <2>1. z \in 1 .. x - 1 \/ z = x
    BY <1>1
  <2> QED BY <1>3, <1>4, <1>5, <2>1 DEF Decoded
<1> QED BY <1>2, <1>5 DEF Decoded

\* Nothing of an action but those with values is done before it is.
LEMMA AtFirstValue ==
  ASSUME NEW p, NEW x, NEW y, Decoded(p, x, y), Does(p, x) \notin Valued \/ p.actions[x].tooMany
  PROVE  y = 1
BY DEF Decoded

\* An action that is not handled changes nothing.
LEMMA Ignored ==
  ASSUME NEW p \in PolicyRecords, NEW x \in 1 .. Len(p.actions), NEW y \in Nat \ {0}, NEW o,
         Decoded(p, x, y), Accounts(o, p, x, y), Does(p, x) \notin Handled, ~TooMany(p.actions[x])
  PROVE  Decoded(p, x + 1, 1) /\ Accounts(o, p, x + 1, 1)
<1>1. Does(p, x) \notin Valued /\ Does(p, x) \notin Injects /\ Does(p, x) \notin Versions
      /\ Does(p, x) \notin Variables
  BY DEF Handled, Valued, Injects, Versions, Variables
<1>2. Decoded(p, x + 1, 1)
  BY <1>1, DecodedNext
<1>3. Past(p, x + 1, Injects) = Past(p, x, Injects)
  BY <1>1, PastMore
<1>4. /\ Made(p, x + 1, 1, Versions) = Made(p, x, y, Versions)
      /\ Made(p, x + 1, 1, Variables) = Made(p, x, y, Variables)
  BY <1>1, MadeNext
<1> QED BY <1>2, <1>3, <1>4 DEF Accounts

\* Nor does the end of the values of an action.
LEMMA ValuesEnd ==
  ASSUME NEW p \in PolicyRecords, NEW x \in 1 .. Len(p.actions), NEW y \in Nat \ {0}, NEW o,
         Decoded(p, x, y), Accounts(o, p, x, y), Does(p, x) \in Valued, ~TooMany(p.actions[x]),
         y > Len(p.actions[x].values)
  PROVE  Decoded(p, x + 1, 1) /\ Accounts(o, p, x + 1, 1)
<1>1. Does(p, x) \notin Injects /\ Does(p, x) # "ENABLE_PROFILER"
  BY DEF Valued, Injects
<1>2. y = Len(p.actions[x].values) + 1
  <2>1. Len(p.actions[x].values) \in Nat
    BY PolicyTypes
  <2>2. y = 1 \/ y <= Len(p.actions[x].values) + 1
    BY DEF Decoded
  <2> QED BY <2>1, <2>2
<1>3. y = Count(p, x) + 1
  BY <1>1, <1>2 DEF Count
<1>4. Decoded(p, x + 1, 1)
  BY <1>2, DecodedNext
<1>5. Past(p, x + 1, Injects) = Past(p, x, Injects)
  BY <1>1, PastMore
<1>6. /\ Made(p, x + 1, 1, Versions) = Made(p, x, y, Versions)
      /\ Made(p, x + 1, 1, Variables) = Made(p, x, y, Variables)
  BY <1>3, MadeNext
<1> QED BY <1>4, <1>5, <1>6 DEF Accounts

\* An action that decides on injection.
LEMMA Injected ==
  ASSUME NEW p \in PolicyRecords, NEW x \in 1 .. Len(p.actions), NEW y \in Nat \ {0},
         NEW o, NEW n,
         Decoded(p, x, y), Accounts(o, p, x, y), Does(p, x) \in Injects, ~TooMany(p.actions[x]),
         n.injectSet = TRUE, n.inject = (Does(p, x) = "INJECT_ALLOW"),
         n.versions = o.versions, n.configs = o.configs
  PROVE  Decoded(p, x + 1, 1) /\ Accounts(n, p, x + 1, 1)
<1>1. Does(p, x) \notin Valued /\ Does(p, x) \notin Versions /\ Does(p, x) \notin Variables
  BY DEF Valued, Injects, Versions, Variables
<1>2. Decoded(p, x + 1, 1)
  BY <1>1, DecodedNext
<1>3. Past(p, x + 1, Injects) = Past(p, x, Injects) \cup {x}
  BY PastMore
<1>4. x \in Nat /\ Past(p, x, Injects) \in SUBSET Nat /\ \A z \in Past(p, x, Injects) : z < x
  <2>1. x \in Nat
    BY PolicyTypes
  <2>2. \A z \in 1 .. x - 1 : z \in Nat /\ z < x
    BY <2>1
  <2> QED BY <2>1, <2>2 DEF Past
<1>5. DecidedBy(o, p, Past(p, x, Injects))
  BY DEF Accounts
<1>6. DecidedBy(n, p, Past(p, x, Injects) \cup {x})
  BY <1>4, <1>5, InjectDecides
<1>7. /\ Made(p, x + 1, 1, Versions) = Made(p, x, y, Versions)
      /\ Made(p, x + 1, 1, Variables) = Made(p, x, y, Variables)
  BY <1>1, MadeNext
<1>8. /\ VersionsSetBy(n, p, Made(p, x, y, Versions))
      /\ VariablesSetBy(n, p, Made(p, x, y, Variables))
      /\ InOrder(n, p, Made(p, x, y, Variables))
  BY SameVersions, SameVariables DEF Accounts
<1> QED BY <1>2, <1>3, <1>6, <1>7, <1>8 DEF Accounts

\* The profiler sets its variable.
LEMMA Profiled ==
  ASSUME NEW p \in PolicyRecords, NEW x \in 1 .. Len(p.actions), NEW y \in Nat \ {0},
         NEW o, NEW n, o.configs \in Seq(EnvVars),
         Decoded(p, x, y), Accounts(o, p, x, y),
         Does(p, x) = "ENABLE_PROFILER", ~TooMany(p.actions[x]),
         n.inject = o.inject, n.injectSet = o.injectSet, n.versions = o.versions,
         n.configs = upsertEnvVar(o.configs, Profiling, True)
  PROVE  /\ n.configs \in Seq(EnvVars)
         /\ Decoded(p, x + 1, 1) /\ Accounts(n, p, x + 1, 1)
<1>1. /\ Does(p, x) \notin Valued /\ Does(p, x) \notin Injects /\ Does(p, x) \notin Versions
      /\ Does(p, x) \in Variables
  BY DEF Valued, Injects, Versions, Variables
<1>2. Decoded(p, x + 1, 1)
  BY <1>1, DecodedNext
<1>3. y = 1 /\ Count(p, x) = 1
  BY <1>1, AtFirstValue DEF Count
<1>4. DecidedBy(n, p, Past(p, x + 1, Injects))
  <2>1. Past(p, x + 1, Injects) = Past(p, x, Injects)
    BY <1>1, PastMore
  <2>2. DecidedBy(o, p, Past(p, x, Injects))
    BY DEF Accounts
  <2> QED BY <2>1, <2>2, SameDecision
<1>5. VersionsSetBy(n, p, Made(p, x + 1, 1, Versions))
  <2>1. Made(p, x + 1, 1, Versions) = Made(p, x, y, Versions)
    BY <1>1, MadeNext
  <2>2. VersionsSetBy(o, p, Made(p, x, y, Versions))
    BY DEF Accounts
  <2> QED BY <2>1, <2>2, SameVersions
<1>6. Made(p, x + 1, 1, Variables) = Made(p, x, 1, Variables) \cup {<<x, 1>>}
  <2>1. Made(p, x, 1 + 1, Variables) = Made(p, x, 1, Variables) \cup {<<x, 1>>}
    BY <1>1, <1>3, MadeMore
  <2>2. Made(p, x + 1, 1, Variables) = Made(p, x, 1 + 1, Variables)
    BY <1>1, <1>3, MadeNext
  <2> QED BY <2>1, <2>2
<1>7. /\ VariablesSetBy(o, p, Made(p, x, 1, Variables))
      /\ InOrder(o, p, Made(p, x, 1, Variables))
  BY <1>3 DEF Accounts
<1>8. \A s \in Made(p, x, 1, Variables) : Earlier(s, <<x, 1>>) /\ ~Earlier(s, s)
  <2>1. x \in Nat /\ 1 \in Nat
    BY PolicyTypes
  <2> QED BY <2>1, EarlierOrders, NeverEarlier
<1>9. NameAt(p, <<x, 1>>) = Profiling /\ TextAt(p, <<x, 1>>) = True
  BY DEF NameAt, TextAt
<1>10. /\ n.configs \in Seq(EnvVars)
       /\ VariablesSetBy(n, p, Made(p, x, 1, Variables) \cup {<<x, 1>>})
       /\ InOrder(n, p, Made(p, x, 1, Variables) \cup {<<x, 1>>})
  <2>1. PICK r : r = <<x, 1>>
    OBVIOUS
  <2>2. PICK S : S = Made(p, x, 1, Variables)
    OBVIOUS
  <2>3. /\ NameAt(p, r) \in Names /\ TextAt(p, r) \in Texts
        /\ n.configs = upsertEnvVar(o.configs, NameAt(p, r), TextAt(p, r))
    BY <1>9, <2>1, NameAssumption
  <2>4. VariablesSetBy(o, p, S) /\ InOrder(o, p, S) /\ \A s \in S : Earlier(s, r) /\ ~Earlier(s, s)
    BY <1>7, <1>8, <2>1, <2>2
  <2>5. n.configs \in Seq(EnvVars) /\ VariablesSetBy(n, p, S \cup {r}) /\ InOrder(n, p, S \cup {r})
    BY <2>3, <2>4, VariableSet
  <2> QED BY <2>1, <2>2, <2>5
<1> QED BY <1>2, <1>4, <1>5, <1>6, <1>10 DEF Accounts

\* Past a value that is well-formed.
LEMMA DecodedValue ==
  ASSUME NEW p \in PolicyRecords, NEW x \in 1 .. Len(p.actions), NEW y \in Nat \ {0},
         Decoded(p, x, y), Does(p, x) \in Valued, ~TooMany(p.actions[x]),
         y <= Len(p.actions[x].values), p.actions[x].values[y].wellFormed
  PROVE  Decoded(p, x, y + 1)
<1>1. Len(p.actions) \in Nat /\ Len(p.actions[x].values) \in Nat /\ x <= Len(p.actions)
  BY PolicyTypes
<1>2. ~p.actions[x].tooMany
  BY DEF TooMany, Does, Handled
<1>3. ASSUME NEW z \in 1 .. (y + 1) - 1 PROVE p.actions[x].values[z].wellFormed
  <2>1. z \in 1 .. y - 1 \/ z = y
    OBVIOUS
  <2> QED BY <2>1 DEF Decoded
<1>4. y + 1 <= Len(p.actions[x].values) + 1
  BY <1>1
<1> QED BY <1>1, <1>2, <1>3, <1>4 DEF Decoded

\* A value of an action that sets versions.
LEMMA VersionDone ==
  ASSUME NEW p \in PolicyRecords, NEW x \in 1 .. Len(p.actions), NEW y \in Nat \ {0},
         NEW o, NEW n,
         Accounts(o, p, x, y), Does(p, x) = "ENABLE_SDK", y <= Len(p.actions[x].values),
         n.inject = o.inject, n.injectSet = o.injectSet, n.configs = o.configs,
         n.versions = SetVersion(o.versions, p.actions[x].values[y].name, p.actions[x].values[y].text)
  PROVE  Accounts(n, p, x, y + 1)
<1>1. Does(p, x) \notin Variables /\ Does(p, x) \in Versions /\ Does(p, x) # "ENABLE_PROFILER"
  BY DEF Versions, Variables
<1>2. y \in 1 .. Count(p, x) /\ x \in Nat
  BY <1>1, PolicyTypes DEF Count
<1>3. DecidedBy(n, p, Past(p, x, Injects))
  BY SameDecision DEF Accounts
<1>4. /\ VariablesSetBy(n, p, Made(p, x, y, Variables))
      /\ InOrder(n, p, Made(p, x, y, Variables))
  BY SameVariables DEF Accounts
<1>5. Made(p, x, y + 1, Variables) = Made(p, x, y, Variables)
  BY <1>1, MadeSame
<1>6. Made(p, x, y + 1, Versions) = Made(p, x, y, Versions) \cup {<<x, y>>}
  BY <1>1, <1>2, MadeMore
<1>7. PICK r : r = <<x, y>>
  OBVIOUS
<1>8. PICK S : S = Made(p, x, y, Versions)
  OBVIOUS
<1>9. VersionsSetBy(o, p, S)
  BY <1>8 DEF Accounts
<1>10. \A s \in S : Earlier(s, r)
  BY <1>2, <1>7, <1>8, EarlierOrders
<1>11. NameAt(p, r) = p.actions[x].values[y].name /\ TextAt(p, r) = p.actions[x].values[y].text
  BY <1>1, <1>7 DEF NameAt, TextAt
<1>12. VersionsSetBy(n, p, S \cup {r})
  BY <1>9, <1>10, <1>11, VersionSet
<1> QED BY <1>3, <1>4, <1>5, <1>6, <1>7, <1>8, <1>12 DEF Accounts

\* A value of an action that sets variables.
LEMMA VariableDone ==
  ASSUME NEW p \in PolicyRecords, NEW x \in 1 .. Len(p.actions), NEW y \in Nat \ {0},
         NEW o, NEW n, o.configs \in Seq(EnvVars),
         Accounts(o, p, x, y), Does(p, x) = "SET_ENVAR", y <= Len(p.actions[x].values),
         n.inject = o.inject, n.injectSet = o.injectSet, n.versions = o.versions,
         n.configs = upsertEnvVar(o.configs, p.actions[x].values[y].name, p.actions[x].values[y].text)
  PROVE  n.configs \in Seq(EnvVars) /\ Accounts(n, p, x, y + 1)
<1>1. Does(p, x) \in Variables /\ Does(p, x) \notin Versions /\ Does(p, x) # "ENABLE_PROFILER"
  BY DEF Versions, Variables
<1>2. y \in 1 .. Count(p, x) /\ x \in Nat
  BY <1>1, PolicyTypes DEF Count
<1>3. DecidedBy(n, p, Past(p, x, Injects))
  BY SameDecision DEF Accounts
<1>4. VersionsSetBy(n, p, Made(p, x, y, Versions))
  BY SameVersions DEF Accounts
<1>5. Made(p, x, y + 1, Versions) = Made(p, x, y, Versions)
  BY <1>1, MadeSame
<1>6. Made(p, x, y + 1, Variables) = Made(p, x, y, Variables) \cup {<<x, y>>}
  BY <1>1, <1>2, MadeMore
<1>7. PICK r : r = <<x, y>>
  OBVIOUS
<1>8. PICK S : S = Made(p, x, y, Variables)
  OBVIOUS
<1>9. VariablesSetBy(o, p, S) /\ InOrder(o, p, S)
  BY <1>8 DEF Accounts
<1>10. \A s \in S : Earlier(s, r) /\ ~Earlier(s, s)
  BY <1>2, <1>7, <1>8, EarlierOrders, NeverEarlier
<1>11. NameAt(p, r) = p.actions[x].values[y].name /\ TextAt(p, r) = p.actions[x].values[y].text
  BY <1>1, <1>7 DEF NameAt, TextAt
<1>12. NameAt(p, r) \in Names /\ TextAt(p, r) \in Texts
  <2>1. p.actions[x].values[y] \in ValueRecords
    <3>1. Len(p.actions[x].values) \in Nat
      BY PolicyTypes
    <3>2. y \in 1 .. Len(p.actions[x].values)
      BY <3>1
    <3> QED BY <3>2, PolicyTypes
  <2> QED BY <1>11, <2>1 DEF ValueRecords
<1>13. n.configs \in Seq(EnvVars) /\ VariablesSetBy(n, p, S \cup {r}) /\ InOrder(n, p, S \cup {r})
  BY <1>9, <1>10, <1>11, <1>12, VariableSet
<1> QED BY <1>3, <1>4, <1>5, <1>6, <1>7, <1>8, <1>13 DEF Accounts

-----------------------------------------------------------------------------
(* How a policy ends *)

\* A policy that is kept did what the actions that are run do, and all of it.
LEMMA KeptWhole ==
  ASSUME NEW p \in PolicyRecords, p.parses, NEW x \in Nat \ {0}, NEW y \in Nat \ {0}, NEW o,
         Decoded(p, x, y), Accounts(o, p, x, y),
         x <= Len(p.actions) => TooMany(p.actions[x])
  PROVE  /\ ~AtFault(p)
         /\ DecidedBy(o, p, Run(p, Injects))
         /\ VersionsSetBy(o, p, Settings(p, Run(p, Versions)))
         /\ VariablesSetBy(o, p, Settings(p, Run(p, Variables)))
         /\ InOrder(o, p, Settings(p, Run(p, Variables)))
<1>1. Len(p.actions) \in Nat /\ DOMAIN p.actions = 1 .. Len(p.actions)
  BY PolicyTypes
<1>2. y = 1
  BY <1>1 DEF Decoded, TooMany
<1>3. ASSUME NEW z \in 1 .. Len(p.actions)
      PROVE  z \in ActionsRun(p) <=> z < x /\ Handles(p, z)
  <2>1. ASSUME z < x, Handles(p, z) PROVE z \in ActionsRun(p)
    <3>1. ASSUME NEW w \in 1 .. z, Handles(p, w) PROVE ~p.actions[w].tooMany
      <4>1. w \in 1 .. x - 1
        BY <1>1, <2>1
      <4> QED BY <3>1, <4>1 DEF Decoded
    <3> QED BY <1>1, <2>1, <3>1 DEF ActionsRun
  <2>2. ASSUME z \in ActionsRun(p) PROVE z < x /\ Handles(p, z)
    <3>1. Handles(p, z) /\ \A w \in 1 .. z : Handles(p, w) => ~p.actions[w].tooMany
      BY <2>2 DEF ActionsRun
    <3>2. CASE x <= z
      <4>1. x \in 1 .. z /\ x <= Len(p.actions)
        BY <1>1, <3>2
      <4>2. Handles(p, x) /\ p.actions[x].tooMany
        BY <4>1 DEF TooMany, Handles, Does
      <4> QED BY <3>1, <4>1, <4>2
    <3> QED BY <1>1, <3>1, <3>2
  <2> QED BY <2>1, <2>2
<1>4. ASSUME NEW kinds, kinds \subseteq Handled
      PROVE  Run(p, kinds) = Past(p, x, kinds)
  <2>1. \A z : z \in 1 .. x - 1 <=> z \in 1 .. Len(p.actions) /\ z < x
    BY <1>1 DEF Decoded
  <2>2. \A z : z \in Run(p, kinds) <=> z \in 1 .. Len(p.actions) /\ z < x /\ Does(p, z) \in kinds
    <3>1. \A z : z \in Run(p, kinds) <=> z \in ActionsRun(p) /\ Does(p, z) \in kinds
      BY DEF Run
    <3>2. \A z : z \in ActionsRun(p) => z \in 1 .. Len(p.actions)
      BY <1>1 DEF ActionsRun
    <3>3. \A z : Does(p, z) \in kinds => Handles(p, z)
      BY <1>4 DEF Handles
    <3> QED BY <1>3, <3>1, <3>2, <3>3
  <2> QED BY <2>1, <2>2 DEF Past
<1>5. ASSUME NEW kinds, kinds \subseteq Handled
      PROVE  Settings(p, Run(p, kinds)) = Made(p, x, y, kinds)
  <2>1. Run(p, kinds) \subseteq 1 .. Len(p.actions)
    BY <1>1 DEF Run, ActionsRun
  <2>2. \A z : z \in Run(p, kinds) <=> z \in 1 .. Len(p.actions) /\ z < x /\ Does(p, z) \in kinds
    <3>1. \A z : z \in 1 .. x - 1 <=> z \in 1 .. Len(p.actions) /\ z < x
      BY <1>1 DEF Decoded
    <3> QED BY <1>4, <1>5, <3>1 DEF Past
  <2>3. ASSUME NEW s
        PROVE  s \in Settings(p, Run(p, kinds)) <=> s \in Made(p, x, y, kinds)
    <3>1. s \in Settings(p, Run(p, kinds)) <=>
            \E z \in Run(p, kinds) : \E w \in 1 .. Count(p, z) : s = <<z, w>>
      BY <2>1, SettingPairs
    <3>2. s \in Made(p, x, y, kinds) <=>
            \E z \in 1 .. Len(p.actions) : \E w \in 1 .. Count(p, z) :
              s = <<z, w>> /\ Does(p, z) \in kinds /\ (z < x \/ (z = x /\ w < y))
      BY MadePairs
    <3>3. \A z \in 1 .. Len(p.actions) : \A w \in 1 .. Count(p, z) : ~(w < y)
      <4>1. ASSUME NEW z \in 1 .. Len(p.actions), NEW w \in 1 .. Count(p, z) PROVE ~(w < y)
        <5>1. Count(p, z) \in Nat
          BY PolicyTypes
        <5> QED BY <1>2, <5>1
      <4> QED BY <4>1
    <3> QED BY <2>2, <3>1, <3>2, <3>3
  <2> QED BY <2>3
<1>6. ~AtFault(p)
  <2>1. ASSUME NEW z \in ActionsRun(p) PROVE ~Malformed(p.actions[z])
    <3>1. z \in 1 .. Len(p.actions) /\ z < x /\ Handles(p, z)
      BY <1>1, <1>3 DEF ActionsRun
    <3>2. z \in 1 .. x - 1
      BY <1>1, <3>1
    <3> QED BY <3>1, <3>2 DEF Decoded
  <2> QED BY <2>1 DEF AtFault
<1>7. Injects \subseteq Handled /\ Versions \subseteq Handled /\ Variables \subseteq Handled
  BY DEF Injects, Versions, Variables, Handled, Valued
<1>8. Run(p, Injects) = Past(p, x, Injects)
  BY <1>4, <1>7
<1>9. /\ Settings(p, Run(p, Versions)) = Made(p, x, y, Versions)
      /\ Settings(p, Run(p, Variables)) = Made(p, x, y, Variables)
  BY <1>5, <1>7
<1> QED BY <1>6, <1>8, <1>9 DEF Accounts

\* A policy that is skipped at a value is at fault: the action is one that is run.
LEMMA SkippedAtFault ==
  ASSUME NEW p \in PolicyRecords, NEW x \in 1 .. Len(p.actions), NEW y \in Nat \ {0},
         Decoded(p, x, y), Does(p, x) \in Valued, ~TooMany(p.actions[x]),
         y <= Len(p.actions[x].values), ~p.actions[x].values[y].wellFormed
  PROVE  AtFault(p)
<1>1. /\ Len(p.actions) \in Nat /\ DOMAIN p.actions = 1 .. Len(p.actions)
      /\ Len(p.actions[x].values) \in Nat
      /\ DOMAIN p.actions[x].values = 1 .. Len(p.actions[x].values)
  BY PolicyTypes
<1>2. Malformed(p.actions[x])
  <2>1. y \in DOMAIN p.actions[x].values
    BY <1>1
  <2> QED BY <2>1 DEF Malformed, Does
<1>3. x \in ActionsRun(p)
  <2>1. Handles(p, x) /\ ~p.actions[x].tooMany
    BY DEF Handles, Handled, TooMany, Does
  <2>2. ASSUME NEW z \in 1 .. x, Handles(p, z) PROVE ~p.actions[z].tooMany
    <3>1. z \in 1 .. x - 1 \/ z = x
      BY <1>1
    <3> QED BY <2>1, <2>2, <3>1 DEF Decoded
  <2> QED BY <1>1, <2>1, <2>2 DEF ActionsRun
<1> QED BY <1>2, <1>3 DEF AtFault

-----------------------------------------------------------------------------
(* The steps *)

\* What is known while a policy is decoded.
LEMMA CurrentPolicy ==
  ASSUME DecoderInv, i <= Len(doc)
  PROVE  /\ i \in 1 .. Len(doc) /\ Len(doc) \in Nat /\ DOMAIN doc = 1 .. Len(doc)
         /\ doc[i] \in PolicyRecords
         /\ a \in Nat \ {0} /\ v \in Nat \ {0} /\ outcome \in Outcomes
         /\ outcome.configs \in Seq(EnvVars)
         /\ doc[i].parses => Decoded(doc[i], a, v) /\ Accounts(outcome, doc[i], a, v)
         /\ Decoding => doc[i].parses /\ a \in 1 .. Len(doc[i].actions)
<1>1. /\ doc \in Seq(PolicyRecords) /\ i \in Nat \ {0} /\ a \in Nat \ {0} /\ v \in Nat \ {0}
      /\ outcome \in Outcomes
  BY DEF DecoderInv, DecoderTypes
<1>2. i \in 1 .. Len(doc) /\ Len(doc) \in Nat /\ DOMAIN doc = 1 .. Len(doc)
  BY <1>1
<1>3. doc[i] \in PolicyRecords
  BY <1>1, <1>2
<1>4. outcome.configs \in Seq(EnvVars)
  BY <1>1 DEF Outcomes
<1>5. doc[i].parses => Decoded(doc[i], a, v) /\ Accounts(outcome, doc[i], a, v)
  BY DEF DecoderInv, InPolicy
<1>6. Decoding => doc[i].parses /\ a \in 1 .. Len(doc[i].actions)
  <2>1. Len(doc[i].actions) \in Nat
    BY <1>3, PolicyTypes
  <2> QED BY <1>1, <2>1 DEF Decoding, Actions
<1> QED BY <1>1, <1>2, <1>3, <1>4, <1>5, <1>6

\* A step within a policy.
LEMMA StepsInPolicy ==
  ASSUME DecoderInv, i <= Len(doc), UNCHANGED <<doc, i, out, skipped>>,
         NEW p, p = doc[i], NEW x, x = a', NEW y, y = v', NEW o, o = outcome',
         x \in Nat \ {0}, y \in Nat \ {0}, o \in Outcomes,
         Decoded(p, x, y), Accounts(o, p, x, y)
  PROVE  DecoderInv'
<1>1. DecoderTypes'
  BY DEF DecoderInv, DecoderTypes
<1>2. InPolicy'
  <2>1. Decoded(doc'[i'], a', v') /\ Accounts(outcome', doc'[i'], a', v')
    OBVIOUS
  <2> QED BY <2>1 DEF InPolicy
<1>3. Sorted'
  BY DEF DecoderInv, Sorted
<1>4. OutcomeOfActionsRun'
  BY DEF DecoderInv, OutcomeOfActionsRun
<1>5. ConfigsInOrder'
  BY DEF DecoderInv, ConfigsInOrder
<1> QED BY <1>1, <1>2, <1>3, <1>4, <1>5 DEF DecoderInv

\* The next policy starts with nothing done.
LEMMA StartsPolicy ==
  ASSUME DecoderInv, i <= Len(doc), NextPolicy
  PROVE  InPolicy'
<1>1. doc \in Seq(PolicyRecords) /\ i \in Nat
  BY DEF DecoderInv, DecoderTypes
<1>2. doc' = doc /\ i' = i + 1 /\ a' = 1 /\ v' = 1 /\ outcome' = NoOutcome
  BY DEF NextPolicy
<1>3. ASSUME i' <= Len(doc)
      PROVE  Decoded(doc[i'], 1, 1) /\ Accounts(NoOutcome, doc[i'], 1, 1)
  <2>1. doc[i'] \in PolicyRecords
    BY <1>1, <1>2, <1>3
  <2>2. PICK p \in PolicyRecords : p = doc[i']
    BY <2>1
  <2> QED BY <2>2, NothingAtStart
<1> QED BY <1>2, <1>3 DEF InPolicy

\* The types of what NextPolicy sets.
LEMMA StartTypes ==
  NoOutcome \in Outcomes
<1>1. << >> \in [{} -> Texts]
  OBVIOUS
<1>2. << >> \in UNION {[D -> Texts] : D \in SUBSET Names}
  BY <1>1
<1>3. << >> \in Seq(EnvVars)
  OBVIOUS
<1> QED BY <1>2, <1>3 DEF NoOutcome, Outcomes

\* What is before the next policy is what was before this one, and this one.
LEMMA OneMorePolicy ==
  ASSUME NEW n \in Nat \ {0}, NEW m, m = n + 1
  PROVE  \A k : k \in 1 .. m - 1 <=> k \in 1 .. n - 1 \/ k = n
OBVIOUS

\* One more element at the end.
LEMMA AppendFacts ==
  ASSUME NEW S, NEW s \in Seq(S), NEW e \in S, NEW n, n = Len(s) + 1, NEW t, t = Append(s, e)
  PROVE  /\ t \in Seq(S) /\ DOMAIN t = DOMAIN s \cup {n} /\ n \in Nat /\ t[n] = e
         /\ \A x \in DOMAIN s : t[x] = s[x] /\ x \in Int /\ x < n
<1>1. t \in Seq(S) /\ Len(t) = n /\ Len(s) \in Nat
  OBVIOUS
<1>2. DOMAIN t = 1 .. n /\ DOMAIN s = 1 .. Len(s) /\ n \in Nat
  BY <1>1
<1>3. t[n] = e /\ \A x \in 1 .. Len(s) : t[x] = s[x]
  BY <1>1
<1>4. 1 .. n = 1 .. Len(s) \cup {n}
  BY <1>1
<1>5. \A x \in 1 .. Len(s) : x \in Int /\ x < n
  BY <1>1
<1> QED BY <1>1, <1>2, <1>3, <1>4, <1>5

\* A policy is kept.
LEMMA KeepSteps ==
  ASSUME DecoderInv, i <= Len(doc), doc[i].parses,
         a <= Len(Actions) => TooMany(Actions[a]), Keep
  PROVE  DecoderInv'
<1>1. PICK p : p = doc[i]
  OBVIOUS
<1>2. PICK n : n = Len(out) + 1
  OBVIOUS
<1>3. /\ ~AtFault(p)
      /\ DecidedBy(outcome, p, Run(p, Injects))
      /\ VersionsSetBy(outcome, p, Settings(p, Run(p, Versions)))
      /\ VariablesSetBy(outcome, p, Settings(p, Run(p, Variables)))
      /\ InOrder(outcome, p, Settings(p, Run(p, Variables)))
  <2>1. /\ p \in PolicyRecords /\ p.parses /\ a \in Nat \ {0} /\ v \in Nat \ {0}
        /\ Decoded(p, a, v) /\ Accounts(outcome, p, a, v)
    BY <1>1, CurrentPolicy
  <2>2. a <= Len(p.actions) => TooMany(p.actions[a])
    BY <1>1 DEF Actions
  <2> QED BY <2>1, <2>2, KeptWhole
<1>4. /\ doc' = doc /\ i' = i + 1 /\ a' = 1 /\ v' = 1 /\ outcome' = NoOutcome
      /\ skipped' = skipped /\ out' = Append(out, [place |-> i, outcome |-> outcome])
  BY DEF Keep, NextPolicy
<1>5. /\ doc \in Seq(PolicyRecords) /\ i \in Nat \ {0} /\ outcome \in Outcomes
      /\ out \in Seq([place : Nat, outcome : Outcomes]) /\ skipped \in Seq(Nat)
  BY DEF DecoderInv, DecoderTypes
<1>6. /\ out' \in Seq([place : Nat, outcome : Outcomes])
      /\ DOMAIN out' = DOMAIN out \cup {n} /\ n \in Nat
      /\ out'[n] = [place |-> i, outcome |-> outcome]
      /\ \A x \in DOMAIN out : out'[x] = out[x] /\ x < n
  <2>1. PICK e \in [place : Nat, outcome : Outcomes] : e = [place |-> i, outcome |-> outcome]
    BY <1>5
  <2>2. out' = Append(out, e)
    BY <1>4, <2>1
  <2>3. PICK s \in Seq([place : Nat, outcome : Outcomes]) : s = out
    BY <1>5
  <2>4. PICK t : t = out'
    OBVIOUS
  <2>5. /\ t \in Seq([place : Nat, outcome : Outcomes])
        /\ DOMAIN t = DOMAIN s \cup {n} /\ n \in Nat /\ t[n] = e
        /\ \A x \in DOMAIN s : t[x] = s[x] /\ x < n
    BY <1>2, <2>1, <2>2, <2>3, <2>4, AppendFacts
  <2> QED BY <2>1, <2>3, <2>4, <2>5
<1>7. out'[n].place = i /\ out'[n].outcome = outcome
  BY <1>6
<1>8. DecoderTypes'
  BY <1>4, <1>5, <1>6, StartTypes DEF DecoderTypes
<1>9. InPolicy'
  BY StartsPolicy DEF Keep
<1>10. \A k : k \in 1 .. i' - 1 <=> k \in 1 .. i - 1 \/ k = i
  BY <1>4, <1>5, OneMorePolicy
<1>11. Sorted'
  <2>1. i' <= Len(doc') + 1
    BY <1>4, <1>5
  <2>2. {out'[x].place : x \in DOMAIN out'} = {k \in 1 .. i' - 1 : ~AtFault(doc'[k])}
    <3>1. {out'[x].place : x \in DOMAIN out'} = {out[x].place : x \in DOMAIN out} \cup {i}
      BY <1>6, <1>7
    <3>2. {out[x].place : x \in DOMAIN out} = {k \in 1 .. i - 1 : ~AtFault(doc[k])}
      BY DEF DecoderInv, Sorted
    <3>3. {k \in 1 .. i' - 1 : ~AtFault(doc'[k])} = {k \in 1 .. i - 1 : ~AtFault(doc[k])} \cup {i}
      BY <1>1, <1>3, <1>4, <1>10
    <3> QED BY <3>1, <3>2, <3>3
  <2>3. {skipped'[x] : x \in DOMAIN skipped'} = {k \in 1 .. i' - 1 : AtFault(doc'[k])}
    <3>1. {skipped[x] : x \in DOMAIN skipped} = {k \in 1 .. i - 1 : AtFault(doc[k])}
      BY DEF DecoderInv, Sorted
    <3>2. {k \in 1 .. i' - 1 : AtFault(doc'[k])} = {k \in 1 .. i - 1 : AtFault(doc[k])}
      BY <1>1, <1>3, <1>4, <1>10
    <3> QED BY <1>4, <3>1, <3>2
  <2>4. ASSUME NEW x \in DOMAIN out', NEW y \in DOMAIN out', x < y
        PROVE  out'[x].place < out'[y].place
    <3>1. \A z \in DOMAIN out : z \in Int /\ z < n
      BY <1>5, <1>6
    <3>2. x \in DOMAIN out
      BY <1>6, <2>4, <3>1
    <3>3. CASE y \in DOMAIN out
      BY <1>6, <2>4, <3>2, <3>3 DEF DecoderInv, Sorted
    <3>4. CASE y = n
      <4>1. out[x].place \in {k \in 1 .. i - 1 : ~AtFault(doc[k])}
        BY <3>2 DEF DecoderInv, Sorted
      <4>2. out[x].place \in 1 .. i - 1
        BY <4>1
      <4>3. out[x].place < i
        BY <1>5, <4>2
      <4> QED BY <1>6, <1>7, <3>2, <3>4, <4>3
    <3> QED BY <1>6, <3>3, <3>4
  <2>5. \A x, y \in DOMAIN skipped' : x < y => skipped'[x] < skipped'[y]
    BY <1>4 DEF DecoderInv, Sorted
  <2> QED BY <2>1, <2>2, <2>3, <2>4, <2>5 DEF Sorted
<1>12. OutcomeOfActionsRun'
  <2>1. ASSUME NEW x \in DOMAIN out', NEW q, q = doc'[out'[x].place], NEW o, o = out'[x].outcome
        PROVE  /\ DecidedBy(o, q, Run(q, Injects))
               /\ VersionsSetBy(o, q, Settings(q, Run(q, Versions)))
               /\ VariablesSetBy(o, q, Settings(q, Run(q, Variables)))
    <3>1. CASE x = n
      BY <1>1, <1>3, <1>4, <1>7, <2>1, <3>1
    <3>2. CASE x \in DOMAIN out
      BY <1>4, <1>6, <2>1, <3>2 DEF DecoderInv, OutcomeOfActionsRun
    <3> QED BY <1>6, <3>1, <3>2
  <2> QED BY <2>1 DEF OutcomeOfActionsRun
<1>13. ConfigsInOrder'
  <2>1. ASSUME NEW x \in DOMAIN out', NEW q, q = doc'[out'[x].place], NEW o, o = out'[x].outcome
        PROVE  InOrder(o, q, Settings(q, Run(q, Variables)))
    <3>1. CASE x = n
      BY <1>1, <1>3, <1>4, <1>7, <2>1, <3>1
    <3>2. CASE x \in DOMAIN out
      BY <1>4, <1>6, <2>1, <3>2 DEF DecoderInv, ConfigsInOrder
    <3> QED BY <1>6, <3>1, <3>2
  <2> QED BY <2>1 DEF ConfigsInOrder
<1> QED BY <1>8, <1>9, <1>11, <1>12, <1>13 DEF DecoderInv

\* A policy is skipped.
LEMMA SkipSteps ==
  ASSUME DecoderInv, i <= Len(doc), AtFault(doc[i]), Skip
  PROVE  DecoderInv'
<1>1. PICK n : n = Len(skipped) + 1
  OBVIOUS
<1>2. /\ doc' = doc /\ i' = i + 1 /\ a' = 1 /\ v' = 1 /\ outcome' = NoOutcome
      /\ out' = out /\ skipped' = Append(skipped, i)
  BY DEF Skip, NextPolicy
<1>3. /\ doc \in Seq(PolicyRecords) /\ i \in Nat \ {0} /\ outcome \in Outcomes
      /\ out \in Seq([place : Nat, outcome : Outcomes]) /\ skipped \in Seq(Nat)
  BY DEF DecoderInv, DecoderTypes
<1>4. /\ skipped' \in Seq(Nat)
      /\ DOMAIN skipped' = DOMAIN skipped \cup {n} /\ n \in Nat /\ skipped'[n] = i
      /\ \A x \in DOMAIN skipped : skipped'[x] = skipped[x] /\ x \in Int /\ x < n
  BY <1>1, <1>2, <1>3, AppendFacts
<1>5. DecoderTypes'
  BY <1>2, <1>3, <1>4, StartTypes DEF DecoderTypes
<1>6. InPolicy'
  BY StartsPolicy DEF Skip
<1>7. \A k : k \in 1 .. i' - 1 <=> k \in 1 .. i - 1 \/ k = i
  BY <1>2, <1>3, OneMorePolicy
<1>8. Sorted'
  <2>1. i' <= Len(doc') + 1
    BY <1>2, <1>3
  <2>2. {skipped'[x] : x \in DOMAIN skipped'} = {k \in 1 .. i' - 1 : AtFault(doc'[k])}
    <3>1. {skipped'[x] : x \in DOMAIN skipped'} = {skipped[x] : x \in DOMAIN skipped} \cup {i}
      BY <1>4
    <3>2. {skipped[x] : x \in DOMAIN skipped} = {k \in 1 .. i - 1 : AtFault(doc[k])}
      BY DEF DecoderInv, Sorted
    <3>3. {k \in 1 .. i' - 1 : AtFault(doc'[k])} = {k \in 1 .. i - 1 : AtFault(doc[k])} \cup {i}
      BY <1>2, <1>7
    <3> QED BY <3>1, <3>2, <3>3
  <2>3. {out'[x].place : x \in DOMAIN out'} = {k \in 1 .. i' - 1 : ~AtFault(doc'[k])}
    <3>1. {out[x].place : x \in DOMAIN out} = {k \in 1 .. i - 1 : ~AtFault(doc[k])}
      BY DEF DecoderInv, Sorted
    <3>2. {k \in 1 .. i' - 1 : ~AtFault(doc'[k])} = {k \in 1 .. i - 1 : ~AtFault(doc[k])}
      BY <1>2, <1>7
    <3> QED BY <1>2, <3>1, <3>2
  <2>4. ASSUME NEW x \in DOMAIN skipped', NEW y \in DOMAIN skipped', x < y
        PROVE  skipped'[x] < skipped'[y]
    <3>1. x \in DOMAIN skipped
      BY <1>4, <2>4
    <3>2. CASE y \in DOMAIN skipped
      BY <1>4, <2>4, <3>1, <3>2 DEF DecoderInv, Sorted
    <3>3. CASE y = n
      <4>1. skipped[x] \in {k \in 1 .. i - 1 : AtFault(doc[k])}
        BY <3>1 DEF DecoderInv, Sorted
      <4>2. skipped[x] \in 1 .. i - 1
        BY <4>1
      <4>3. skipped[x] < i
        BY <1>3, <4>2
      <4> QED BY <1>4, <3>1, <3>3, <4>3
    <3> QED BY <1>4, <3>2, <3>3
  <2>5. \A x, y \in DOMAIN out' : x < y => out'[x].place < out'[y].place
    BY <1>2 DEF DecoderInv, Sorted
  <2> QED BY <2>1, <2>2, <2>3, <2>4, <2>5 DEF Sorted
<1>9. OutcomeOfActionsRun'
  BY <1>2 DEF DecoderInv, OutcomeOfActionsRun
<1>10. ConfigsInOrder'
  BY <1>2 DEF DecoderInv, ConfigsInOrder
<1> QED BY <1>5, <1>6, <1>8, <1>9, <1>10 DEF DecoderInv

\* One lemma for each action: the types it leaves, and what precedes.
LEMMA IgnoreActionSteps ==
  ASSUME DecoderInv, IgnoreAction
  PROVE  DecoderInv'
<1>1. PICK p : p = doc[i]
  OBVIOUS
<1>2. /\ i <= Len(doc) /\ p \in PolicyRecords /\ a \in 1 .. Len(p.actions) /\ v \in Nat \ {0}
      /\ a \in Nat \ {0} /\ outcome \in Outcomes
      /\ Decoded(p, a, v) /\ Accounts(outcome, p, a, v)
  BY <1>1, CurrentPolicy DEF IgnoreAction, Decoding
<1>3. Does(p, a) \notin Handled /\ ~TooMany(p.actions[a])
  BY <1>1 DEF IgnoreAction, Action, Actions, Does
<1>4. Decoded(p, a + 1, 1) /\ Accounts(outcome, p, a + 1, 1)
  BY <1>2, <1>3, Ignored
<1>5. a' = a + 1 /\ v' = 1 /\ outcome' = outcome /\ UNCHANGED <<doc, i, out, skipped>>
  BY DEF IgnoreAction, NextAction
<1>6. a + 1 \in Nat \ {0} /\ 1 \in Nat \ {0}
  BY <1>2
<1> QED BY <1>1, <1>2, <1>4, <1>5, <1>6, StepsInPolicy

\* The remaining actions are dropped.
LEMMA StopAtActionSteps ==
  ASSUME DecoderInv, StopAtAction
  PROVE  DecoderInv'
<1>1. i <= Len(doc) /\ doc[i].parses /\ TooMany(Actions[a]) /\ Keep
  BY DEF StopAtAction, Decoding, Action
<1> QED BY <1>1, KeepSteps

\* An action decides.
LEMMA InjectSteps ==
  ASSUME DecoderInv, Inject
  PROVE  DecoderInv'
<1>1. PICK p : p = doc[i]
  OBVIOUS
<1>2. PICK n : n = outcome'
  OBVIOUS
<1>3. /\ i <= Len(doc) /\ p \in PolicyRecords /\ a \in 1 .. Len(p.actions) /\ v \in Nat \ {0}
      /\ a \in Nat \ {0} /\ outcome \in Outcomes
      /\ Decoded(p, a, v) /\ Accounts(outcome, p, a, v)
  BY <1>1, CurrentPolicy DEF Inject, Decoding
<1>4. Does(p, a) \in Injects /\ ~TooMany(p.actions[a])
  BY <1>1 DEF Inject, Action, Actions, Does
<1>5. /\ n \in Outcomes
      /\ n.injectSet = TRUE /\ n.inject = (Does(p, a) = "INJECT_ALLOW")
      /\ n.versions = outcome.versions /\ n.configs = outcome.configs
  BY <1>1, <1>2, <1>3 DEF Inject, Outcomes, Action, Actions, Does
<1>6. Decoded(p, a + 1, 1) /\ Accounts(n, p, a + 1, 1)
  BY <1>3, <1>4, <1>5, Injected
<1>7. a' = a + 1 /\ v' = 1 /\ UNCHANGED <<doc, i, out, skipped>>
  BY DEF Inject, NextAction
<1>8. a + 1 \in Nat \ {0} /\ 1 \in Nat \ {0}
  BY <1>3
<1> QED BY <1>1, <1>2, <1>3, <1>5, <1>6, <1>7, <1>8, StepsInPolicy

\* The profiler's variable is set.
LEMMA EnableProfilerSteps ==
  ASSUME DecoderInv, EnableProfiler
  PROVE  DecoderInv'
<1>1. PICK p : p = doc[i]
  OBVIOUS
<1>2. PICK n : n = outcome'
  OBVIOUS
<1>3. /\ i <= Len(doc) /\ p \in PolicyRecords /\ a \in 1 .. Len(p.actions) /\ v \in Nat \ {0}
      /\ a \in Nat \ {0} /\ outcome \in Outcomes /\ outcome.configs \in Seq(EnvVars)
      /\ Decoded(p, a, v) /\ Accounts(outcome, p, a, v)
  BY <1>1, CurrentPolicy DEF EnableProfiler, Decoding
<1>4. Does(p, a) = "ENABLE_PROFILER" /\ ~TooMany(p.actions[a])
  BY <1>1 DEF EnableProfiler, Action, Actions, Does
<1>5. PICK c : c = upsertEnvVar(outcome.configs, Profiling, True)
  OBVIOUS
<1>6. n = [outcome EXCEPT !.configs = c]
  BY <1>2, <1>5 DEF EnableProfiler
<1>7. /\ n.injectSet = outcome.injectSet /\ n.inject = outcome.inject
      /\ n.versions = outcome.versions /\ n.configs = c
  BY <1>3, <1>6 DEF Outcomes
<1>8. n.configs \in Seq(EnvVars) /\ Decoded(p, a + 1, 1) /\ Accounts(n, p, a + 1, 1)
  BY <1>3, <1>4, <1>5, <1>7, Profiled
<1>9. n \in Outcomes
  BY <1>3, <1>6, <1>7, <1>8 DEF Outcomes
<1>10. a' = a + 1 /\ v' = 1 /\ UNCHANGED <<doc, i, out, skipped>>
  BY DEF EnableProfiler, NextAction
<1>11. a + 1 \in Nat \ {0} /\ 1 \in Nat \ {0}
  BY <1>3
<1> QED BY <1>1, <1>2, <1>3, <1>8, <1>9, <1>10, <1>11, StepsInPolicy

\* What is known at a value.
LEMMA AtValueFacts ==
  ASSUME DecoderInv, AtValue, NEW p, p = doc[i]
  PROVE  /\ i <= Len(doc) /\ p \in PolicyRecords /\ a \in 1 .. Len(p.actions) /\ v \in Nat \ {0}
         /\ a \in Nat \ {0} /\ outcome \in Outcomes /\ outcome.configs \in Seq(EnvVars)
         /\ Decoded(p, a, v) /\ Accounts(outcome, p, a, v)
         /\ Does(p, a) \in Valued /\ ~TooMany(p.actions[a]) /\ v <= Len(p.actions[a].values)
         /\ Action = p.actions[a] /\ Value = p.actions[a].values[v]
         /\ Value \in ValueRecords
<1>1. /\ i <= Len(doc) /\ p \in PolicyRecords /\ a \in 1 .. Len(p.actions) /\ v \in Nat \ {0}
      /\ a \in Nat \ {0} /\ outcome \in Outcomes /\ outcome.configs \in Seq(EnvVars)
      /\ Decoded(p, a, v) /\ Accounts(outcome, p, a, v)
  BY CurrentPolicy DEF AtValue, Decoding
<1>2. Action = p.actions[a] /\ Value = p.actions[a].values[v]
  BY DEF Action, Actions, Value
<1>3. Does(p, a) \in Valued /\ ~TooMany(p.actions[a]) /\ v <= Len(p.actions[a].values)
  BY <1>2 DEF AtValue, Does
<1>4. Value \in ValueRecords
  <2>1. Len(p.actions[a].values) \in Nat
    BY <1>1, PolicyTypes
  <2>2. v \in 1 .. Len(p.actions[a].values)
    BY <1>1, <1>3, <2>1
  <2> QED BY <1>1, <1>2, <2>2, PolicyTypes
<1> QED BY <1>1, <1>2, <1>3, <1>4

\* A value is set.
LEMMA SetValueSteps ==
  ASSUME DecoderInv, SetValue
  PROVE  DecoderInv'
<1>1. PICK p : p = doc[i]
  OBVIOUS
<1>2. PICK n : n = outcome'
  OBVIOUS
<1>3. /\ i <= Len(doc) /\ p \in PolicyRecords /\ a \in 1 .. Len(p.actions) /\ v \in Nat \ {0}
      /\ a \in Nat \ {0} /\ outcome \in Outcomes /\ outcome.configs \in Seq(EnvVars)
      /\ Decoded(p, a, v) /\ Accounts(outcome, p, a, v)
      /\ Does(p, a) \in Valued /\ ~TooMany(p.actions[a]) /\ v <= Len(p.actions[a].values)
      /\ Action = p.actions[a] /\ Value = p.actions[a].values[v]
      /\ Value \in ValueRecords
  BY <1>1, AtValueFacts DEF SetValue
<1>4. Decoded(p, a, v + 1)
  BY <1>3, DecodedValue DEF SetValue
<1>5. n \in Outcomes /\ Accounts(n, p, a, v + 1)
  <2>1. CASE Does(p, a) = "ENABLE_SDK"
    <3>1. PICK w : w = SetVersion(outcome.versions, Value.name, Value.text)
      OBVIOUS
    <3>2. n = [outcome EXCEPT !.versions = w]
      BY <1>2, <1>3, <2>1, <3>1 DEF SetValue, Does
    <3>3. /\ n.injectSet = outcome.injectSet /\ n.inject = outcome.inject
          /\ n.configs = outcome.configs /\ n.versions = w
      BY <1>3, <3>2 DEF Outcomes
    <3>4. Accounts(n, p, a, v + 1)
      BY <1>3, <2>1, <3>1, <3>3, VersionDone
    <3>5. w \in UNION {[D -> Texts] : D \in SUBSET Names}
      <4>1. PICK D \in SUBSET Names : outcome.versions \in [D -> Texts]
        BY <1>3 DEF Outcomes
      <4>2. Value.name \in Names /\ Value.text \in Texts
        BY <1>3 DEF ValueRecords
      <4>3. w \in [D \cup {Value.name} -> Texts]
        BY <3>1, <4>1, <4>2 DEF SetVersion
      <4>4. D \cup {Value.name} \in SUBSET Names
        BY <4>2
      <4> QED BY <4>3, <4>4
    <3>6. n \in Outcomes
      BY <1>3, <3>2, <3>5 DEF Outcomes
    <3> QED BY <3>4, <3>6
  <2>2. CASE Does(p, a) = "SET_ENVAR"
    <3>1. PICK c : c = upsertEnvVar(outcome.configs, Value.name, Value.text)
      OBVIOUS
    <3>2. n = [outcome EXCEPT !.configs = c]
      BY <1>2, <1>3, <2>2, <3>1 DEF SetValue, Does
    <3>3. /\ n.injectSet = outcome.injectSet /\ n.inject = outcome.inject
          /\ n.versions = outcome.versions /\ n.configs = c
      BY <1>3, <3>2 DEF Outcomes
    <3>4. n.configs \in Seq(EnvVars) /\ Accounts(n, p, a, v + 1)
      BY <1>3, <2>2, <3>1, <3>3, VariableDone
    <3>5. n \in Outcomes
      BY <1>3, <3>2, <3>3, <3>4 DEF Outcomes
    <3> QED BY <3>4, <3>5
  <2> QED BY <1>3, <2>1, <2>2 DEF Valued
<1>6. v' = v + 1 /\ UNCHANGED <<doc, i, a, out, skipped>>
  BY DEF SetValue
<1>7. v + 1 \in Nat \ {0}
  BY <1>3
<1> QED BY <1>1, <1>2, <1>3, <1>4, <1>5, <1>6, <1>7, StepsInPolicy

\* A value is malformed.
LEMMA SkipMalformedSteps ==
  ASSUME DecoderInv, SkipMalformed
  PROVE  DecoderInv'
<1>1. PICK p : p = doc[i]
  OBVIOUS
<1>2. AtFault(p)
  BY <1>1, AtValueFacts, SkippedAtFault DEF SkipMalformed
<1>3. i <= Len(doc) /\ Skip
  BY DEF SkipMalformed, AtValue, Decoding
<1> QED BY <1>1, <1>2, <1>3, SkipSteps

\* The values of an action are done.
LEMMA ValuesDoneSteps ==
  ASSUME DecoderInv, ValuesDone
  PROVE  DecoderInv'
<1>1. PICK p : p = doc[i]
  OBVIOUS
<1>2. /\ i <= Len(doc) /\ p \in PolicyRecords /\ a \in 1 .. Len(p.actions) /\ v \in Nat \ {0}
      /\ a \in Nat \ {0} /\ outcome \in Outcomes
      /\ Decoded(p, a, v) /\ Accounts(outcome, p, a, v)
  BY <1>1, CurrentPolicy DEF ValuesDone, Decoding
<1>3. Does(p, a) \in Valued /\ ~TooMany(p.actions[a]) /\ v > Len(p.actions[a].values)
  BY <1>1 DEF ValuesDone, Action, Actions, Does
<1>4. Decoded(p, a + 1, 1) /\ Accounts(outcome, p, a + 1, 1)
  BY <1>2, <1>3, ValuesEnd
<1>5. a' = a + 1 /\ v' = 1 /\ outcome' = outcome /\ UNCHANGED <<doc, i, out, skipped>>
  BY DEF ValuesDone, NextAction
<1>6. a + 1 \in Nat \ {0} /\ 1 \in Nat \ {0}
  BY <1>2
<1> QED BY <1>1, <1>2, <1>4, <1>5, <1>6, StepsInPolicy

\* A policy is decoded to its end.
LEMMA KeepPolicySteps ==
  ASSUME DecoderInv, KeepPolicy
  PROVE  DecoderInv'
<1>1. i <= Len(doc) /\ doc[i].parses /\ a > Len(Actions) /\ Keep
  BY DEF KeepPolicy
<1>2. Len(Actions) \in Nat /\ a \in Nat
  BY <1>1, CurrentPolicy, PolicyTypes DEF Actions
<1> QED BY <1>1, <1>2, KeepSteps

\* A policy has no actions to decode.
LEMMA SkipUnparsableSteps ==
  ASSUME DecoderInv, SkipUnparsable
  PROVE  DecoderInv'
BY SkipSteps DEF SkipUnparsable, AtFault

\* Nothing is decoded at first.
LEMMA DecoderStarts ==
  ASSUME Init
  PROVE  DecoderInv
<1>1. doc \in Seq(PolicyRecords) /\ i = 1 /\ a = 1 /\ v = 1 /\ outcome = NoOutcome
      /\ out = << >> /\ skipped = << >>
  BY DocumentAssumption DEF Init
<1>2. DecoderTypes
  BY <1>1, StartTypes DEF DecoderTypes
<1>3. InPolicy
  <2>1. ASSUME 1 <= Len(doc) PROVE Decoded(doc[1], 1, 1) /\ Accounts(NoOutcome, doc[1], 1, 1)
    <3>1. doc[1] \in PolicyRecords
      BY <1>1, <2>1
    <3>2. PICK p \in PolicyRecords : p = doc[1]
      BY <3>1
    <3> QED BY <3>2, NothingAtStart
  <2> QED BY <1>1, <2>1 DEF InPolicy
<1>4. Sorted
  <2>1. 1 <= Len(doc) + 1 /\ 1 .. 1 - 1 = {}
    BY <1>1
  <2> QED BY <1>1, <2>1 DEF Sorted
<1> QED BY <1>1, <1>2, <1>3, <1>4 DEF DecoderInv, OutcomeOfActionsRun, ConfigsInOrder

\* The invariant holds of every document.
THEOREM DecoderInvariance == Spec => []DecoderInv
<1>1. Init => DecoderInv
  BY DecoderStarts
<1>2. DecoderInv /\ [Next]_vars => DecoderInv'
  <2> SUFFICES ASSUME DecoderInv, [Next]_vars PROVE DecoderInv'
    OBVIOUS
  <2>1. CASE UNCHANGED vars
    BY <2>1 DEF vars, DecoderInv, DecoderTypes, InPolicy, Sorted, OutcomeOfActionsRun, ConfigsInOrder
  <2>2. CASE Next
    BY <2>2, SkipUnparsableSteps, IgnoreActionSteps, StopAtActionSteps, InjectSteps,
       EnableProfilerSteps, SetValueSteps, SkipMalformedSteps, ValuesDoneSteps, KeepPolicySteps
       DEF Next
  <2> QED BY <2>1, <2>2
<1> QED BY <1>1, <1>2, PTL DEF Spec

(***************************************************************************)
(* What ParsePolicies returns: each policy is kept, in its place, unless   *)
(* it is itself at fault, and has the outcome of the actions that the C    *)
(* engine would run, with every variable once and in order (dd_wls.go:137, *)
(* 399, evaluator.go:62).                                                  *)
(***************************************************************************)
THEOREM OutcomesRight == Spec => []OutcomeOfActionsRun
<1>1. DecoderInv => OutcomeOfActionsRun
  BY DEF DecoderInv
<1> QED BY <1>1, DecoderInvariance, PTL

\* No variable twice, and each in the place of its first setting (evaluator.go:58).
THEOREM VariablesInOrder == Spec => []ConfigsInOrder
<1>1. DecoderInv => ConfigsInOrder
  BY DEF DecoderInv
<1> QED BY <1>1, DecoderInvariance, PTL

\* One policy at fault costs no other (dd_wls.go:137).
THEOREM PolicyIsolation == Spec => []PoliciesIsolated
<1>1. ASSUME DecoderInv PROVE PoliciesIsolated
  <2> SUFFICES ASSUME i > Len(doc)
      PROVE  /\ {out[x].place : x \in DOMAIN out} = {k \in DOMAIN doc : ~AtFault(doc[k])}
             /\ {skipped[x] : x \in DOMAIN skipped} = {k \in DOMAIN doc : AtFault(doc[k])}
             /\ \A x, y \in DOMAIN out : x < y => out[x].place < out[y].place
             /\ \A x, y \in DOMAIN skipped : x < y => skipped[x] < skipped[y]
    BY DEF PoliciesIsolated
  <2>1. i - 1 = Len(doc) /\ DOMAIN doc = 1 .. Len(doc)
    BY <1>1 DEF DecoderInv, DecoderTypes, Sorted
  <2> QED BY <1>1, <2>1 DEF DecoderInv, Sorted
<1> QED BY <1>1, DecoderInvariance, PTL

=============================================================================
