------------------------- MODULE RedactBodyProofs -------------------------
(***************************************************************************)
(* Promises of redact_body that survive any number of overlapping requests,*)
(* new generations of the map and degraded scans: the floor is masked, a   *)
(* text that is sent again is sent as the same bytes, its placeholders can *)
(* be rehydrated, all that whatever is edited meanwhile; and what the      *)
(* configuration says is masked, if nothing is edited meanwhile.           *)
(***************************************************************************)
EXTENDS RedactBody, FiniteSetTheorems, WellFoundedInduction, TLAPS

\* What one request does to the freeze and sends.
Out(r, m, i) == Final(r, m.gen, Learned(m, r), i)

Puts(r, m) == {[key |-> FreezeKey(m.gen, r.body[i].text), out |-> Out(r, m, i)] :
                 i \in DOMAIN r.body}

LEMMA FinishEffect ==
  ASSUME NEW p \in Procs, Finish(p)
  PROVE  \E m \in Loads :
           /\ gens' = IF m.gen > gens THEN m.gen ELSE gens
           /\ map' = IF DOMAIN Learned(m, req[p]) = {} THEN map
                     ELSE [gen |-> m.gen, label |-> Learned(m, req[p])]
           /\ freeze' = IF CanFreeze(req[p]) THEN freeze \cup Puts(req[p], m) ELSE freeze
           /\ \A s \in sent' : s \in sent \/
                /\ CanFreeze(req[p])
                /\ \E i \in DOMAIN req[p].body :
                     /\ s.gen = m.gen /\ s.cfg = Fingerprint
                     /\ s.field = req[p].body[i] /\ s.out = Out(req[p], m, i)
                     /\ s.known = Learned(m, req[p]) /\ s.files = files
                     /\ s.swept = Kept(Learned(m, req[p]), req[p])
           /\ sent \subseteq sent'
           /\ CanFreeze(req[p]) /\ ~world.unsent => \A i \in DOMAIN req[p].body :
                \E s \in sent' : s.field = req[p].body[i] /\ s.out = Out(req[p], m, i)
<1> DEFINE r == req[p]
<1>1. PICK m \in Loads, forwarded \in {TRUE, ~world.unsent} :
        LET known == Learned(m, r)
            outs  == [i \in DOMAIN r.body |-> Final(r, m.gen, known, i)]
        IN /\ gens' = IF m.gen > gens THEN m.gen ELSE gens
           /\ map' = IF DOMAIN known = {} THEN map ELSE [gen |-> m.gen, label |-> known]
           /\ freeze' =
                IF CanFreeze(r)
                THEN freeze \cup {[key |-> FreezeKey(m.gen, r.body[i].text), out |-> outs[i]] :
                                    i \in DOMAIN outs}
                ELSE freeze
           /\ sent' =
                IF r.degraded \/ ~forwarded THEN sent
                ELSE sent \cup
                  {[gen |-> m.gen, cfg |-> Fingerprint, field |-> r.body[i], out |-> outs[i],
                    files |-> files, steady |-> r.began = edits,
                    known |-> known, swept |-> Kept(known, r)] : i \in DOMAIN outs}
  BY DEF Finish
<1> DEFINE outs == [i \in DOMAIN r.body |-> Final(r, m.gen, Learned(m, r), i)]
<1>2. DOMAIN outs = DOMAIN r.body /\ \A i \in DOMAIN r.body : outs[i] = Out(r, m, i)
  BY DEF Out
<1>3. freeze' = IF CanFreeze(r) THEN freeze \cup Puts(r, m) ELSE freeze
  <2>1. {[key |-> FreezeKey(m.gen, r.body[i].text), out |-> outs[i]] : i \in DOMAIN outs}
          = Puts(r, m)
    <3> HIDE DEF outs, r
    <3> QED BY <1>2 DEF Puts
  <2> QED BY <1>1, <2>1
<1>4. ASSUME NEW s \in sent', s \notin sent
      PROVE  /\ CanFreeze(r)
             /\ \E i \in DOMAIN r.body :
                  /\ s.gen = m.gen /\ s.cfg = Fingerprint
                  /\ s.field = r.body[i] /\ s.out = Out(r, m, i)
                  /\ s.known = Learned(m, r) /\ s.files = files
                  /\ s.swept = Kept(Learned(m, r), r)
  <2>1. ~r.degraded
    BY <1>1, <1>4
  <2>2. PICK i \in DOMAIN outs :
          s = [gen |-> m.gen, cfg |-> Fingerprint, field |-> r.body[i], out |-> outs[i],
               files |-> files, steady |-> r.began = edits,
               known |-> Learned(m, r), swept |-> Kept(Learned(m, r), r)]
    BY <1>1, <1>4
  <2> HIDE DEF outs, r
  <2> QED BY <2>1, <2>2, <1>2 DEF CanFreeze
<1>5. /\ gens' = IF m.gen > gens THEN m.gen ELSE gens
      /\ map' = IF DOMAIN Learned(m, r) = {} THEN map ELSE [gen |-> m.gen, label |-> Learned(m, r)]
  BY <1>1
<1>6. sent \subseteq sent'
  BY <1>1
<1>7. ASSUME CanFreeze(r), ~world.unsent, NEW i \in DOMAIN r.body
      PROVE  \E s \in sent' : s.field = r.body[i] /\ s.out = Out(r, m, i)
  <2> DEFINE s == [gen |-> m.gen, cfg |-> Fingerprint, field |-> r.body[i], out |-> outs[i],
                   files |-> files, steady |-> r.began = edits,
                   known |-> Learned(m, r), swept |-> Kept(Learned(m, r), r)]
  <2>1. s \in sent'
    BY <1>1, <1>7 DEF CanFreeze
  <2>2. s.field = r.body[i] /\ s.out = outs[i]
    OBVIOUS
  <2> HIDE DEF s, outs, r
  <2> QED BY <1>2, <2>1, <2>2
<1> QED BY <1>3, <1>4, <1>5, <1>6, <1>7

LEMMA OthersLeaveBoth ==
  ASSUME [Next]_vars, ~\E p \in Procs : Finish(p)
  PROVE  UNCHANGED <<world, map, gens, freeze, sent>>
  BY DEF Next, vars, config, Start, Degrade, Edit, SetMode, SetAllow, SetDeny, ShowList
-----------------------------------------------------------------------------
(* The floor *)

FloorClean(out) == out.clear \cap FloorWords = {}

Clean == (\A e \in freeze : FloorClean(e.out)) /\ (\A s \in sent : FloorClean(s.out))

LEMMA SubstitutedClean ==
  ASSUME NEW f, NEW gen, NEW r
  PROVE  FloorClean(Substituted(f, gen, r))
<1>1. \A w \in f.text.words \cap FloorWords : w \in Replaced(f.text, r)
  BY FloorAssumption DEF Replaced, Spans, SpanLabel, Detected, Redacts, Floor
<1>2. \A V : Mask(Plain(f.text), gen, V).clear = f.text.words \ UNION V
  BY DEF Mask, Plain
<1>3. CASE Replaced(f.text, r) # {}
  <2>1. Substituted(f, gen, r).clear
          = f.text.words \ UNION {{w} : w \in Replaced(f.text, r)}
    BY <1>2, <1>3 DEF Substituted
  <2>2. \A w \in Replaced(f.text, r) : w \in UNION {{x} : x \in Replaced(f.text, r)}
    OBVIOUS
  <2> QED BY <1>1, <2>1, <2>2 DEF FloorClean
<1>4. CASE Replaced(f.text, r) = {}
  <2>1. Substituted(f, gen, r).clear \subseteq f.text.words
    BY <1>2, <1>4 DEF Substituted
  <2> QED BY <1>1, <1>4, <2>1 DEF FloorClean
<1> QED BY <1>3, <1>4

LEMMA SweptClean ==
  ASSUME NEW out, NEW gen, NEW values, FloorClean(out)
  PROVE  FloorClean(Swept(out, gen, values))
<1>1. Swept(out, gen, values).clear \subseteq out.clear
  BY DEF Swept, Mask
<1> QED BY <1>1 DEF FloorClean

LEMMA FinalClean ==
  ASSUME \A e \in freeze : FloorClean(e.out), NEW r, NEW gen, NEW known, NEW i
  PROVE  FloorClean(Final(r, gen, known, i))
<1> DEFINE Fresh(j) == Swept(Substituted(r.body[j], gen, r), gen, Kept(known, r))
           old == Frozen(FreezeKey(gen, r.body[i].text))
<1>1. \A j : FloorClean(Fresh(j))
  BY SubstitutedClean, SweptClean
<1>2. \A out \in old : FloorClean(out)
  BY DEF Frozen
<1>3. CASE ~CanFreeze(r)
  BY <1>1, <1>3 DEF Final
<1>4. CASE CanFreeze(r) /\ old # {}
  <2>1. (CHOOSE out \in old : TRUE) \in old
    BY <1>4
  <2>2. Final(r, gen, known, i) = CHOOSE out \in old : TRUE
    BY <1>4 DEF Final
  <2> QED BY <1>2, <2>1, <2>2
<1>5. CASE CanFreeze(r) /\ old = {}
  <2>1. \E j : Final(r, gen, known, i) = Fresh(j)
    BY <1>5 DEF Final
  <2> QED BY <1>1, <2>1
<1> QED BY <1>3, <1>4, <1>5

\* The deterministic floor goes upstream in no request, whatever the mode, the
\* lists, the overlap of requests and the state of the gate, the map and the
\* freeze.
THEOREM FloorAlwaysMasked == Spec => []FloorMasked
<1>1. Init => Clean
  BY DEF Init, Clean
<1>2. Clean /\ [Next]_vars => Clean'
  <2> SUFFICES ASSUME Clean, [Next]_vars PROVE Clean'
    OBVIOUS
  <2>1. CASE ~\E p \in Procs : Finish(p)
    BY <2>1, OthersLeaveBoth DEF Clean
  <2>2. ASSUME NEW p \in Procs, Finish(p) PROVE Clean'
    <3>1. PICK m \in Loads :
            /\ freeze' = IF CanFreeze(req[p]) THEN freeze \cup Puts(req[p], m) ELSE freeze
            /\ \A s \in sent' : s \in sent \/
                 \E i \in DOMAIN req[p].body : s.out = Out(req[p], m, i)
      BY <2>2, FinishEffect
    <3>2. \A i : FloorClean(Out(req[p], m, i))
      BY FinalClean DEF Clean, Out
    <3>3. \A e \in Puts(req[p], m) : FloorClean(e.out)
      BY <3>2 DEF Puts
    <3>4. \A e \in freeze' : FloorClean(e.out)
      BY <3>1, <3>3 DEF Clean
    <3>5. \A s \in sent' : FloorClean(s.out)
      BY <3>1, <3>2 DEF Clean
    <3> QED BY <3>4, <3>5 DEF Clean, FloorClean
  <2> QED BY <2>1, <2>2
<1>3. Clean => FloorMasked
  BY DEF Clean, FloorClean, FloorMasked
<1> QED BY <1>1, <1>2, <1>3, PTL DEF Spec
-----------------------------------------------------------------------------
(* The bytes of a prefix *)

KeyOf(s) == [gen |-> s.gen, cfg |-> s.cfg, text |-> s.field.text]

Functional(F) == \A e, d \in F : e.key = d.key => e.out = d.out

Remembered ==
  /\ Functional(freeze)
  /\ \A s \in sent : \E e \in freeze : e.key = KeyOf(s) /\ e.out = s.out

LEMMA FinalByText ==
  ASSUME NEW r, CanFreeze(r), NEW gen, NEW known, NEW i, NEW j,
         r.body[i].text = r.body[j].text
  PROVE  Final(r, gen, known, i) = Final(r, gen, known, j)
  BY DEF Final

LEMMA FinalFrozen ==
  ASSUME Functional(freeze), NEW r, CanFreeze(r), NEW gen, NEW known, NEW i,
         NEW e \in freeze, e.key = FreezeKey(gen, r.body[i].text)
  PROVE  Final(r, gen, known, i) = e.out
<1> DEFINE old == Frozen(FreezeKey(gen, r.body[i].text))
<1>1. e.out \in old /\ \A out \in old : out = e.out
  BY DEF Frozen, Functional
<1>2. Final(r, gen, known, i) = CHOOSE out \in old : TRUE
  BY <1>1 DEF Final
<1>3. (CHOOSE out \in old : TRUE) \in old
  BY <1>1
<1> QED BY <1>1, <1>2, <1>3

LEMMA PutsFunctional ==
  ASSUME Functional(freeze), NEW r, CanFreeze(r), NEW m
  PROVE  Functional(freeze \cup Puts(r, m))
<1>1. ASSUME NEW e \in freeze, NEW d \in Puts(r, m), e.key = d.key
      PROVE  e.out = d.out
  <2>1. PICK i \in DOMAIN r.body :
          d = [key |-> FreezeKey(m.gen, r.body[i].text), out |-> Out(r, m, i)]
    BY DEF Puts
  <2>2. d.key = FreezeKey(m.gen, r.body[i].text) /\ d.out = Out(r, m, i)
    BY <2>1
  <2> QED BY <1>1, <2>2, FinalFrozen DEF Out
<1>2. ASSUME NEW e \in Puts(r, m), NEW d \in Puts(r, m), e.key = d.key
      PROVE  e.out = d.out
  <2>1. PICK i \in DOMAIN r.body :
          e = [key |-> FreezeKey(m.gen, r.body[i].text), out |-> Out(r, m, i)]
    BY DEF Puts
  <2>2. PICK j \in DOMAIN r.body :
          d = [key |-> FreezeKey(m.gen, r.body[j].text), out |-> Out(r, m, j)]
    BY DEF Puts
  <2>3. e.key.text = r.body[i].text /\ d.key.text = r.body[j].text
    BY <2>1, <2>2 DEF FreezeKey
  <2>4. r.body[i].text = r.body[j].text
    BY <1>2, <2>3
  <2>5. Out(r, m, i) = Out(r, m, j)
    BY <2>4, FinalByText DEF Out
  <2> QED BY <2>1, <2>2, <2>5
<1> QED BY <1>1, <1>2 DEF Functional

\* As long as the map is of one generation and the configuration is the same, a
\* text goes upstream as the same bytes in every request, whatever was learned
\* between two of them.
THEOREM BytesAlwaysStable == Spec => []BytesStable
<1>1. Init => Remembered
  BY DEF Init, Remembered, Functional
<1>2. Remembered /\ [Next]_vars => Remembered'
  <2> SUFFICES ASSUME Remembered, [Next]_vars PROVE Remembered'
    OBVIOUS
  <2>1. CASE ~\E p \in Procs : Finish(p)
    BY <2>1, OthersLeaveBoth DEF Remembered, Functional, KeyOf
  <2>2. ASSUME NEW p \in Procs, Finish(p) PROVE Remembered'
    <3>1. PICK m \in Loads :
            /\ freeze' = IF CanFreeze(req[p]) THEN freeze \cup Puts(req[p], m) ELSE freeze
            /\ \A s \in sent' : s \in sent \/
                 /\ CanFreeze(req[p])
                 /\ \E i \in DOMAIN req[p].body :
                      /\ s.gen = m.gen /\ s.cfg = Fingerprint
                      /\ s.field = req[p].body[i] /\ s.out = Out(req[p], m, i)
      BY <2>2, FinishEffect
    <3>2. Functional(freeze')
      BY <3>1, PutsFunctional DEF Remembered
    <3>3. freeze \subseteq freeze'
      BY <3>1
    <3>4. ASSUME NEW s \in sent'
          PROVE  \E e \in freeze' : e.key = KeyOf(s) /\ e.out = s.out
      <4>1. CASE s \in sent
        BY <4>1, <3>3 DEF Remembered
      <4>2. CASE s \notin sent
        <5>1. PICK i \in DOMAIN req[p].body :
                /\ s.gen = m.gen /\ s.cfg = Fingerprint
                /\ s.field = req[p].body[i] /\ s.out = Out(req[p], m, i)
          BY <3>1, <4>2
        <5>2. [key |-> FreezeKey(m.gen, req[p].body[i].text), out |-> Out(req[p], m, i)]
                \in freeze'
          BY <3>1, <4>2 DEF Puts
        <5>3. KeyOf(s) = FreezeKey(m.gen, req[p].body[i].text)
          BY <5>1 DEF KeyOf, FreezeKey
        <5> QED BY <5>1, <5>2, <5>3
      <4> QED BY <4>1, <4>2
    <3> QED BY <3>2, <3>4 DEF Remembered, Functional, KeyOf
  <2> QED BY <2>1, <2>2
<1>3. Remembered => BytesStable
  <2> SUFFICES ASSUME Remembered, NEW a \in sent, NEW b \in sent,
                      a.gen = b.gen, a.cfg = b.cfg, a.field.text = b.field.text
               PROVE  a.out = b.out
    BY DEF BytesStable
  <2>1. KeyOf(a) = KeyOf(b)
    BY DEF KeyOf
  <2> QED BY <2>1 DEF Remembered, Functional
<1> QED BY <1>1, <1>2, <1>3, PTL DEF Spec

-----------------------------------------------------------------------------
(* What the answer is rehydrated with *)

BodyType == Seq([text : Texts, keyed : BOOLEAN])

\* The bodies of requests in flight are bodies of the session.
BodiesTyped ==
  /\ world \in Worlds
  /\ \A p \in Procs : req[p] # None => req[p].body \in BodyType /\ req[p].body \in world.bodies

\* Every placeholder stands for a value of the text, known as one of this map.
Restorable(out, gen, text, known) ==
  \A t \in out.tokens : t[1] = gen /\ t[2] \in DOMAIN known /\ t[2] \subseteq text.words

\* The generations of maps are counted, and what is frozen under that of the
\* stored map can be restored with it.
FrozenRestorable ==
  /\ gens \in Nat
  /\ map # None => map.gen \in Nat /\ map.gen <= gens
  /\ \A e \in freeze :
       /\ e.key.gen \in Nat /\ e.key.gen <= gens
       /\ \A t \in e.out.tokens :
            /\ t[1] = e.key.gen /\ t[2] \subseteq e.key.text.words
            /\ map # None /\ map.gen = e.key.gen => t[2] \in DOMAIN map.label

LEMMA BodiesStayTyped ==
  ASSUME BodiesTyped, [Next]_vars
  PROVE  BodiesTyped'
<1> DEFINE Rec(b) == [body |-> b, allow |-> files.allow.words, deny |-> files.deny.words,
                      began |-> edits, degraded |-> FALSE]
<1>1. world' = world
  BY DEF Next, vars, config, Start, Degrade, Finish, Edit, SetMode, SetAllow, SetDeny, ShowList
<1> DEFINE Bodies == BodyType \cap world.bodies
<1>2. \A q \in Procs : req'[q] # None => req'[q] = req[q] \/ req'[q].body \in Bodies
  <2>1. ASSUME NEW p \in Procs, NEW b \in world.bodies, Start(p, b)
        PROVE  \A q \in Procs : req'[q] # None => req'[q] = req[q] \/ req'[q].body \in Bodies
    <3>1. b \in Bodies
      BY WorldAssumption DEF BodiesTyped, BodyType
    <3>2. req' = [req EXCEPT ![p] = Rec(b)] /\ Rec(b).body = b
      BY <2>1 DEF Start
    <3> HIDE DEF Rec
    <3> QED BY <3>1, <3>2
  <2>2. ASSUME NEW p \in Procs, Degrade(p)
        PROVE  \A q \in Procs : req'[q] # None => req'[q] = req[q] \/ req'[q].body \in Bodies
    <3>1. req' = [req EXCEPT ![p].degraded = TRUE] /\ req[p].body \in Bodies
      BY <2>2 DEF Degrade, BodiesTyped
    <3>2. req'[p].body = req[p].body \/ req'[p] = req[p]
      BY <3>1
    <3> QED BY <3>1, <3>2
  <2>3. ASSUME NEW p \in Procs, Finish(p)
        PROVE  \A q \in Procs : req'[q] # None => req'[q] = req[q]
    <3>1. req' = [req EXCEPT ![p] = None]
      BY <2>3 DEF Finish
    <3> QED BY <3>1
  <2>4. CASE req' = req
    BY <2>4
  <2> QED BY <2>1, <2>2, <2>3, <2>4
          DEF Next, vars, Edit, SetMode, SetAllow, SetDeny, ShowList
<1> QED BY <1>1, <1>2 DEF BodiesTyped

\* Among the fields of one text there is a first.
LEMMA FirstField ==
  ASSUME NEW body \in BodyType, NEW i \in DOMAIN body
  PROVE  \E j \in DOMAIN body :
           /\ body[j].text = body[i].text
           /\ \A k \in DOMAIN body : body[k].text = body[i].text => j <= k
<1> DEFINE R == OpToRel(<, Nat)
           S == {j \in DOMAIN body : body[j].text = body[i].text}
<1>1. DOMAIN body \subseteq Nat
  BY DEF BodyType
<1>2. S # {} /\ S \subseteq Nat
  BY <1>1
<1>3. IsWellFoundedOn(R, Nat)
  BY NatLessThanWellFounded
<1>4. \E j \in S : \A k \in S : ~ (<<k, j>> \in R)
  <2> HIDE DEF R, S
  <2> QED BY <1>2, <1>3, WFMin
<1>5. \A y \in Nat, z \in Nat : y < z => <<y, z>> \in R
  BY DEF OpToRel
<1> HIDE DEF R
<1>6. PICK j \in S : \A k \in S : ~ (<<k, j>> \in R)
  BY <1>4
<1>7. ASSUME NEW k \in S PROVE j <= k
  <2>1. j \in Nat /\ k \in Nat
    BY <1>2
  <2>2. ~ (k < j)
    BY <1>5, <1>6, <2>1
  <2> QED BY <2>1, <2>2
<1> QED BY <1>6, <1>7

LEMMA LearnedKnows ==
  ASSUME NEW m, NEW r
  PROVE  /\ DOMAIN m.label \subseteq DOMAIN Learned(m, r)
         /\ Keyed(r) \subseteq DOMAIN Learned(m, r)
         /\ \A f \in Fields(r) : \A w \in Replaced(f.text, r) : {w} \in DOMAIN Learned(m, r)
<1> DEFINE words == UNION {Replaced(f.text, r) : f \in Fields(r)}
           new == {{w} : w \in words}
<1>1. DOMAIN Learned(m, r) = (DOMAIN m.label \cup Keyed(r)) \cup new
  BY DEF Learned, Learn
<1>2. ASSUME NEW f \in Fields(r), NEW w \in Replaced(f.text, r) PROVE {w} \in new
  <2>1. w \in words
    BY Zenon
  <2> HIDE DEF words
  <2> QED BY <2>1
<1> QED BY <1>1, <1>2

LEMMA FreshRestorable ==
  ASSUME NEW m, NEW r, NEW f \in Fields(r)
  PROVE  LET known == Learned(m, r)
         IN  Restorable(Swept(Substituted(f, m.gen, r), m.gen, Kept(known, r)), m.gen, f.text, known)
<1> DEFINE known == Learned(m, r)
           out == Substituted(f, m.gen, r)
           V == {{w} : w \in Replaced(f.text, r)}
<1>1. \A v \in V : v \in DOMAIN known /\ v \subseteq f.text.words
  BY LearnedKnows DEF Replaced, Spans
<1>2. f.keyed => f.text.words \in DOMAIN known
  BY LearnedKnows DEF Keyed
<1> HIDE DEF V, known
<1>3. Restorable(out, m.gen, f.text, known) /\ out.clear \subseteq f.text.words
  <2>1. out = Mask(Plain(f.text), m.gen, V) \/ out = Mask(Plain(f.text), m.gen, {})
        \/ (f.keyed /\ out = Mask(Plain(f.text), m.gen, {f.text.words}))
    BY DEF Substituted, V
  <2>2. ASSUME NEW W, \A v \in W : v \in DOMAIN known /\ v \subseteq f.text.words
        PROVE  /\ Restorable(Mask(Plain(f.text), m.gen, W), m.gen, f.text, known)
               /\ Mask(Plain(f.text), m.gen, W).clear \subseteq f.text.words
    BY <2>2 DEF Mask, Plain, Restorable
  <2> HIDE DEF out
  <2> QED BY <1>1, <1>2, <2>1, <2>2
<1> HIDE DEF out
<1>4. Kept(known, r) \subseteq DOMAIN known
  BY DEF Kept
<1>5. Restorable(Swept(out, m.gen, Kept(known, r)), m.gen, f.text, known)
  <2> DEFINE there == {v \in Kept(known, r) : v # {} /\ v \subseteq out.clear}
             W == {v \in there : \A u \in there : v \subseteq u => v = u}
  <2>1. Swept(out, m.gen, Kept(known, r)) = Mask(out, m.gen, W)
    BY DEF Swept
  <2>2. \A v \in W : v \in DOMAIN known /\ v \subseteq f.text.words
    BY <1>3, <1>4
  <2> HIDE DEF W
  <2>3. Restorable(Mask(out, m.gen, W), m.gen, f.text, known)
    BY <1>3, <2>2 DEF Mask, Restorable
  <2> QED BY <2>1, <2>3
<1> QED BY <1>5 DEF known, out

\* A map that is loaded is the stored one or a new one, of which nothing is frozen.
LEMMA LoadedMap ==
  ASSUME FrozenRestorable, NEW m \in Loads
  PROVE  /\ m.gen \in Nat /\ (m.gen > gens => m.gen = gens + 1)
         /\ \A e \in freeze : e.key.gen = m.gen => map # None /\ m = map
         /\ m = map \/ m.gen = gens + 1
<1>1. (m = map /\ map # None) \/ m = [gen |-> gens + 1, label |-> <<>>]
  BY DEF Loads
<1>2. CASE m = map /\ map # None
  BY <1>2 DEF FrozenRestorable
<1>3. CASE m = [gen |-> gens + 1, label |-> <<>>]
  <2>1. m.gen = gens + 1 /\ gens \in Nat
    BY <1>3 DEF FrozenRestorable
  <2>2. \A e \in freeze : e.key.gen # m.gen
    BY <2>1 DEF FrozenRestorable
  <2> QED BY <2>1, <2>2
<1> QED BY <1>1, <1>2, <1>3

LEMMA FinalRestorable ==
  ASSUME FrozenRestorable, NEW r, r.body \in BodyType, CanFreeze(r), NEW m \in Loads,
         NEW i \in DOMAIN r.body
  PROVE  Restorable(Out(r, m, i), m.gen, r.body[i].text, Learned(m, r))
<1> DEFINE known == Learned(m, r)
           text == r.body[i].text
           Fresh(j) == Swept(Substituted(r.body[j], m.gen, r), m.gen, Kept(known, r))
           first == CHOOSE j \in DOMAIN r.body :
                      /\ r.body[j].text = text
                      /\ \A k \in DOMAIN r.body : r.body[k].text = text => j <= k
           old == Frozen(FreezeKey(m.gen, text))
<1>1. CASE old # {}
  <2>1. Out(r, m, i) = CHOOSE out \in old : TRUE
    BY <1>1 DEF Out, Final
  <2>2. PICK e \in freeze : e.key = FreezeKey(m.gen, text) /\ e.out = Out(r, m, i)
    BY <1>1, <2>1 DEF Frozen
  <2>3. e.key.gen = m.gen /\ e.key.text = text
    BY <2>2 DEF FreezeKey
  <2>4. map # None /\ m = map
    BY <2>3, LoadedMap
  <2>5. DOMAIN map.label \subseteq DOMAIN known
    BY <2>4, LearnedKnows
  <2> HIDE DEF known, text
  <2> QED BY <2>2, <2>3, <2>4, <2>5 DEF FrozenRestorable, Restorable, known, text
<1>2. CASE old = {}
  <2>1. Out(r, m, i) = Fresh(first)
    BY <1>2 DEF Out, Final
  <2>2. first \in DOMAIN r.body /\ r.body[first].text = text
    BY FirstField
  <2>3. r.body[first] \in Fields(r)
    BY <2>2 DEF Fields
  <2>4. Restorable(Fresh(first), m.gen, r.body[first].text, known)
    <3> HIDE DEF first
    <3> QED BY <2>3, FreshRestorable
  <2> HIDE DEF first, known
  <2> QED BY <2>1, <2>2, <2>4 DEF known
<1> QED BY <1>1, <1>2

LEMMA AlwaysRestorable == Spec => [](BodiesTyped /\ FrozenRestorable /\ Rehydratable)
<1> DEFINE Inv == BodiesTyped /\ FrozenRestorable /\ Rehydratable
<1>1. Init => Inv
  BY DEF Init, BodiesTyped, FrozenRestorable, Rehydratable
<1>2. Inv /\ [Next]_vars => Inv'
  <2> SUFFICES ASSUME Inv, [Next]_vars PROVE Inv'
    OBVIOUS
  <2>1. BodiesTyped'
    BY BodiesStayTyped
  <2>2. CASE ~\E p \in Procs : Finish(p)
    <3>1. UNCHANGED <<map, gens, freeze, sent>>
      BY <2>2, OthersLeaveBoth
    <3> QED BY <2>1, <3>1 DEF FrozenRestorable, Rehydratable
  <2>3. ASSUME NEW p \in Procs, Finish(p) PROVE FrozenRestorable' /\ Rehydratable'
    <3> DEFINE r == req[p]
    <3>1. PICK m \in Loads :
            /\ gens' = IF m.gen > gens THEN m.gen ELSE gens
            /\ map' = IF DOMAIN Learned(m, r) = {} THEN map ELSE [gen |-> m.gen, label |-> Learned(m, r)]
            /\ freeze' = IF CanFreeze(r) THEN freeze \cup Puts(r, m) ELSE freeze
            /\ \A s \in sent' : s \in sent \/
                 /\ CanFreeze(r)
                 /\ \E i \in DOMAIN r.body :
                      /\ s.gen = m.gen /\ s.cfg = Fingerprint
                      /\ s.field = r.body[i] /\ s.out = Out(r, m, i)
                      /\ s.known = Learned(m, r)
      BY <2>3, FinishEffect
    <3>2. r # None /\ r.body \in BodyType
      BY <2>3 DEF Finish, BodiesTyped
    <3> HIDE DEF r
    <3> DEFINE known == Learned(m, r)
    <3>3. CanFreeze(r) => \A i \in DOMAIN r.body : Restorable(Out(r, m, i), m.gen, r.body[i].text, known)
      BY <3>2, FinalRestorable
    <3>4. /\ m.gen \in Nat /\ gens \in Nat /\ gens' \in Nat /\ gens <= gens' /\ m.gen <= gens'
      BY <3>1, LoadedMap DEF FrozenRestorable
    <3> HIDE DEF known
    <3>5. map' # None => map'.gen \in Nat /\ map'.gen <= gens'
      <4>1. CASE map' = map
        BY <3>4, <4>1 DEF FrozenRestorable
      <4>2. CASE map' = [gen |-> m.gen, label |-> known]
        BY <3>4, <4>2
      <4> QED BY <3>1, <4>1, <4>2 DEF known
    <3>6. ASSUME NEW e \in freeze
          PROVE  /\ e.key.gen \in Nat /\ e.key.gen <= gens'
                 /\ \A t \in e.out.tokens :
                      /\ t[1] = e.key.gen /\ t[2] \subseteq e.key.text.words
                      /\ map' # None /\ map'.gen = e.key.gen => t[2] \in DOMAIN map'.label
      <4>1. e.key.gen \in Nat /\ e.key.gen <= gens'
        BY <3>4 DEF FrozenRestorable
      <4>2. CASE map' = map
        BY <4>1, <4>2 DEF FrozenRestorable
      <4>3. CASE map' = [gen |-> m.gen, label |-> known]
        <5>1. map'.gen = m.gen /\ map'.label = known
          BY <4>3
        <5>2. e.key.gen = m.gen => map # None /\ m = map
          BY LoadedMap
        <5>3. m = map => DOMAIN map.label \subseteq DOMAIN known
          BY LearnedKnows DEF known
        <5> QED BY <4>1, <5>1, <5>2, <5>3 DEF FrozenRestorable
      <4> QED BY <3>1, <4>2, <4>3 DEF known
    <3>7. ASSUME CanFreeze(r), NEW e \in Puts(r, m)
          PROVE  /\ e.key.gen \in Nat /\ e.key.gen <= gens'
                 /\ \A t \in e.out.tokens :
                      /\ t[1] = e.key.gen /\ t[2] \subseteq e.key.text.words
                      /\ map' # None /\ map'.gen = e.key.gen => t[2] \in DOMAIN map'.label
      <4>1. PICK i \in DOMAIN r.body :
              e = [key |-> FreezeKey(m.gen, r.body[i].text), out |-> Out(r, m, i)]
        BY <3>7 DEF Puts
      <4>2. e.key.gen = m.gen /\ e.key.text = r.body[i].text /\ e.out = Out(r, m, i)
        BY <4>1 DEF FreezeKey
      <4>3. Restorable(e.out, m.gen, r.body[i].text, known)
        BY <3>3, <3>7, <4>2
      <4>4. e.out.tokens # {} => map' = [gen |-> m.gen, label |-> known]
        BY <3>1, <4>3 DEF Restorable, known
      <4> QED BY <3>4, <4>2, <4>3, <4>4 DEF Restorable
    <3>8. FrozenRestorable'
      <4>1. \A e \in freeze' : e \in freeze \/ (CanFreeze(r) /\ e \in Puts(r, m))
        BY <3>1
      <4> QED BY <3>4, <3>5, <3>6, <3>7, <4>1 DEF FrozenRestorable
    <3>9. Rehydratable'
      <4> SUFFICES ASSUME NEW s \in sent', s \notin sent, NEW t \in s.out.tokens
                   PROVE  t[1] = s.gen /\ t[2] \in DOMAIN s.known /\ t[2] \subseteq s.field.text.words
        BY DEF Rehydratable
      <4>1. PICK i \in DOMAIN r.body :
              /\ CanFreeze(r) /\ s.gen = m.gen /\ s.field = r.body[i] /\ s.out = Out(r, m, i)
              /\ s.known = known
        BY <3>1 DEF known
      <4>2. Restorable(s.out, m.gen, r.body[i].text, known)
        BY <3>3, <4>1
      <4> QED BY <4>1, <4>2 DEF Restorable
    <3> QED BY <3>8, <3>9
  <2> QED BY <2>1, <2>2, <2>3
<1> HIDE DEF Inv
<1> QED BY <1>1, <1>2, PTL DEF Spec, Inv

\* Every placeholder a request sends stands for a value of the field it was put
\* into, fresh or replayed from the freeze, and the map its response is
\* rehydrated with knows that value: whatever maps expire, requests overlap and
\* scans are degraded.
THEOREM AlwaysRehydratable == Spec => []Rehydratable
  BY AlwaysRestorable, PTL

-----------------------------------------------------------------------------
(* What the configuration says, in a session not edited under its requests *)

\* What is masked of a text under a mode and two lists.
MaskedUnder(out, text, mode, allow, deny) ==
  \A w \in text.words :
    \/ w \notin out.clear
    \/ /\ w \notin deny
       /\ w \notin text.found \/ (w \in allow /\ ~Floor(Label[w])) \/ ~Redacts(mode, Label[w])

\* Versions are counted by the edits, and a request in flight has read what is
\* in the files.
ListsRead ==
  /\ edits \in Nat
  /\ files = [mode |-> files.mode, allow |-> files.allow, deny |-> files.deny]
  /\ live = [allow |-> live.allow, deny |-> live.deny]
  /\ \A l \in {files.allow, files.deny, live.allow, live.deny} :
       l.version \in Nat /\ l.version <= edits
  /\ ~world.edited => \A p \in Procs : req[p] # None =>
       /\ live = [allow |-> files.allow, deny |-> files.deny]
       /\ req[p].allow = files.allow.words /\ req[p].deny = files.deny.words

\* What is frozen under the versions of today's lists is masked as they say.
FrozenMasked ==
  \A e \in freeze :
    /\ e.key.cfg[2] \in Nat /\ e.key.cfg[2] <= edits
    /\ e.key.cfg[3] \in Nat /\ e.key.cfg[3] <= edits
    /\ ~world.edited /\ e.key.cfg[2] = files.allow.version /\ e.key.cfg[3] = files.deny.version =>
         MaskedUnder(e.out, e.key.text, e.key.cfg[1], files.allow.words, files.deny.words)

LEMMA FreshMasked ==
  ASSUME NEW r, ~r.degraded, NEW f, NEW gen, NEW values
  PROVE  MaskedUnder(Swept(Substituted(f, gen, r), gen, values), f.text, files.mode, r.allow, r.deny)
<1> DEFINE out == Substituted(f, gen, r)
           V == {{w} : w \in Replaced(f.text, r)}
<1>1. Swept(out, gen, values).clear \subseteq out.clear
  BY DEF Swept, Mask
<1>2. \A w \in Replaced(f.text, r) : w \notin out.clear
  <2>1. CASE Replaced(f.text, r) # {}
    <3>1. out = Mask(Plain(f.text), gen, V)
      BY <2>1 DEF Substituted
    <3>2. out.clear = f.text.words \ UNION V
      BY <3>1 DEF Mask, Plain
    <3>3. \A w \in Replaced(f.text, r) : w \in UNION V
      OBVIOUS
    <3> HIDE DEF out, V
    <3> QED BY <3>2, <3>3
  <2> QED BY <2>1
<1>3. ASSUME NEW w \in f.text.words, w \notin Replaced(f.text, r)
      PROVE  /\ w \notin r.deny
             /\ \/ w \notin f.text.found \/ (w \in r.allow /\ ~Floor(Label[w]))
                \/ ~Redacts(files.mode, Label[w])
  <2>1. w \in f.text.found => w \in Detected(f.text, r)
    BY DEF Detected
  <2>2. CASE w \notin Spans(f.text, r)
    BY <2>1, <2>2 DEF Spans
  <2>3. CASE w \in Spans(f.text, r)
    <3>1. ~Redacts(files.mode, SpanLabel(w, f.text, r))
      BY <1>3, <2>3 DEF Replaced
    <3>2. w \notin r.deny
      BY <3>1 DEF SpanLabel, Redacts
    <3>3. SpanLabel(w, f.text, r) = Label[w]
      BY <3>2 DEF SpanLabel
    <3> QED BY <3>1, <3>2, <3>3
  <2> QED BY <2>2, <2>3
<1> HIDE DEF out
<1>4. ASSUME NEW w \in f.text.words, w \in Swept(out, gen, values).clear
      PROVE  /\ w \notin r.deny
             /\ \/ w \notin f.text.found \/ (w \in r.allow /\ ~Floor(Label[w]))
                \/ ~Redacts(files.mode, Label[w])
  BY <1>1, <1>2, <1>3, <1>4
<1> QED BY <1>4 DEF MaskedUnder, out

\* With the lists it has read, a request makes of a field what they say.
LEMMA FinalMasked ==
  ASSUME BodiesTyped, ListsRead, FrozenMasked, ~world.edited, NEW p \in Procs, req[p] # None,
         CanFreeze(req[p]), NEW m, NEW i \in DOMAIN req[p].body
  PROVE  MaskedUnder(Out(req[p], m, i), req[p].body[i].text, files.mode, files.allow.words, files.deny.words)
<1> DEFINE r == req[p]
           text == r.body[i].text
           values == Kept(Learned(m, r), r)
           Fresh(j) == Swept(Substituted(r.body[j], m.gen, r), m.gen, values)
           first == CHOOSE j \in DOMAIN r.body :
                      /\ r.body[j].text = text
                      /\ \A k \in DOMAIN r.body : r.body[k].text = text => j <= k
           old == Frozen(FreezeKey(m.gen, text))
<1>1. /\ r.allow = files.allow.words /\ r.deny = files.deny.words /\ ~r.degraded
      /\ Fingerprint = <<files.mode, files.allow.version, files.deny.version>>
      /\ r.body \in BodyType
  BY DEF ListsRead, CanFreeze, Fingerprint, BodiesTyped
<1>2. CASE old # {}
  <2>1. Out(r, m, i) = CHOOSE out \in old : TRUE
    BY <1>2 DEF Out, Final
  <2>2. PICK e \in freeze : e.key = FreezeKey(m.gen, text) /\ e.out = Out(r, m, i)
    BY <1>2, <2>1 DEF Frozen
  <2>3. e.key.text = text /\ e.key.cfg = Fingerprint
    BY <2>2 DEF FreezeKey
  <2>4. /\ e.key.cfg[1] = files.mode /\ e.key.cfg[2] = files.allow.version
        /\ e.key.cfg[3] = files.deny.version
    BY <1>1, <2>3
  <2> HIDE DEF r, text
  <2> QED BY <2>2, <2>3, <2>4 DEF FrozenMasked, r, text
<1>3. CASE old = {}
  <2>1. Out(r, m, i) = Fresh(first)
    BY <1>3 DEF Out, Final
  <2>2. first \in DOMAIN r.body /\ r.body[first].text = text
    BY <1>1, FirstField
  <2>3. MaskedUnder(Fresh(first), r.body[first].text, files.mode, r.allow, r.deny)
    <3> HIDE DEF first, r, values
    <3> QED BY <1>1, FreshMasked
  <2> HIDE DEF first, r
  <2> QED BY <1>1, <2>1, <2>2, <2>3 DEF r
<1> QED BY <1>2, <1>3


LEMMA ListsStayRead ==
  ASSUME BodiesTyped, ListsRead, [Next]_vars
  PROVE  ListsRead'
<1>1. ASSUME NEW p \in Procs, NEW b, Start(p, b) PROVE ListsRead'
  <2> DEFINE rec == [body |-> b, allow |-> files.allow.words, deny |-> files.deny.words,
                     began |-> edits, degraded |-> FALSE]
  <2>1. /\ live' = [allow |-> files.allow, deny |-> files.deny]
        /\ req' = [req EXCEPT ![p] = rec] /\ files' = files /\ edits' = edits /\ world' = world
    BY <1>1 DEF Start
  <2>2. live'.allow = files.allow /\ live'.deny = files.deny
    BY <2>1
  <2>3. rec.allow = files.allow.words /\ rec.deny = files.deny.words
    OBVIOUS
  <2> HIDE DEF rec
  <2>4. \A q \in Procs : req'[q] = req[q] \/ req'[q] = rec
    BY <2>1
  <2>5. ~world.edited => \A q \in Procs : req'[q] # None =>
          req'[q].allow = files.allow.words /\ req'[q].deny = files.deny.words
    BY <2>3, <2>4 DEF ListsRead
  <2> QED BY <2>1, <2>2, <2>5 DEF ListsRead
<1>2. ASSUME NEW p \in Procs, Degrade(p) PROVE ListsRead'
  <2>1. req' = [req EXCEPT ![p].degraded = TRUE] /\ req[p] # None
        /\ files' = files /\ live' = live /\ edits' = edits /\ world' = world
    BY <1>2 DEF Degrade, config
  <2>2. \A q \in Procs : req'[q] # None =>
          req[q] # None /\ req'[q].allow = req[q].allow /\ req'[q].deny = req[q].deny
    BY <2>1
  <2> QED BY <2>1, <2>2 DEF ListsRead
<1>3. ASSUME NEW p \in Procs, Finish(p) PROVE ListsRead'
  <2>1. req' = [req EXCEPT ![p] = None]
        /\ files' = files /\ live' = live /\ edits' = edits /\ world' = world
    BY <1>3 DEF Finish, config
  <2>2. \A q \in Procs : req'[q] # None => req'[q] = req[q]
    BY <2>1
  <2> QED BY <2>1, <2>2 DEF ListsRead
<1>4. ASSUME NEW f, NEW read, Edit(f, read),
             f = [mode |-> f.mode, allow |-> f.allow, deny |-> f.deny],
             read = [allow |-> read.allow, deny |-> read.deny],
             \A l \in {f.allow, f.deny, read.allow, read.deny} : l.version \in Nat /\ l.version <= edits + 1
      PROVE  ListsRead'
  <2>1. /\ files' = f /\ edits' = edits + 1 /\ live' \in {live, read} /\ world' = world /\ req' = req
        /\ world.edited \/ \A p \in Procs : req[p] = None
    BY <1>4 DEF Edit
  <2>2. edits + 1 \in Nat /\ \A l \in {live.allow, live.deny} : l.version \in Nat /\ l.version <= edits + 1
    BY DEF ListsRead
  <2>3. live' = [allow |-> live'.allow, deny |-> live'.deny]
        /\ \A l \in {live'.allow, live'.deny} : l.version \in Nat /\ l.version <= edits + 1
    <3>1. CASE live' = live
      BY <2>2, <3>1 DEF ListsRead
    <3>2. CASE live' = read
      BY <1>4, <3>2
    <3> QED BY <2>1, <3>1, <3>2
  <2>4. files' = [mode |-> files'.mode, allow |-> files'.allow, deny |-> files'.deny]
        /\ \A l \in {files'.allow, files'.deny} : l.version \in Nat /\ l.version <= edits + 1
    BY <1>4, <2>1
  <2>5. ~world.edited => \A p \in Procs : req'[p] = None
    BY <2>1
  <2> QED BY <2>1, <2>2, <2>3, <2>4, <2>5 DEF ListsRead
<1>5. /\ edits \in Nat /\ edits + 1 \in Nat /\ edits <= edits + 1
      /\ \A l \in {files.allow, files.deny, live.allow, live.deny} :
           l.version \in Nat /\ l.version <= edits + 1
      /\ files = [mode |-> files.mode, allow |-> files.allow, deny |-> files.deny]
      /\ live = [allow |-> live.allow, deny |-> live.deny]
  BY DEF ListsRead
<1>6. CASE SetMode
  <2>1. PICK mode \in world.modes : Edit([files EXCEPT !.mode = mode], live)
    BY <1>6 DEF SetMode
  <2> DEFINE f == [files EXCEPT !.mode = mode]
  <2>2. f.allow = files.allow /\ f.deny = files.deny /\ f = [mode |-> f.mode, allow |-> f.allow, deny |-> f.deny]
    BY <1>5
  <2> HIDE DEF f
  <2>3. Edit(f, live)
    BY <2>1 DEF f
  <2> QED BY <1>4, <1>5, <2>2, <2>3
<1>7. CASE SetAllow
  <2>1. PICK w \in world.lists :
          Edit([files EXCEPT !.allow = [version |-> edits + 1, words |-> w]],
               [live EXCEPT !.allow = [version |-> edits + 1, words |-> w]])
    BY <1>7 DEF SetAllow
  <2> DEFINE l == [version |-> edits + 1, words |-> w]
             f == [files EXCEPT !.allow = l]
             g == [live EXCEPT !.allow = l]
  <2>2. /\ f.allow = l /\ f.deny = files.deny /\ f = [mode |-> f.mode, allow |-> f.allow, deny |-> f.deny]
        /\ g.allow = l /\ g.deny = live.deny /\ g = [allow |-> g.allow, deny |-> g.deny]
        /\ l.version = edits + 1
    BY <1>5
  <2>3. Edit(f, g)
    BY <2>1
  <2> HIDE DEF f, g, l
  <2> QED BY <1>4, <1>5, <2>2, <2>3
<1>8. CASE SetDeny
  <2>1. PICK w \in world.lists :
          Edit([files EXCEPT !.deny = [version |-> edits + 1, words |-> w]],
               [live EXCEPT !.deny = [version |-> edits + 1, words |-> w]])
    BY <1>8 DEF SetDeny
  <2> DEFINE l == [version |-> edits + 1, words |-> w]
             f == [files EXCEPT !.deny = l]
             g == [live EXCEPT !.deny = l]
  <2>2. /\ f.deny = l /\ f.allow = files.allow /\ f = [mode |-> f.mode, allow |-> f.allow, deny |-> f.deny]
        /\ g.deny = l /\ g.allow = live.allow /\ g = [allow |-> g.allow, deny |-> g.deny]
        /\ l.version = edits + 1
    BY <1>5
  <2>3. Edit(f, g)
    BY <2>1
  <2> HIDE DEF f, g, l
  <2> QED BY <1>4, <1>5, <2>2, <2>3
<1>9. CASE ShowList
  <2>1. live' \in {[live EXCEPT !.allow = files.allow], [live EXCEPT !.deny = files.deny]}
        /\ files' = files /\ edits' = edits /\ world' = world /\ req' = req
    BY <1>9 DEF ShowList
  <2>2. /\ live' = [allow |-> live'.allow, deny |-> live'.deny]
        /\ live'.allow \in {live.allow, files.allow} /\ live'.deny \in {live.deny, files.deny}
    BY <1>5, <2>1
  <2>3. ASSUME live = [allow |-> files.allow, deny |-> files.deny] PROVE live' = live
    BY <2>1, <2>3
  <2> QED BY <2>1, <2>2, <2>3 DEF ListsRead
<1>10. CASE UNCHANGED vars
  BY <1>10 DEF vars, ListsRead
<1> QED BY <1>1, <1>2, <1>3, <1>6, <1>7, <1>8, <1>9, <1>10 DEF Next

\* An edit gives its list a version under which nothing is frozen yet.
LEMMA EditsKeepFrozen ==
  ASSUME ListsRead, FrozenMasked, [Next]_vars, ~\E p \in Procs : Finish(p)
  PROVE  /\ FrozenMasked'
         /\ \A e \in freeze :
              e.key.cfg[2] = files'.allow.version /\ e.key.cfg[3] = files'.deny.version =>
                files'.allow = files.allow /\ files'.deny = files.deny
<1>1. freeze' = freeze /\ world' = world
  BY OthersLeaveBoth
<1>2. \/ files' = files /\ edits' = edits
      \/ edits' = edits + 1 /\ files'.allow = files.allow /\ files'.deny = files.deny
      \/ edits' = edits + 1 /\ files'.allow.version = edits + 1
      \/ edits' = edits + 1 /\ files'.deny.version = edits + 1
  <2>1. CASE SetMode
    BY <2>1 DEF SetMode, Edit, ListsRead
  <2>2. CASE SetAllow
    BY <2>2 DEF SetAllow, Edit, ListsRead
  <2>3. CASE SetDeny
    BY <2>3 DEF SetDeny, Edit, ListsRead
  <2>4. CASE ~(SetMode \/ SetAllow \/ SetDeny)
    BY <2>4 DEF Next, vars, config, Start, Degrade, ShowList
  <2> QED BY <2>1, <2>2, <2>3, <2>4
<1>3. ASSUME NEW e \in freeze
      PROVE  /\ e.key.cfg[2] \in Nat /\ e.key.cfg[2] <= edits' /\ e.key.cfg[2] # edits + 1
             /\ e.key.cfg[3] \in Nat /\ e.key.cfg[3] <= edits' /\ e.key.cfg[3] # edits + 1
  BY <1>2 DEF FrozenMasked, ListsRead
<1>4. ASSUME NEW e \in freeze,
             e.key.cfg[2] = files'.allow.version, e.key.cfg[3] = files'.deny.version
      PROVE  files'.allow = files.allow /\ files'.deny = files.deny
  BY <1>2, <1>3, <1>4
<1>5. FrozenMasked'
  BY <1>1, <1>3, <1>4 DEF FrozenMasked
<1> QED BY <1>4, <1>5

LEMMA AlwaysListed ==
  Spec => [](BodiesTyped /\ ListsRead /\ FrozenMasked /\ (~world.edited => ReplaysMasked))
<1> DEFINE AllMasked == ~world.edited => ReplaysMasked
           Inv == BodiesTyped /\ ListsRead /\ FrozenMasked /\ AllMasked
<1>1. Init => Inv
  <2> SUFFICES ASSUME Init PROVE Inv
    OBVIOUS
  <2>1. BodiesTyped /\ FrozenMasked /\ AllMasked
    BY DEF Init, BodiesTyped, FrozenMasked, ReplaysMasked
  <2>2. files.allow = Empty /\ files.deny = Empty /\ live.allow = Empty /\ live.deny = Empty /\ Empty.version = 0
    BY DEF Init, Empty
  <2>3. ListsRead
    BY <2>2 DEF Init, ListsRead
  <2> QED BY <2>1, <2>3
<1>2. Inv /\ [Next]_vars => Inv'
  <2> SUFFICES ASSUME Inv, [Next]_vars PROVE Inv'
    OBVIOUS
  <2>1. BodiesTyped' /\ ListsRead'
    BY BodiesStayTyped, ListsStayRead
  <2>2. CASE ~\E p \in Procs : Finish(p)
    <3>1. world' = world /\ sent' = sent
      BY <2>2, OthersLeaveBoth
    <3>2. FrozenMasked'
      BY <2>2, EditsKeepFrozen
    <3> QED BY <2>1, <3>1, <3>2 DEF ReplaysMasked, Masked
  <2>3. ASSUME NEW p \in Procs, Finish(p) PROVE FrozenMasked' /\ AllMasked'
    <3> DEFINE r == req[p]
    <3>1. PICK m \in Loads :
            /\ freeze' = IF CanFreeze(r) THEN freeze \cup Puts(r, m) ELSE freeze
            /\ \A s \in sent' : s \in sent \/
                 /\ CanFreeze(r)
                 /\ \E i \in DOMAIN r.body :
                      s.field = r.body[i] /\ s.out = Out(r, m, i) /\ s.files = files
      BY <2>3, FinishEffect
    <3>2. r # None /\ files' = files /\ edits' = edits /\ world' = world
      BY <2>3 DEF Finish, config
    <3>3. ~world.edited /\ CanFreeze(r) => \A i \in DOMAIN r.body :
            MaskedUnder(Out(r, m, i), r.body[i].text, files.mode, files.allow.words, files.deny.words)
      BY <3>2, FinalMasked
    <3> HIDE DEF r
    <3>4. ASSUME NEW e \in Puts(r, m), CanFreeze(r)
          PROVE  /\ e.key.cfg[2] \in Nat /\ e.key.cfg[2] <= edits
                 /\ e.key.cfg[3] \in Nat /\ e.key.cfg[3] <= edits
                 /\ ~world.edited =>
                      MaskedUnder(e.out, e.key.text, e.key.cfg[1], files.allow.words, files.deny.words)
      <4>1. PICK i \in DOMAIN r.body :
              e = [key |-> FreezeKey(m.gen, r.body[i].text), out |-> Out(r, m, i)]
        BY DEF Puts
      <4>2. /\ e.key.text = r.body[i].text /\ e.out = Out(r, m, i)
            /\ e.key.cfg = <<files.mode, live.allow.version, live.deny.version>>
        BY <4>1 DEF FreezeKey, Fingerprint
      <4>3. /\ e.key.cfg[1] = files.mode /\ e.key.cfg[2] = live.allow.version
            /\ e.key.cfg[3] = live.deny.version
        BY <4>2
      <4> QED BY <3>3, <3>4, <4>2, <4>3 DEF ListsRead
    <3>5. FrozenMasked'
      <4>1. \A e \in freeze' : e \in freeze \/ (CanFreeze(r) /\ e \in Puts(r, m))
        BY <3>1
      <4> QED BY <3>2, <3>4, <4>1 DEF FrozenMasked
    <3>6. ASSUME NEW s \in sent', s \notin sent, ~world.edited PROVE Masked(s)
      <4>1. PICK i \in DOMAIN r.body :
              CanFreeze(r) /\ s.field = r.body[i] /\ s.out = Out(r, m, i) /\ s.files = files
        BY <3>1, <3>6
      <4>2. MaskedUnder(s.out, s.field.text, s.files.mode, s.files.allow.words, s.files.deny.words)
        BY <3>3, <3>6, <4>1
      <4> QED BY <4>2 DEF Masked, MaskedUnder
    <3> QED BY <3>2, <3>5, <3>6 DEF ReplaysMasked, Masked
  <2> QED BY <2>1, <2>2, <2>3
<1> HIDE DEF Inv
<1> QED BY <1>1, <1>2, PTL DEF Spec, Inv, AllMasked

\* In a session whose configuration is edited only between requests, whatever
\* is said to be redacted when a request is forwarded is masked in it, in fresh
\* and in replayed fields; body_stale shows that edits during detection break it.
THEOREM MaskedUnlessEditedMeanwhile == Spec => [](~world.edited => ReplaysMasked)
  BY AlwaysListed, PTL

-----------------------------------------------------------------------------
(* What the configuration lets through *)

HardLabels == {"secret", "custom"}

\* What is passed of a text under a mode, two lists and what the session knows.
PassedUnder(out, text, mode, allow, deny, known) ==
  \A w \in text.words :
    \/ w \in out.clear
    \/ w \in deny \/ Floor(Label[w])
    \/ w \notin allow /\ Redacts(mode, Label[w])
    \/ \E v \in DOMAIN known : w \in v /\ known[v] \in HardLabels
    \/ text \in SecretTexts

\* A map knows a value as a secret or an always-redact term, or it is a word
\* under the label the word has.
Labelled(known) ==
  \A v \in DOMAIN known : known[v] \in HardLabels \/ \E w \in v : v = {w} /\ known[v] = Label[w]

KnownLabelled == map # None => Labelled(map.label)

\* What is frozen with the stored map, under the versions of today's lists, is
\* passed as they say.
FrozenPassed ==
  \A e \in freeze :
    /\ ~world.edited /\ e.key.cfg[2] = files.allow.version /\ e.key.cfg[3] = files.deny.version
    /\ map # None /\ map.gen = e.key.gen
    => PassedUnder(e.out, e.key.text, e.key.cfg[1], files.allow.words, files.deny.words, map.label)

\* A request adds to what the map knows and changes no label.
LEMMA LearnedExtends ==
  ASSUME NEW m, NEW r
  PROVE  \A v \in DOMAIN m.label : v \in DOMAIN Learned(m, r) /\ Learned(m, r)[v] = m.label[v]
<1> DEFINE S == [v \in Keyed(r) |-> "secret"]
           words == UNION {Replaced(f.text, r) : f \in Fields(r)}
           N == [v \in {{w} : w \in words} |-> FirstLabel(CHOOSE w \in v : TRUE, r)]
<1>1. Learned(m, r) = Learn(Learn(m.label, S), N)
  BY DEF Learned
<1>2. ASSUME NEW a, NEW b
      PROVE  \A v \in DOMAIN a : v \in DOMAIN Learn(a, b) /\ Learn(a, b)[v] = a[v]
  BY DEF Learn
<1> HIDE DEF S, N
<1> QED BY <1>1, <1>2

LEMMA LearnedLabelled ==
  ASSUME NEW m, Labelled(m.label), NEW r
  PROVE  Labelled(Learned(m, r))
<1> DEFINE S == [v \in Keyed(r) |-> "secret"]
           words == UNION {Replaced(f.text, r) : f \in Fields(r)}
           N == [v \in {{w} : w \in words} |-> FirstLabel(CHOOSE w \in v : TRUE, r)]
<1>1. Learned(m, r) = Learn(Learn(m.label, S), N)
  BY DEF Learned
<1>2. Labelled(S)
  BY DEF Labelled, HardLabels
<1>3. Labelled(N)
  <2>1. ASSUME NEW x \in words PROVE N[{x}] \in HardLabels \/ N[{x}] = Label[x]
    <3>1. (CHOOSE w \in {x} : TRUE) = x
      OBVIOUS
    <3>2. N[{x}] = FirstLabel(x, r)
      <4> HIDE DEF words
      <4> QED BY <3>1
    <3> QED BY <3>2 DEF FirstLabel, SpanLabel, HardLabels
  <2>2. DOMAIN N = {{w} : w \in words}
    OBVIOUS
  <2> HIDE DEF N, words
  <2> QED BY <2>1, <2>2 DEF Labelled
<1>4. ASSUME NEW a, NEW b, Labelled(a), Labelled(b)
      PROVE  Labelled(Learn(a, b))
  BY <1>4 DEF Labelled, Learn
<1> HIDE DEF S, N
<1> QED BY <1>1, <1>2, <1>3, <1>4

\* A word that is taken out of a field is taken out for a reason that stands.
LEMMA FreshPassed ==
  ASSUME NEW m, Labelled(m.label), NEW r, NEW f \in Fields(r), f.keyed => f.text \in SecretTexts
  PROVE  PassedUnder(Swept(Substituted(f, m.gen, r), m.gen, Kept(Learned(m, r), r)),
                     f.text, files.mode, r.allow, r.deny, Learned(m, r))
<1> DEFINE known == Learned(m, r)
           kept == Kept(known, r)
           out == Substituted(f, m.gen, r)
           V == {{x} : x \in Replaced(f.text, r)}
           W == {v \in {u \in kept : u # {} /\ u \subseteq out.clear} :
                   \A u \in {x \in kept : x # {} /\ x \subseteq out.clear} : v \subseteq u => v = u}
<1>1. Swept(out, m.gen, kept).clear = out.clear \ UNION W /\ W \subseteq kept
  BY DEF Swept, Mask
<1>2. Labelled(known)
  BY LearnedLabelled
<1>3. ASSUME NEW w \in f.text.words, w \notin out.clear
      PROVE  w \in Replaced(f.text, r) \/ f.keyed
  <2>1. CASE out = Mask(Plain(f.text), m.gen, V)
    <3>1. out.clear = f.text.words \ UNION V
      BY <2>1 DEF Mask, Plain
    <3> QED BY <1>3, <3>1
  <2>2. CASE out = Mask(Plain(f.text), m.gen, {})
    <3>1. out.clear = f.text.words \ UNION {}
      BY <2>2 DEF Mask, Plain
    <3> QED BY <1>3, <3>1
  <2> QED BY <2>1, <2>2 DEF Substituted
<1>4. ASSUME NEW w \in Replaced(f.text, r)
      PROVE  w \in r.deny \/ Floor(Label[w]) \/ (w \notin r.allow /\ Redacts(files.mode, Label[w]))
  BY <1>4 DEF Replaced, Spans, SpanLabel
<1>5. ASSUME NEW v \in kept, NEW w \in v
      PROVE  \/ v \in DOMAIN known /\ known[v] \in HardLabels
             \/ Floor(Label[w]) \/ (w \notin r.allow /\ Redacts(files.mode, Label[w]))
  <2>1. v \in DOMAIN known /\ Redacts(files.mode, known[v])
        /\ (Floor(known[v]) \/ v \notin {{x} : x \in r.allow})
    BY DEF Kept
  <2>2. CASE known[v] \in HardLabels
    BY <2>1, <2>2
  <2>3. CASE v = {w} /\ known[v] = Label[w]
    BY <2>1, <2>3
  <2> HIDE DEF known
  <2> QED BY <1>2, <2>1, <2>2, <2>3 DEF Labelled
<1> HIDE DEF W, out, kept, known
<1>6. ASSUME NEW w \in f.text.words, w \notin Swept(out, m.gen, kept).clear
      PROVE  \/ w \in r.deny \/ Floor(Label[w])
             \/ w \notin r.allow /\ Redacts(files.mode, Label[w])
             \/ \E v \in DOMAIN known : w \in v /\ known[v] \in HardLabels
             \/ f.text \in SecretTexts
  <2>1. CASE w \in out.clear
    <3>1. PICK v \in W : w \in v
      BY <1>1, <1>6, <2>1
    <3> QED BY <1>1, <1>5, <3>1
  <2>2. CASE w \notin out.clear
    BY <1>3, <1>4, <1>6, <2>2
  <2> QED BY <2>1, <2>2
<1> QED BY <1>6 DEF PassedUnder, out, kept, known

\* With the lists it has read, a request passes of a field what they let through.
LEMMA FinalPassed ==
  ASSUME BodiesTyped, ListsRead, FrozenRestorable, KnownLabelled, FrozenPassed, ~world.edited,
         NEW p \in Procs, req[p] # None, CanFreeze(req[p]), NEW m \in Loads,
         NEW i \in DOMAIN req[p].body
  PROVE  PassedUnder(Out(req[p], m, i), req[p].body[i].text, files.mode,
                     files.allow.words, files.deny.words, Learned(m, req[p]))
<1> DEFINE r == req[p]
           known == Learned(m, r)
           text == r.body[i].text
           Fresh(j) == Swept(Substituted(r.body[j], m.gen, r), m.gen, Kept(known, r))
           first == CHOOSE j \in DOMAIN r.body :
                      /\ r.body[j].text = text
                      /\ \A k \in DOMAIN r.body : r.body[k].text = text => j <= k
           old == Frozen(FreezeKey(m.gen, text))
<1>1. /\ r.allow = files.allow.words /\ r.deny = files.deny.words
      /\ Fingerprint = <<files.mode, files.allow.version, files.deny.version>>
      /\ r.body \in BodyType /\ r.body \in world.bodies
  BY DEF ListsRead, CanFreeze, Fingerprint, BodiesTyped
<1>2. CASE old # {}
  <2>1. Out(r, m, i) = CHOOSE out \in old : TRUE
    BY <1>2 DEF Out, Final
  <2>2. PICK e \in freeze : e.key = FreezeKey(m.gen, text) /\ e.out = Out(r, m, i)
    BY <1>2, <2>1 DEF Frozen
  <2>3. e.key.text = text /\ e.key.cfg = Fingerprint /\ e.key.gen = m.gen
    BY <2>2 DEF FreezeKey
  <2>4. /\ e.key.cfg[1] = files.mode /\ e.key.cfg[2] = files.allow.version
        /\ e.key.cfg[3] = files.deny.version
    BY <1>1, <2>3
  <2>5. map # None /\ m = map
    BY <2>3, LoadedMap
  <2>6. \A v \in DOMAIN map.label : v \in DOMAIN known /\ known[v] = map.label[v]
    BY <2>5, LearnedExtends
  <2> HIDE DEF r, text, known
  <2>7. PassedUnder(Out(r, m, i), text, files.mode, files.allow.words, files.deny.words, map.label)
    BY <2>2, <2>3, <2>4, <2>5 DEF FrozenPassed
  <2>8. PassedUnder(Out(r, m, i), text, files.mode, files.allow.words, files.deny.words, known)
    BY <2>6, <2>7 DEF PassedUnder
  <2> QED BY <2>8 DEF r, text, known
<1>3. CASE old = {}
  <2>1. Out(r, m, i) = Fresh(first)
    BY <1>3 DEF Out, Final
  <2>2. first \in DOMAIN r.body /\ r.body[first].text = text
    BY <1>1, FirstField
  <2>3. r.body[first] \in Fields(r)
    BY <2>2 DEF Fields
  <2>4. r.body[first].keyed => r.body[first].text \in SecretTexts
    <3> DEFINE All == UNION {{b[j] : j \in DOMAIN b} : b \in world.bodies}
    <3>1. ASSUME NEW b \in world.bodies, NEW j \in DOMAIN b PROVE b[j] \in All
      <4>1. b[j] \in {b[k] : k \in DOMAIN b}
        OBVIOUS
      <4> QED BY <4>1
    <3>2. ASSUME NEW g \in All, g.keyed PROVE g.text \in SecretTexts
      BY <3>2 DEF SecretTexts
    <3> HIDE DEF All, first, r
    <3> QED BY <1>1, <2>2, <3>1, <3>2
  <2>5. Labelled(m.label)
    BY DEF Loads, KnownLabelled, Labelled
  <2>6. PassedUnder(Fresh(first), r.body[first].text, files.mode, r.allow, r.deny, known)
    <3> HIDE DEF first, r
    <3> QED BY <2>3, <2>4, <2>5, FreshPassed DEF r
  <2> HIDE DEF first, r, known
  <2> QED BY <1>1, <2>1, <2>2, <2>6 DEF r, known
<1> QED BY <1>2, <1>3

LEMMA FinishPasses ==
  ASSUME BodiesTyped, ListsRead, FrozenRestorable, KnownLabelled, FrozenPassed,
         \A s \in sent : ~world.edited => Passed(s), NEW p \in Procs, Finish(p)
  PROVE  KnownLabelled' /\ FrozenPassed' /\ (\A s \in sent : ~world.edited => Passed(s))'
<1> DEFINE r == req[p]
<1>1. PICK m \in Loads :
        /\ map' = IF DOMAIN Learned(m, r) = {} THEN map ELSE [gen |-> m.gen, label |-> Learned(m, r)]
        /\ freeze' = IF CanFreeze(r) THEN freeze \cup Puts(r, m) ELSE freeze
        /\ \A s \in sent' : s \in sent \/
             /\ CanFreeze(r)
             /\ \E i \in DOMAIN r.body :
                  /\ s.field = r.body[i] /\ s.out = Out(r, m, i) /\ s.files = files
                  /\ s.known = Learned(m, r)
  BY FinishEffect
<1> DEFINE known == Learned(m, r)
<1>2. r # None /\ files' = files /\ edits' = edits /\ world' = world
  BY DEF Finish, config
<1>3. ~world.edited /\ CanFreeze(r) => \A i \in DOMAIN r.body :
        PassedUnder(Out(r, m, i), r.body[i].text, files.mode, files.allow.words, files.deny.words, known)
  BY <1>2, FinalPassed
<1>4. Labelled(m.label)
  BY DEF Loads, KnownLabelled, Labelled
<1>5. Labelled(known) /\ \A v \in DOMAIN m.label : v \in DOMAIN known /\ known[v] = m.label[v]
  BY <1>4, LearnedLabelled, LearnedExtends
<1> HIDE DEF r, known
<1>6. map' = map \/ (map'.gen = m.gen /\ map'.label = known)
  BY <1>1 DEF known
<1>7. KnownLabelled'
  <2>1. CASE map' = map
    BY <2>1 DEF KnownLabelled, Labelled
  <2>2. CASE map'.gen = m.gen /\ map'.label = known
    BY <1>5, <2>2 DEF KnownLabelled, Labelled
  <2> QED BY <1>6, <2>1, <2>2
<1>8. ASSUME NEW e \in freeze, ~world.edited, e.key.cfg[2] = files.allow.version,
             e.key.cfg[3] = files.deny.version, map' # None, map'.gen = e.key.gen
      PROVE  PassedUnder(e.out, e.key.text, e.key.cfg[1], files.allow.words, files.deny.words, map'.label)
  <2>1. CASE map' = map
    BY <1>8, <2>1 DEF FrozenPassed
  <2>2. CASE map'.gen = m.gen /\ map'.label = known
    <3>1. map # None /\ m = map
      BY <1>8, <2>2, LoadedMap
    <3>2. PassedUnder(e.out, e.key.text, e.key.cfg[1], files.allow.words, files.deny.words, map.label)
      BY <1>8, <2>2, <3>1 DEF FrozenPassed
    <3> QED BY <1>5, <2>2, <3>1, <3>2 DEF PassedUnder
  <2> QED BY <1>6, <2>1, <2>2
<1>9. ASSUME CanFreeze(r), NEW e \in Puts(r, m), ~world.edited, map' # None, map'.gen = e.key.gen
      PROVE  PassedUnder(e.out, e.key.text, e.key.cfg[1], files.allow.words, files.deny.words, map'.label)
  <2>1. PICK i \in DOMAIN r.body :
          e = [key |-> FreezeKey(m.gen, r.body[i].text), out |-> Out(r, m, i)]
    BY <1>9 DEF Puts
  <2>2. /\ e.key.text = r.body[i].text /\ e.out = Out(r, m, i) /\ e.key.gen = m.gen
        /\ e.key.cfg = <<files.mode, live.allow.version, live.deny.version>>
    BY <2>1 DEF FreezeKey, Fingerprint
  <2>3. PassedUnder(e.out, e.key.text, e.key.cfg[1], files.allow.words, files.deny.words, known)
    BY <1>3, <1>9, <2>2
  <2>4. CASE map'.label = known
    BY <2>3, <2>4
  <2>5. CASE map' = map /\ DOMAIN known = {}
    BY <2>3, <2>5 DEF PassedUnder
  <2> QED BY <1>1, <2>4, <2>5 DEF known
<1>10. FrozenPassed'
  <2>1. \A e \in freeze' : e \in freeze \/ (CanFreeze(r) /\ e \in Puts(r, m))
    BY <1>1
  <2> QED BY <1>2, <1>8, <1>9, <2>1 DEF FrozenPassed, PassedUnder, SecretTexts
<1>11. ASSUME NEW s \in sent', s \notin sent, ~world.edited PROVE Passed(s)
  <2>1. PICK i \in DOMAIN r.body :
          CanFreeze(r) /\ s.field = r.body[i] /\ s.out = Out(r, m, i) /\ s.files = files /\ s.known = known
    BY <1>1, <1>11 DEF known
  <2>2. PassedUnder(s.out, s.field.text, s.files.mode, s.files.allow.words, s.files.deny.words, s.known)
    BY <1>3, <1>11, <2>1
  <2> QED BY <2>2 DEF Passed, PassedUnder, HardLabels
<1>12. (\A s \in sent : ~world.edited => Passed(s))'
  BY <1>2, <1>11 DEF Passed, SecretTexts
<1> QED BY <1>7, <1>10, <1>12

\* In such a session whatever goes upstream, fresh or replayed, is masked as the
\* mode and the lists say, and what they let through is not masked: unless the
\* session knows it as a secret or an always-redact term, or it is the value of
\* a sensitive key.
THEOREM AlwaysAsConfigured == Spec => []AsConfigured
<1> DEFINE AllPassed == \A s \in sent : ~world.edited => Passed(s)
           Inv == KnownLabelled /\ FrozenPassed /\ AllPassed
           Aux == BodiesTyped /\ ListsRead /\ FrozenMasked /\ FrozenRestorable
<1>1. Init => Inv
  BY DEF Init, KnownLabelled, FrozenPassed
<1>2. Inv /\ Aux /\ [Next]_vars => Inv'
  <2> SUFFICES ASSUME Inv, Aux, [Next]_vars PROVE Inv'
    OBVIOUS
  <2>1. CASE ~\E p \in Procs : Finish(p)
    <3>1. UNCHANGED <<world, map, freeze, sent>>
      BY <2>1, OthersLeaveBoth
    <3>2. \A e \in freeze :
            e.key.cfg[2] = files'.allow.version /\ e.key.cfg[3] = files'.deny.version =>
              files'.allow = files.allow /\ files'.deny = files.deny
      BY <2>1, EditsKeepFrozen
    <3>3. FrozenPassed'
      BY <3>1, <3>2 DEF FrozenPassed, PassedUnder, SecretTexts
    <3> QED BY <3>1, <3>3 DEF KnownLabelled, Labelled, Passed, SecretTexts
  <2>2. ASSUME NEW p \in Procs, Finish(p) PROVE Inv'
    BY <2>2, FinishPasses
  <2> QED BY <2>1, <2>2
<1>3. AllPassed /\ (~world.edited => ReplaysMasked) => AsConfigured
  BY DEF AsConfigured
<1> HIDE DEF AllPassed
<1> QED BY <1>1, <1>2, <1>3, AlwaysRestorable, AlwaysListed, PTL DEF Spec

-----------------------------------------------------------------------------
(* What a frozen text exposes *)

\* Among finite sets there is one above each that no other is above.
LEMMA SomeLargest ==
  ASSUME NEW C, IsFiniteSet(C), NEW T, \A x \in T : x \subseteq C, NEW v \in T
  PROVE  \E u \in T : v \subseteq u /\ \A x \in T : u \subseteq x => u = x
<1> DEFINE R == OpToRel(<, Nat)
           S == {u \in T : v \subseteq u}
           N == {Cardinality(C \ u) : u \in S}
<1>1. \A u \in S : IsFiniteSet(C \ u) /\ Cardinality(C \ u) \in Nat
  <2>1. \A u : IsFiniteSet(C \ u)
    BY FS_Subset
  <2> QED BY <2>1, FS_CardinalityType
<1>2. N # {} /\ N \subseteq Nat
  BY <1>1
<1>3. \E n \in N : \A k \in N : ~ (<<k, n>> \in R)
  <2>1. IsWellFoundedOn(R, Nat)
    BY NatLessThanWellFounded
  <2> HIDE DEF R, N
  <2> QED BY <1>2, <2>1, WFMin
<1>4. \A y \in Nat, z \in Nat : y < z => <<y, z>> \in R
  BY DEF OpToRel
<1> HIDE DEF R
<1>5. PICK u \in S : \A k \in N : ~ (<<k, Cardinality(C \ u)>> \in R)
  BY <1>3
<1>6. ASSUME NEW x \in T, u \subseteq x PROVE u = x
  <2>1. x \in S
    BY <1>6
  <2>2. Cardinality(C \ x) \in N /\ Cardinality(C \ x) \in Nat /\ Cardinality(C \ u) \in Nat
    BY <1>1, <2>1
  <2>3. ~ (Cardinality(C \ x) < Cardinality(C \ u))
    BY <1>4, <1>5, <2>2
  <2>4. C \ x \subseteq C \ u
    BY <1>6
  <2>5. C \ x = C \ u
    <3>1. /\ Cardinality(C \ x) <= Cardinality(C \ u)
          /\ Cardinality(C \ u) = Cardinality(C \ x) => C \ u = C \ x
      BY <1>1, <2>4, FS_Subset
    <3> QED BY <2>2, <2>3, <3>1
  <2> QED BY <1>6, <2>5
<1> QED BY <1>5, <1>6

\* The sweep leaves no value it knows.
LEMMA SweptLeavesNone ==
  ASSUME NEW out, IsFiniteSet(out.clear), NEW gen, NEW values, NEW v \in values, v # {}
  PROVE  ~ (v \subseteq Swept(out, gen, values).clear)
<1> DEFINE there == {x \in values : x # {} /\ x \subseteq out.clear}
           W == {x \in there : \A u \in there : x \subseteq u => x = u}
<1>1. Swept(out, gen, values).clear = out.clear \ UNION W
  BY DEF Swept, Mask
<1>2. SUFFICES ASSUME v \in there PROVE ~ (v \subseteq out.clear \ UNION W)
  BY <1>1
<1>3. PICK u \in there : v \subseteq u /\ \A x \in there : u \subseteq x => u = x
  <2>1. \A x \in there : x \subseteq out.clear
    OBVIOUS
  <2> HIDE DEF there
  <2> QED BY <1>2, <2>1, SomeLargest
<1>4. u \in W
  BY <1>3
<1> HIDE DEF W
<1> QED BY <1>3, <1>4

LEMMA SubstitutedFinite ==
  ASSUME NEW f \in [text : Texts, keyed : BOOLEAN], NEW gen, NEW r
  PROVE  IsFiniteSet(Substituted(f, gen, r).clear)
<1>1. Substituted(f, gen, r).clear \subseteq f.text.words
  BY DEF Substituted, Mask, Plain
<1>2. IsFiniteSet(f.text.words)
  BY TextAssumption
<1> QED BY <1>1, <1>2, FS_Subset

\* What a request makes of a field is frozen, or has none of the swept values.
LEMMA FinalKnownOrSwept ==
  ASSUME NEW r, r.body \in BodyType, CanFreeze(r), NEW m, NEW i \in DOMAIN r.body,
         NEW v \in Kept(Learned(m, r), r), v # {}, v \subseteq Out(r, m, i).clear
  PROVE  \E e \in freeze : e.key.text = r.body[i].text /\ e.out = Out(r, m, i)
<1> DEFINE text == r.body[i].text
           values == Kept(Learned(m, r), r)
           Fresh(j) == Swept(Substituted(r.body[j], m.gen, r), m.gen, values)
           first == CHOOSE j \in DOMAIN r.body :
                      /\ r.body[j].text = text
                      /\ \A k \in DOMAIN r.body : r.body[k].text = text => j <= k
           old == Frozen(FreezeKey(m.gen, text))
<1>1. CASE old # {}
  <2>1. Out(r, m, i) = CHOOSE out \in old : TRUE
    BY <1>1 DEF Out, Final
  <2>2. PICK e \in freeze : e.key = FreezeKey(m.gen, text) /\ e.out = Out(r, m, i)
    BY <1>1, <2>1 DEF Frozen
  <2> QED BY <2>2 DEF FreezeKey
<1>2. CASE old = {}
  <2>1. Out(r, m, i) = Fresh(first)
    BY <1>2 DEF Out, Final
  <2>2. first \in DOMAIN r.body
    BY FirstField
  <2>3. r.body[first] \in [text : Texts, keyed : BOOLEAN]
    <3> DEFINE F == [text : Texts, keyed : BOOLEAN]
    <3>1. \A b \in Seq(F) : \A j \in DOMAIN b : b[j] \in F
      <4> HIDE DEF F
      <4> QED OBVIOUS
    <3> HIDE DEF first
    <3> QED BY <2>2, <3>1 DEF BodyType
  <2> HIDE DEF first, values
  <2>4. IsFiniteSet(Substituted(r.body[first], m.gen, r).clear)
    BY <2>3, SubstitutedFinite
  <2>5. ~ (v \subseteq Fresh(first).clear)
    BY <2>4, SweptLeavesNone DEF values
  <2> QED BY <2>1, <2>5
<1> QED BY <1>1, <1>2

\* Where forwards arrive, what is frozen has gone upstream.
FrozenSent ==
  ~world.unsent => \A e \in freeze : \E o \in sent : o.field.text = e.key.text /\ o.out = e.out

LEMMA FrozenStaysSent ==
  ASSUME FrozenSent, [Next]_vars
  PROVE  FrozenSent'
<1>1. CASE ~\E p \in Procs : Finish(p)
  BY <1>1, OthersLeaveBoth DEF FrozenSent
<1>2. ASSUME NEW p \in Procs, Finish(p) PROVE FrozenSent'
  <2> DEFINE r == req[p]
  <2>1. PICK m \in Loads :
          /\ freeze' = IF CanFreeze(r) THEN freeze \cup Puts(r, m) ELSE freeze
          /\ sent \subseteq sent'
          /\ CanFreeze(r) /\ ~world.unsent => \A i \in DOMAIN r.body :
               \E s \in sent' : s.field = r.body[i] /\ s.out = Out(r, m, i)
    BY <1>2, FinishEffect
  <2>2. world' = world
    BY <1>2 DEF Finish
  <2> HIDE DEF r
  <2>3. ASSUME NEW e \in freeze', e \notin freeze, ~world.unsent
        PROVE  \E o \in sent' : o.field.text = e.key.text /\ o.out = e.out
    <3>1. CanFreeze(r) /\ e \in Puts(r, m)
      BY <2>1, <2>3
    <3>2. PICK i \in DOMAIN r.body :
            e = [key |-> FreezeKey(m.gen, r.body[i].text), out |-> Out(r, m, i)]
      BY <3>1 DEF Puts
    <3>3. e.key.text = r.body[i].text /\ e.out = Out(r, m, i)
      BY <3>2 DEF FreezeKey
    <3>4. PICK s \in sent' : s.field = r.body[i] /\ s.out = Out(r, m, i)
      BY <2>1, <2>3, <3>1
    <3> QED BY <3>3, <3>4
  <2> QED BY <2>1, <2>2, <2>3 DEF FrozenSent
<1> QED BY <1>1, <1>2

\* A value the sweep knows goes upstream in clear only in a text that has gone
\* upstream with it before: the freeze adds nothing to what was exposed, whatever
\* is edited, forgotten or overlaps, as long as forwards arrive.
THEOREM NothingNewlyExposed == Spec => NoNewExposure
<1> DEFINE Step == ~world.unsent => \A s \in sent' \ sent : \A v \in s.swept :
                     v # {} /\ v \subseteq s.out.clear =>
                       \E o \in sent : o.field.text = s.field.text /\ v \subseteq o.out.clear
<1>1. Init => FrozenSent
  BY DEF Init, FrozenSent
<1>2. FrozenSent /\ [Next]_vars => FrozenSent'
  BY FrozenStaysSent
<1>3. BodiesTyped /\ FrozenSent /\ [Next]_vars => [Step]_vars
  <2> SUFFICES ASSUME BodiesTyped, FrozenSent, [Next]_vars, ~world.unsent,
                      NEW s \in sent', s \notin sent, NEW v \in s.swept,
                      v # {}, v \subseteq s.out.clear
               PROVE  \E o \in sent : o.field.text = s.field.text /\ v \subseteq o.out.clear
    OBVIOUS
  <2>1. PICK p \in Procs : Finish(p)
    BY OthersLeaveBoth
  <2> DEFINE r == req[p]
  <2>2. PICK m \in Loads : CanFreeze(r) /\ \E i \in DOMAIN r.body :
          s.field = r.body[i] /\ s.out = Out(r, m, i) /\ s.swept = Kept(Learned(m, r), r)
    BY <2>1, FinishEffect
  <2>3. r.body \in BodyType
    BY <2>1 DEF Finish, BodiesTyped
  <2> HIDE DEF r
  <2>4. PICK i \in DOMAIN r.body :
          s.field = r.body[i] /\ s.out = Out(r, m, i) /\ s.swept = Kept(Learned(m, r), r)
    BY <2>2
  <2>5. PICK e \in freeze : e.key.text = r.body[i].text /\ e.out = Out(r, m, i)
    BY <2>2, <2>3, <2>4, FinalKnownOrSwept
  <2> QED BY <2>4, <2>5 DEF FrozenSent
<1>4. [Step]_vars => [~world.unsent => \A s \in sent' \ sent : \A v \in s.swept :
                       v # {} /\ v \subseteq s.out.clear =>
                         \E o \in sent : o.field.text = s.field.text /\ v \subseteq o.out.clear]_vars
  OBVIOUS
<1> HIDE DEF Step
<1>5. Spec => [][Step]_vars
  BY <1>1, <1>2, <1>3, AlwaysRestorable, PTL DEF Spec
<1> QED BY <1>5, PTL DEF NoNewExposure, Step
=============================================================================
