---------------------------- MODULE CoinJoinProofs ----------------------------
(***************************************************************************)
(* Proofs about CoinJoin, for any addresses, submissions, amounts, fees    *)
(* and pool size: whatever its owner calls and whatever the backend does.  *)
(***************************************************************************)
EXTENDS CoinJoin, FiniteSetTheorems, WellFoundedInduction, TLAPS

-----------------------------------------------------------------------------
(* Sums of amounts.  MapThenSumSet is defined by recursion over a set; the *)
(* lemmas are about a function f of the elements, and are used for the     *)
(* operators that InAmount and FinalTxPaysFee sum by SumOfEqual.           *)

SumStep(f, S, g) ==
  [s \in SUBSET S |-> IF s = {} THEN 0
                      ELSE f[CHOOSE x \in s : TRUE] + g[s \ {CHOOSE x \in s : TRUE}]]

Sum(f, S) == (CHOOSE g : g = SumStep(f, S, g))[S]

\* Induction over a finite set: a property that fails for some subset fails for
\* a smallest one.
LEMMA SmallestSubset ==
  ASSUME NEW S, IsFiniteSet(S), NEW T \in SUBSET SUBSET S, T # {}
  PROVE  \E U \in T : \A V \in T : V \subseteq U => V = U
<1> DEFINE R == StrictSubsetOrdering(S)
<1>1. IsWellFoundedOn(R, SUBSET S)
  BY FS_StrictSubsetOrderingWellFounded, FS_FiniteSubsetsOfFinite
<1>2. PICK U \in T : \A V \in T : ~(<<V, U>> \in R)
  <2> HIDE DEF R
  <2> QED BY <1>1, WFMin
<1>3. ASSUME NEW V \in T, V \subseteq U PROVE V = U
  <2>1. <<V, U>> \in (SUBSET S) \X (SUBSET S)
    OBVIOUS
  <2> QED BY <1>2, <1>3, <2>1 DEF StrictSubsetOrdering
<1> QED BY <1>3

\* Two sums agree on the sets both are about.
LEMMA SumUnique ==
  ASSUME NEW S, IsFiniteSet(S), NEW f, NEW V \in SUBSET S, NEW W \in SUBSET S,
         NEW g, NEW h, g = SumStep(f, V, g), h = SumStep(f, W, h)
  PROVE  \A s \in SUBSET (V \cap W) : g[s] = h[s]
<1> DEFINE T == {s \in SUBSET (V \cap W) : g[s] # h[s]}
<1> SUFFICES ASSUME T # {} PROVE FALSE
  OBVIOUS
<1>1. T \in SUBSET SUBSET S
  OBVIOUS
<1>2. PICK s \in T : \A t \in T : t \subseteq s => t = s
  <2> HIDE DEF T
  <2> QED BY <1>1, SmallestSubset
<1>3. s \in SUBSET V /\ s \in SUBSET W /\ g[s] # h[s]
  OBVIOUS
<1> DEFINE x == CHOOSE x \in s : TRUE
<1>4. CASE s = {}
  <2>1. g[s] = 0 /\ h[s] = 0
    BY <1>3, <1>4 DEF SumStep
  <2> QED BY <1>3, <2>1
<1>5. CASE s # {}
  <2>1. x \in s
    BY <1>5
  <2>2. g[s] = f[x] + g[s \ {x}] /\ h[s] = f[x] + h[s \ {x}]
    BY <1>3, <1>5 DEF SumStep
  <2>3. g[s \ {x}] = h[s \ {x}]
    BY <1>2, <2>1
  <2> QED BY <1>3, <2>2, <2>3
<1> QED BY <1>4, <1>5

\* The recursion defines a sum of integers, and the sum is an integer.
LEMMA SumExists ==
  ASSUME NEW S, IsFiniteSet(S), NEW f \in [S -> Int]
  PROVE  \E g \in [SUBSET S -> Int] : g = SumStep(f, S, g)
<1> DEFINE Good(U) == \E g \in [SUBSET U -> Int] : g = SumStep(f, U, g)
           T == {U \in SUBSET S : ~Good(U)}
<1> SUFFICES ASSUME T # {} PROVE FALSE
  OBVIOUS
<1>1. T \in SUBSET SUBSET S
  OBVIOUS
<1>2. PICK U \in T : \A V \in T : V \subseteq U => V = U
  <2> HIDE DEF T
  <2> QED BY <1>1, SmallestSubset
<1> DEFINE G(V)   == CHOOSE g \in [SUBSET V -> Int] : g = SumStep(f, V, g)
           x(s)   == CHOOSE y \in s : TRUE
           val(s) == IF s = {} THEN 0 ELSE f[x(s)] + G(s \ {x(s)})[s \ {x(s)}]
<1>3. ASSUME NEW V \in SUBSET U, V # U
      PROVE  G(V) \in [SUBSET V -> Int] /\ G(V) = SumStep(f, V, G(V))
  BY <1>2, <1>3
<1>4. ASSUME NEW s \in SUBSET U, s # {}
      PROVE  x(s) \in s /\ s \ {x(s)} \in SUBSET U /\ s \ {x(s)} # U /\ f[x(s)] \in Int
  <2>1. x(s) \in s
    BY <1>4
  <2> QED BY <2>1
<1> HIDE DEF G, x
<1>5. ASSUME NEW s \in SUBSET U PROVE val(s) \in Int
  <2>1. CASE s # {}
    <3> DEFINE w == s \ {x(s)}
    <3>1. w \in SUBSET U /\ w # U /\ f[x(s)] \in Int
      BY <1>4, <2>1
    <3>2. G(w) \in [SUBSET w -> Int] /\ w \in SUBSET w
      BY <1>3, <3>1
    <3>3. G(w)[w] \in Int
      <4> HIDE DEF w
      <4> QED BY <3>2
    <3> QED BY <2>1, <3>1, <3>3
  <2> QED BY <2>1
<1>6. ASSUME NEW s \in SUBSET U, s # U PROVE G(s)[s] = val(s)
  <2>1. G(s) = SumStep(f, s, G(s))
    BY <1>3, <1>6
  <2>2. CASE s = {}
    BY <2>1, <2>2 DEF SumStep
  <2>3. CASE s # {}
    <3> DEFINE w == s \ {x(s)}
    <3>1. G(s)[s] = f[x(s)] + G(s)[w]
      BY <2>1, <2>3 DEF SumStep, x
    <3>2. w \in SUBSET U /\ w # U /\ w \in SUBSET S /\ s \in SUBSET S /\ w \in SUBSET (s \cap w)
      BY <1>4, <2>3
    <3>3. G(w) = SumStep(f, w, G(w))
      BY <1>3, <3>2
    <3>4. G(s)[w] = G(w)[w]
      <4> HIDE DEF w
      <4> QED BY <2>1, <3>2, <3>3, SumUnique
    <3> QED BY <2>3, <3>1, <3>4
  <2> QED BY <2>2, <2>3
<1> DEFINE g == [s \in SUBSET U |-> val(s)]
<1>7. g \in [SUBSET U -> Int]
  BY <1>5
<1>8. ASSUME NEW s \in SUBSET U, s # {} PROVE g[s] = f[x(s)] + g[s \ {x(s)}]
  <2>1. g[s \ {x(s)}] = G(s \ {x(s)})[s \ {x(s)}]
    BY <1>4, <1>6, <1>8
  <2> QED BY <1>8, <2>1
<1>9. g = SumStep(f, U, g)
  <2>1. g[{}] = 0
    OBVIOUS
  <2>2. g = [s \in SUBSET U |-> g[s]]
    OBVIOUS
  <2> HIDE DEF g
  <2> QED BY <1>8, <2>1, <2>2 DEF SumStep, x
<1> QED BY <1>2, <1>7, <1>9

LEMMA SumType ==
  ASSUME NEW S, IsFiniteSet(S), NEW f \in [S -> Int]
  PROVE  Sum(f, S) \in Int
<1>1. PICK g \in [SUBSET S -> Int] : g = SumStep(f, S, g)
  BY SumExists
<1> DEFINE h == CHOOSE h : h = SumStep(f, S, h)
<1>2. h = SumStep(f, S, h)
  BY <1>1
<1>3. g[S] = h[S]
  <2> HIDE DEF h
  <2> QED BY <1>1, <1>2, SumUnique
<1> QED BY <1>3 DEF Sum

\* Sums of equal amounts are equal.
LEMMA SumOfEqual ==
  ASSUME NEW S, NEW f, NEW g, \A i \in S : f[i] = g[i]
  PROVE  Sum(f, S) = Sum(g, S)
<1>1. ASSUME NEW h PROVE SumStep(f, S, h) = SumStep(g, S, h)
  <2>1. ASSUME NEW s \in SUBSET S, s # {} PROVE (CHOOSE x \in s : TRUE) \in S
    BY <2>1
  <2> QED BY <2>1 DEF SumStep
<1>2. \A h : h = SumStep(f, S, h) <=> h = SumStep(g, S, h)
  BY <1>1
<1> QED BY <1>2 DEF Sum

-----------------------------------------------------------------------------
(* The operators of CoinJoinOps and their sums                             *)

TrueAmount == [i \in Input |-> TrueValue[i.coin]]

\* What InAmount adds up for each input.
AmountOf(c, client) ==
  [i \in c.inputs |-> IF IsSome(client) THEN (CHOOSE b \in client : TRUE).value[i.coin]
                      ELSE CHOOSE a \in i.amount : TRUE]

LEMMA InAmountSum ==
  ASSUME NEW c, NEW client
  PROVE  InAmount(c, client) = Sum(AmountOf(c, client), c.inputs)
<1> DEFINE op(i) == IF IsSome(client) THEN (CHOOSE b \in client : TRUE).value[i.coin]
                    ELSE CHOOSE a \in i.amount : TRUE
           f     == AmountOf(c, client)
           S     == c.inputs
           F(h)  == [s \in SUBSET S |-> IF s = {} THEN 0
                       ELSE op(CHOOSE x \in s : TRUE) + h[s \ {CHOOSE x \in s : TRUE}]]
<1>1. \A i \in S : f[i] = op(i)
  BY DEF AmountOf
<1>2. InAmount(c, client) = (CHOOSE h : h = F(h))[S]
  BY DEF InAmount, MapThenSumSet, MapThenFoldSet
<1> HIDE DEF f, op, S
<1>3. ASSUME NEW h PROVE SumStep(f, S, h) = F(h)
  <2>1. ASSUME NEW s \in SUBSET S, s # {} PROVE (CHOOSE x \in s : TRUE) \in S
    BY <2>1
  <2> QED BY <1>1, <2>1 DEF SumStep
<1>4. \A h : h = SumStep(f, S, h) <=> h = F(h)
  BY <1>3
<1> HIDE DEF F
<1>5. (CHOOSE h : h = F(h)) = (CHOOSE h : h = SumStep(f, S, h))
  BY <1>4
<1>6. InAmount(c, client) = Sum(f, S)
  BY <1>2, <1>5 DEF Sum
<1> QED BY <1>6 DEF f, S

\* The sum that FinalTxPaysFee is about.
LEMMA TrueSum ==
  ASSUME NEW S \in SUBSET Input
  PROVE  LET value(i) == TrueValue[i.coin] IN MapThenSumSet(value, S) = Sum(TrueAmount, S)
<1> DEFINE F(h) == [s \in SUBSET S |-> IF s = {} THEN 0
                      ELSE TrueValue[(CHOOSE x \in s : TRUE).coin] + h[s \ {CHOOSE x \in s : TRUE}]]
           value(i) == TrueValue[i.coin]
<1>1. MapThenSumSet(value, S) = (CHOOSE h : h = F(h))[S]
  BY DEF MapThenSumSet, MapThenFoldSet
<1>2. ASSUME NEW h PROVE SumStep(TrueAmount, S, h) = F(h)
  <2>1. ASSUME NEW s \in SUBSET S, s # {} PROVE (CHOOSE x \in s : TRUE) \in Input
    BY <2>1
  <2> QED BY <2>1 DEF SumStep, TrueAmount
<1>3. \A h : h = SumStep(TrueAmount, S, h) <=> h = F(h)
  BY <1>2
<1> HIDE DEF F
<1>4. (CHOOSE h : h = F(h)) = (CHOOSE h : h = SumStep(TrueAmount, S, h))
  BY <1>3
<1> QED BY <1>1, <1>4 DEF Sum

-----------------------------------------------------------------------------
(* The inductive invariant                                                 *)

Struct == [outputs : SUBSET Address, psbt : SUBSET SUBSET Address, inputs : SUBSET Input,
           tx : SUBSET Tx]

\* The template has MinPeer outputs at least, and no coin was submitted twice:
\* what generate_psbt and add_input see to, and generate_tx relies on.
RegisteredInv ==
  /\ IsFiniteSet(cj.inputs)
  /\ \A t \in cj.psbt : Cardinality(t) >= MinPeer
  /\ \A i, j \in cj.inputs : i.coin = j.coin => i = j

AggregatorInv == TypeOK /\ RegisteredInv

\* An option with something in it holds one element, the one that is chosen.
LEMMA SomeOne ==
  ASSUME NEW S, NEW opt \in SUBSET S, IsSome(opt)
  PROVE  (CHOOSE x \in opt : TRUE) \in opt /\ (CHOOSE x \in opt : TRUE) \in S
BY DEF IsSome

LEMMA SingletonCardinality == ASSUME NEW x PROVE Cardinality({x}) = 1 /\ Cardinality({}) = 0
BY FS_Singleton, FS_EmptySet

\* The coins and amounts of a submission are as assumed.
LEMMA InputFields ==
  ASSUME NEW i \in Input
  PROVE  /\ i.coin \in DOMAIN TrueValue /\ TrueValue[i.coin] \in Nat
         /\ i.amount \in SUBSET Nat
BY CoinJoinAssumption

LEMMA WeightType ==
  ASSUME NEW c, IsFiniteSet(c.inputs), NEW t, IsFiniteSet(t)
  PROVE  Weight(c, t) \in Nat /\ OutAmount(t) \in Nat
<1>1. Cardinality(c.inputs) \in Nat /\ Cardinality(t) \in Nat
  BY FS_CardinalityType
<1>2. \A m, n \in Nat : m * n \in Nat
  OBVIOUS
<1>3. /\ InputWeight * Cardinality(c.inputs) \in Nat /\ OutputWeight * Cardinality(t) \in Nat
      /\ Denomination * Cardinality(t) \in Nat
  BY <1>1, <1>2, OpsAssumption
<1> QED BY <1>3, OpsAssumption DEF Weight, OutAmount

\* Where generate_tx looks at sums, every amount it adds up is there: with a
\* backend they are those on chain.
LEMMA AmountsKnown ==
  ASSUME AggregatorInv, NEW errs,
         GenerateTxResult(cj, Client, errs) \in {"ok", "FeeTooLow", "InputAmountTooLow"}
  PROVE  /\ IsSome(cj.psbt) /\ ~IsSome(cj.tx)
         /\ attached => \A i \in cj.inputs : i.coin \in known
         /\ AmountOf(cj, Client) \in [cj.inputs -> Int]
         /\ attached => \A i \in cj.inputs : AmountOf(cj, Client)[i] = TrueAmount[i]
<1>1. cj.inputs \in SUBSET Input /\ known \in SUBSET DOMAIN TrueValue
  BY DEF AggregatorInv, TypeOK
<1>2. /\ IsSome(cj.psbt) /\ ~IsSome(cj.tx)
      /\ ~(\E b \in Client : \E i \in cj.inputs : errs > 0 \/ i.coin \notin DOMAIN b.value)
      /\ IsSome(Client) \/ \A i \in cj.inputs : IsSome(i.amount)
  BY DEF GenerateTxResult
<1>3. CASE attached
  <2>1. Client = {Backend} /\ IsSome(Client) /\ (CHOOSE b \in Client : TRUE) = Backend
    BY <1>3 DEF Client, IsSome
  <2>2. DOMAIN Backend.value = known /\ \A c \in known : Backend.value[c] = TrueValue[c]
    BY DEF Backend
  <2>3. \A i \in cj.inputs : i.coin \in known
    BY <1>2, <2>1, <2>2
  <2>4. \A i \in cj.inputs : AmountOf(cj, Client)[i] = TrueAmount[i]
    BY <1>1, <2>1, <2>2, <2>3 DEF AmountOf, TrueAmount
  <2>5. \A i \in cj.inputs : TrueAmount[i] \in Int
    BY <1>1, InputFields DEF TrueAmount
  <2>6. AmountOf(cj, Client) = [i \in cj.inputs |-> AmountOf(cj, Client)[i]]
    BY DEF AmountOf
  <2>7. AmountOf(cj, Client) \in [cj.inputs -> Int]
    BY <2>4, <2>5, <2>6
  <2> QED BY <1>2, <2>3, <2>4, <2>7
<1>4. CASE ~attached
  <2>1. ~IsSome(Client) /\ \A i \in cj.inputs : IsSome(i.amount)
    BY <1>2, <1>4 DEF Client, IsSome
  <2>2. \A i \in cj.inputs : (CHOOSE a \in i.amount : TRUE) \in Nat
    BY <1>1, <2>1, InputFields, SomeOne
  <2>3. AmountOf(cj, Client) = [i \in cj.inputs |-> CHOOSE a \in i.amount : TRUE]
    BY <2>1 DEF AmountOf
  <2> QED BY <1>2, <1>4, <2>2, <2>3
<1> QED BY <1>3, <1>4

\* The sums it compares are numbers.
LEMMA SumsKnown ==
  ASSUME AggregatorInv, NEW errs,
         GenerateTxResult(cj, Client, errs) \in {"ok", "FeeTooLow", "InputAmountTooLow"}
  PROVE  LET t == CHOOSE t \in cj.psbt : TRUE IN
         /\ t \in cj.psbt /\ t \in SUBSET Address
         /\ InAmount(cj, Client) \in Int /\ OutAmount(t) \in Nat /\ Weight(cj, t) \in Nat
<1> DEFINE t == CHOOSE t \in cj.psbt : TRUE
<1>1. cj.psbt \in SUBSET SUBSET Address /\ IsFiniteSet(cj.inputs)
  BY DEF AggregatorInv, TypeOK, RegisteredInv
<1>2. IsSome(cj.psbt) /\ AmountOf(cj, Client) \in [cj.inputs -> Int]
  BY AmountsKnown
<1>3. t \in cj.psbt /\ t \in SUBSET Address
  BY <1>1, <1>2, SomeOne
<1> HIDE DEF t
<1>4. IsFiniteSet(t)
  BY <1>3, FS_Subset, OpsAssumption
<1>5. InAmount(cj, Client) \in Int
  BY <1>1, <1>2, SumType, InAmountSum
<1> QED BY <1>1, <1>3, <1>4, <1>5, WeightType DEF t

\* The result of a call that reports no sums.
LEMMA ResultType == ASSUME NEW err \in Errors PROVE Result(err) \in Outcome
BY DEF Result, Outcome

LEMMA AggregatorInit == Init => AggregatorInv
<1> SUFFICES ASSUME Init PROVE AggregatorInv
  OBVIOUS
<1>1. cj = [outputs |-> {}, psbt |-> {}, inputs |-> {}, tx |-> {}]
  BY DEF Init, NewCoinJoin
<1>2. TypeOK
  <2>1. cj \in [outputs : SUBSET Address, psbt : SUBSET SUBSET Address,
               inputs : SUBSET Input, tx : SUBSET Tx]
    BY <1>1
  <2>2. Cardinality(cj.psbt) <= 1 /\ Cardinality(cj.tx) <= 1
    BY <1>1, FS_EmptySet
  <2>3. \A t \in cj.tx : t.ins \subseteq cj.inputs /\ t.outs \in cj.psbt
    BY <1>1
  <2>4. res \in Outcome
    BY ResultType DEF Init, Errors
  <2>5. attached \in BOOLEAN /\ used \subseteq Address /\ known \subseteq DOMAIN TrueValue
    BY DEF Init
  <2> QED BY <2>1, <2>2, <2>3, <2>4, <2>5 DEF TypeOK
<1>3. RegisteredInv
  BY <1>1, FS_EmptySet DEF RegisteredInv
<1> QED BY <1>2, <1>3 DEF AggregatorInv

\* A call that leaves the struct alone and reports a result.
LEMMA SameStruct ==
  ASSUME AggregatorInv, UNCHANGED cj, attached' \in BOOLEAN,
         used' \subseteq Address, known' \subseteq DOMAIN TrueValue,
         res' \in Outcome
  PROVE  AggregatorInv'
BY DEF AggregatorInv, TypeOK, RegisteredInv

LEMMA AddOutputStep ==
  ASSUME AggregatorInv, NEW a \in Address, add_output(a) PROVE AggregatorInv'
<1>1. cj \in Struct
  BY DEF AggregatorInv, TypeOK, Struct
<1>2. /\ cj' \in Struct /\ cj'.psbt = cj.psbt /\ cj'.inputs = cj.inputs /\ cj'.tx = cj.tx
  BY <1>1 DEF add_output, AddOutput, Struct
<1>3. res' \in Outcome
  BY ResultType DEF add_output, Errors
<1> QED BY <1>2, <1>3 DEF AggregatorInv, TypeOK, RegisteredInv, add_output, Struct

LEMMA GeneratePsbtStep ==
  ASSUME AggregatorInv, NEW e, generate_psbt(e) PROVE AggregatorInv'
<1>1. PICK r \in GeneratePsbtResults(cj, Client, e) :
        /\ cj' = IF r = "ok" THEN GeneratePsbt(cj) ELSE cj
        /\ res' = Result(r)
  BY DEF generate_psbt
<1>2. r \in Errors
  BY DEF GeneratePsbtResults, Errors
<1>3. res' \in Outcome
  BY <1>1, <1>2, ResultType
<1>4. CASE r # "ok"
  BY <1>1, <1>3, <1>4, SameStruct DEF generate_psbt, AggregatorInv, TypeOK
<1>5. CASE r = "ok"
  <2>1. cj \in Struct /\ cj.outputs \in SUBSET Address
    BY DEF AggregatorInv, TypeOK, Struct
  <2>2. ~(Cardinality(cj.outputs) < MinPeer) /\ cj.psbt = {}
    BY <1>5 DEF GeneratePsbtResults, IsSome
  <2>3. Cardinality(cj.outputs) >= MinPeer
    BY <2>1, <2>2, FS_Subset, FS_CardinalityType, OpsAssumption
  <2>4. /\ cj' \in Struct /\ cj'.psbt = {cj.outputs} /\ cj'.inputs = cj.inputs /\ cj'.tx = cj.tx
    BY <1>1, <1>5, <2>1 DEF GeneratePsbt, Struct
  <2>5. cj.tx = {}
    BY <2>2 DEF AggregatorInv, TypeOK
  <2>6. Cardinality(cj'.psbt) <= 1
    <3>1. Cardinality({cj.outputs}) = 1
      BY SingletonCardinality
    <3> QED BY <2>4, <3>1
  <2>7. TypeOK'
    BY <1>3, <2>4, <2>5, <2>6 DEF AggregatorInv, TypeOK, generate_psbt, Struct
  <2>8. RegisteredInv'
    BY <2>3, <2>4 DEF AggregatorInv, RegisteredInv
  <2> QED BY <2>7, <2>8 DEF AggregatorInv
<1> QED BY <1>4, <1>5

LEMMA AddInputStep ==
  ASSUME AggregatorInv, NEW i \in Input, NEW e, add_input(i, e) PROVE AggregatorInv'
<1> DEFINE r == AddInputResult(cj, Client, e, i)
<1>1. /\ cj' = IF r = "ok" THEN AddInput(cj, i) ELSE cj
      /\ res' = Result(r)
  BY DEF add_input
<1>2. r \in Errors
  BY DEF AddInputResult, Errors
<1>3. res' \in Outcome
  BY <1>1, <1>2, ResultType
<1>4. CASE r # "ok"
  BY <1>1, <1>3, <1>4, SameStruct DEF add_input, AggregatorInv, TypeOK
<1>5. CASE r = "ok"
  <2>1. cj \in Struct
    BY DEF AggregatorInv, TypeOK, Struct
  <2>2. \A j \in cj.inputs : j.coin # i.coin
    BY <1>5 DEF AddInputResult
  <2>3. /\ cj' \in Struct /\ cj'.psbt = cj.psbt /\ cj'.inputs = cj.inputs \cup {i} /\ cj'.tx = cj.tx
    BY <1>1, <1>5, <2>1 DEF AddInput, Struct
  <2>4. TypeOK'
    BY <1>3, <2>3 DEF AggregatorInv, TypeOK, add_input, Struct
  <2>5. IsFiniteSet(cj'.inputs)
    BY <2>3, FS_AddElement DEF AggregatorInv, RegisteredInv
  <2>6. RegisteredInv'
    BY <2>2, <2>3, <2>5 DEF AggregatorInv, RegisteredInv
  <2> QED BY <2>4, <2>6 DEF AggregatorInv
<1> QED BY <1>4, <1>5

LEMMA GenerateTxStep ==
  ASSUME AggregatorInv, NEW e, generate_tx(e) PROVE AggregatorInv'
<1> DEFINE r == GenerateTxResult(cj, Client, e)
           t == CHOOSE t \in cj.psbt : TRUE
<1>1. /\ cj' = IF r = "ok" THEN GenerateTx(cj) ELSE cj
      /\ res' = IF r = "FeeTooLow"
                THEN [err |-> r, fee |-> InAmount(cj, Client) - OutAmount(t),
                      weight |-> Weight(cj, t)]
                ELSE Result(r)
  BY DEF generate_tx
<1>2. r \in Errors
  BY DEF GenerateTxResult, Errors
<1>3. res' \in Outcome
  <2>1. CASE r = "FeeTooLow"
    <3>1. InAmount(cj, Client) \in Int /\ OutAmount(t) \in Nat /\ Weight(cj, t) \in Nat
      BY <2>1, SumsKnown
    <3> QED BY <1>1, <1>2, <2>1, <3>1 DEF Outcome
  <2>2. CASE r # "FeeTooLow"
    BY <1>1, <1>2, <2>2, ResultType
  <2> QED BY <2>1, <2>2
<1>4. CASE r # "ok"
  BY <1>1, <1>3, <1>4, SameStruct DEF generate_tx, AggregatorInv, TypeOK
<1>5. CASE r = "ok"
  <2>1. cj \in Struct
    BY DEF AggregatorInv, TypeOK, Struct
  <2>2. t \in cj.psbt /\ t \in SUBSET Address
    BY <1>5, SumsKnown
  <2>3. Aggregate(cj) \in Tx /\ Aggregate(cj).ins = cj.inputs /\ Aggregate(cj).outs \in cj.psbt
    BY <2>1, <2>2 DEF Aggregate, Tx, Struct
  <2>4. /\ cj' \in Struct /\ cj'.psbt = cj.psbt /\ cj'.inputs = cj.inputs
        /\ cj'.tx = {Aggregate(cj)}
    BY <1>1, <1>5, <2>1, <2>3 DEF GenerateTx, Struct
  <2>5. Cardinality(cj'.tx) <= 1
    BY <2>4, SingletonCardinality
  <2>6. TypeOK'
    BY <1>3, <2>3, <2>4, <2>5 DEF AggregatorInv, TypeOK, generate_tx, Struct
  <2>7. RegisteredInv'
    BY <2>4 DEF AggregatorInv, RegisteredInv
  <2> QED BY <2>6, <2>7 DEF AggregatorInv
<1> QED BY <1>4, <1>5

LEMMA AggregatorNext == AggregatorInv /\ [Next]_vars => AggregatorInv'
<1> SUFFICES ASSUME AggregatorInv, [Next]_vars PROVE AggregatorInv'
  OBVIOUS
<1>1. ASSUME NEW a \in Address, add_output(a) PROVE AggregatorInv'
  BY <1>1, AddOutputStep
<1>2. ASSUME NEW e \in 0..MaxErrs, generate_psbt(e) PROVE AggregatorInv'
  BY <1>2, GeneratePsbtStep
<1>3. ASSUME NEW i \in Input, NEW e \in 0..MaxErrs, add_input(i, e) PROVE AggregatorInv'
  BY <1>3, AddInputStep
<1>4. ASSUME NEW e \in 0..MaxErrs, generate_tx(e) PROVE AggregatorInv'
  BY <1>4, GenerateTxStep
<1>5. CASE generate_tx_dry_run
  <2>1. res' \in Outcome
    BY <1>5, ResultType DEF generate_tx_dry_run, Errors
  <2> QED BY <1>5, <2>1, SameStruct DEF generate_tx_dry_run, AggregatorInv, TypeOK
<1>6. CASE set_client \/ drop_client
  <2>1. res' \in Outcome
    BY <1>6, ResultType DEF set_client, drop_client, Errors
  <2> QED BY <1>6, <2>1, SameStruct DEF set_client, drop_client, AggregatorInv, TypeOK
<1>7. ASSUME NEW a \in Address, AddressPaid(a) PROVE AggregatorInv'
  BY <1>7, SameStruct DEF AddressPaid, AggregatorInv, TypeOK
<1>8. ASSUME NEW c \in DOMAIN TrueValue, CoinPublished(c) PROVE AggregatorInv'
  BY <1>8, SameStruct DEF CoinPublished, AggregatorInv, TypeOK
<1>9. CASE UNCHANGED vars
  BY <1>9, SameStruct DEF vars, AggregatorInv, TypeOK
<1> QED BY <1>1, <1>2, <1>3, <1>4, <1>5, <1>6, <1>7, <1>8, <1>9 DEF Next

LEMMA AggregatorInvariant == Spec => []AggregatorInv
BY AggregatorInit, AggregatorNext, PTL DEF Spec

-----------------------------------------------------------------------------
(* The properties                                                          *)

\* The struct, the network and the results keep their types: the amounts that
\* generate_tx adds up are known whenever it adds them up, so fee and weight
\* are numbers, and what it aggregates is the template and registered inputs.
THEOREM AggregatorTypes == Spec => []TypeOK
<1>1. AggregatorInv => TypeOK
  BY DEF AggregatorInv
<1> QED BY <1>1, AggregatorInvariant, PTL

\* A final transaction has at least MinPeer outputs and spends no coin twice:
\* generate_psbt and add_input checked it, and nothing they let in is replaced
\* before generate_tx aggregates it.
THEOREM FinalTxFormed == Spec => []FinalTxWellFormed
<1>1. ASSUME AggregatorInv PROVE FinalTxWellFormed
  BY <1>1 DEF AggregatorInv, TypeOK, RegisteredInv, FinalTxWellFormed
<1> QED BY <1>1, AggregatorInvariant, PTL

\* A transaction that is finalised while a backend is attached pays the
\* feerate with the amounts on chain, whatever was declared for its inputs and
\* whenever they were registered (generate_tx reads all amounts again).
THEOREM FinalTxPays == Spec => FinalTxPaysFee
<1> DEFINE Pays(t) ==
      /\ \A i \in t.ins : i.coin \in known
      /\ LET value(i) == TrueValue[i.coin]
             in == MapThenSumSet(value, t.ins)
         IN in - OutAmount(t.outs) >= FeeRate * Weight(cj, t.outs)
<1>1. ASSUME AggregatorInv, [Next]_vars, NEW t \in cj'.tx, cj.tx = {}, attached PROVE Pays(t)
  <2>1. PICK e \in 0..MaxErrs : generate_tx(e) /\ cj' # cj
    <3>1. cj' # cj
      BY <1>1
    <3>2. ASSUME NEW a \in Address, add_output(a) PROVE FALSE
      BY <1>1, <3>2 DEF add_output, AddOutput, AggregatorInv, TypeOK
    <3>3. ASSUME NEW e, generate_psbt(e) PROVE FALSE
      BY <1>1, <3>3 DEF generate_psbt, GeneratePsbt, AggregatorInv, TypeOK
    <3>4. ASSUME NEW i \in Input, NEW e, add_input(i, e) PROVE FALSE
      BY <1>1, <3>4 DEF add_input, AddInput, AggregatorInv, TypeOK
    <3> QED BY <1>1, <3>1, <3>2, <3>3, <3>4
            DEF Next, generate_tx_dry_run, set_client, drop_client, AddressPaid, CoinPublished, vars
  <2> DEFINE s == CHOOSE s \in cj.psbt : TRUE
  <2>2. GenerateTxResult(cj, Client, e) = "ok" /\ cj' = GenerateTx(cj)
    BY <2>1 DEF generate_tx
  <2>3. t = [outs |-> s, ins |-> cj.inputs]
    BY <1>1, <2>2 DEF GenerateTx, Aggregate, AggregatorInv, TypeOK
  <2>4. /\ \A i \in cj.inputs : i.coin \in known
        /\ \A i \in cj.inputs : AmountOf(cj, Client)[i] = TrueAmount[i]
    BY <1>1, <2>2, AmountsKnown
  <2>5. InAmount(cj, Client) \in Int /\ OutAmount(s) \in Nat /\ Weight(cj, s) \in Nat
    BY <1>1, <2>2, SumsKnown
  <2>6. InAmount(cj, Client) = Sum(TrueAmount, cj.inputs)
    BY <2>4, InAmountSum, SumOfEqual
  <2>7. cj.inputs \in SUBSET Input
    BY <1>1 DEF AggregatorInv, TypeOK
  <2>8. LET value(i) == TrueValue[i.coin] IN MapThenSumSet(value, cj.inputs) = InAmount(cj, Client)
    BY <2>6, <2>7, TrueSum
  <2>9. ~FeeTooLow(InAmount(cj, Client) - OutAmount(s), Weight(cj, s))
    BY <2>2 DEF GenerateTxResult
  <2>10. FeeRate * Weight(cj, s) \in Int
    BY <2>5, OpsAssumption
  <2>11. InAmount(cj, Client) - OutAmount(s) >= FeeRate * Weight(cj, s)
    BY <2>5, <2>9, <2>10 DEF FeeTooLow
  <2> QED BY <2>3, <2>4, <2>8, <2>11
<1>2. AggregatorInv /\ [Next]_vars =>
        [\A t \in cj'.tx : cj.tx = {} /\ attached => Pays(t)]_vars
  BY <1>1
<1> QED BY <1>2, AggregatorInvariant, PTL DEF Spec, FinalTxPaysFee

\* No call replaces the template that peers sign, or the final transaction.
THEOREM TemplateKept == Spec => NeverReplaced
<1>1. ASSUME AggregatorInv, [Next]_vars
      PROVE  /\ IsSome(cj.psbt) => cj'.psbt = cj.psbt
             /\ IsSome(cj.tx) => cj'.tx = cj.tx
  <2>1. cj \in Struct
    BY <1>1 DEF AggregatorInv, TypeOK, Struct
  <2>2. ASSUME NEW a \in Address, add_output(a) PROVE cj'.psbt = cj.psbt /\ cj'.tx = cj.tx
    BY <2>1, <2>2 DEF add_output, AddOutput, Struct
  <2>3. ASSUME NEW e, generate_psbt(e)
        PROVE  (IsSome(cj.psbt) => cj'.psbt = cj.psbt) /\ cj'.tx = cj.tx
    BY <2>1, <2>3 DEF generate_psbt, GeneratePsbt, GeneratePsbtResults, Struct
  <2>4. ASSUME NEW i, NEW e, add_input(i, e) PROVE cj'.psbt = cj.psbt /\ cj'.tx = cj.tx
    BY <2>1, <2>4 DEF add_input, AddInput, Struct
  <2>5. ASSUME NEW e, generate_tx(e)
        PROVE  cj'.psbt = cj.psbt /\ (IsSome(cj.tx) => cj'.tx = cj.tx)
    BY <2>1, <2>5 DEF generate_tx, GenerateTx, GenerateTxResult, Struct
  <2> QED BY <1>1, <2>2, <2>3, <2>4, <2>5
          DEF Next, generate_tx_dry_run, set_client, drop_client, AddressPaid, CoinPublished, vars
<1>2. AggregatorInv /\ [Next]_vars =>
        [ /\ IsSome(cj.psbt) => cj'.psbt = cj.psbt
          /\ IsSome(cj.tx) => cj'.tx = cj.tx ]_vars
  BY <1>1
<1> QED BY <1>2, AggregatorInvariant, PTL DEF Spec, NeverReplaced
=============================================================================
