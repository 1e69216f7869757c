------------------------ MODULE TopologyNaming_proofs ------------------------
(* Proofs about TopologyNaming, for every set of frames, views and texts. *)
EXTENDS TopologyNaming, FiniteSetTheorems, FunctionTheorems, TLAPS

(* A library holds the keys of the frames filed in it and no others, each *)
(* under a label it was filed with; only an empty one has no hop count.   *)
Faithful(lib) ==
  /\ lib.hops = None => lib = Empty
  /\ \A k : k \in DOMAIN lib.holds <=>
              \E x \in lib.filed : k \in Keys(x.frame, x.view)
  /\ \A k \in DOMAIN lib.holds :
       \E x \in lib.filed : k \in Keys(x.frame, x.view) /\ lib.holds[k] = x.label

(* counts and matched are taken from the names next to them. *)
Tallied ==
  named.call = "classify" =>
    /\ named.counts \in Tallies(named.names)
    /\ named.matched = Cardinality({i \in Atoms : named.names[i].label # Unnamed})

TopologyInv ==
  /\ TypeOK
  /\ \A v \in Texts : Faithful(text[v])
  /\ NamesAreFiled
  /\ Tallied

(* The entries of a function that counts, for each value, the members of a *)
(* finite set with that value have the size of the set as their total.     *)
LEMMA TotalOfFibres ==
  ASSUME NEW S, IsFiniteSet(S)
  PROVE  \A g, t : /\ DOMAIN t = {g[i] : i \in S}
                   /\ \A w \in DOMAIN t : t[w] = Cardinality({i \in S : g[i] = w})
                   => Total(t) = Cardinality(S)
  <1> SUFFICES ASSUME NEW g, NEW t, DOMAIN t = {g[i] : i \in S},
                      \A w \in DOMAIN t : t[w] = Cardinality({i \in S : g[i] = w})
               PROVE  Total(t) = Cardinality(S)
    OBVIOUS
  <1> DEFINE fibre(w) == {i \in S : g[i] = w}
             slots == UNION {{w} \X (1 .. t[w]) : w \in DOMAIN t}
             number == [w \in DOMAIN t |-> CHOOSE b : b \in Bijection(1 .. t[w], fibre(w))]
             place == [p \in slots |-> number[p[1]][p[2]]]
  <1>1. \A w \in DOMAIN t : number[w] \in Bijection(1 .. t[w], fibre(w))
    <2> SUFFICES ASSUME NEW w \in DOMAIN t PROVE number[w] \in Bijection(1 .. t[w], fibre(w))
      OBVIOUS
    <2>1. IsFiniteSet(fibre(w))
      BY FS_Subset
    <2>2. ExistsBijection(1 .. t[w], fibre(w))
      BY <2>1, FS_CardinalityType
    <2>3. \E b : b \in Bijection(1 .. t[w], fibre(w))
      BY <2>2 DEF ExistsBijection
    <2> QED BY <2>3
  <1>2. ASSUME NEW w \in DOMAIN t
        PROVE  /\ \A k \in 1 .. t[w] : number[w][k] \in S /\ g[number[w][k]] = w
               /\ \A k, l \in 1 .. t[w] : number[w][k] = number[w][l] => k = l
               /\ \A i \in S : g[i] = w => \E k \in 1 .. t[w] : number[w][k] = i
    <2> DEFINE b == number[w]
    <2>1. b \in Bijection(1 .. t[w], fibre(w))
      BY <1>1
    <2> HIDE DEF b
    <2>2. /\ b \in [1 .. t[w] -> fibre(w)]
          /\ \A k, l \in 1 .. t[w] : b[k] = b[l] => k = l
          /\ \A i \in fibre(w) : \E k \in 1 .. t[w] : b[k] = i
      <3> DEFINE range == 1 .. t[w]
                 own == fibre(w)
      <3>1. b \in Bijection(range, own)
        BY <2>1
      <3> HIDE DEF range, own
      <3>2. /\ b \in [range -> own]
            /\ \A k, l \in range : b[k] = b[l] => k = l
            /\ \A i \in own : \E k \in range : b[k] = i
        BY <3>1, Fun_BijectionProperties
      <3> QED BY <3>2 DEF range, own
    <2>3. /\ \A k \in 1 .. t[w] : b[k] \in S /\ g[b[k]] = w
          /\ \A i \in S : g[i] = w => \E k \in 1 .. t[w] : b[k] = i
      BY <2>2
    <2> QED BY <2>2, <2>3 DEF b
  <1> HIDE DEF number
  <1>3. \A p \in slots : /\ p[1] \in DOMAIN t /\ p[2] \in 1 .. t[p[1]]
                         /\ p = <<p[1], p[2]>>
    OBVIOUS
  <1>4. \A w \in DOMAIN t : \A k \in 1 .. t[w] : <<w, k>> \in slots
    OBVIOUS
  <1> HIDE DEF slots
  <1>5. place \in [slots -> S]
    BY <1>2, <1>3
  <1>6. ASSUME NEW p \in slots, NEW q \in slots, place[p] = place[q] PROVE p = q
    <2>1. number[p[1]][p[2]] = number[q[1]][q[2]]
      BY <1>6
    <2>2. p[1] = q[1]
      BY <1>2, <1>3, <2>1
    <2>3. p[2] = q[2]
      BY <1>2, <1>3, <2>1, <2>2
    <2> QED BY <1>3, <2>2, <2>3
  <1>7. ASSUME NEW i \in S PROVE \E p \in slots : place[p] = i
    <2>1. PICK k \in 1 .. t[g[i]] : number[g[i]][k] = i
      BY <1>2
    <2>2. <<g[i], k>> \in slots
      BY <1>4, <2>1
    <2>3. place[<<g[i], k>>] = i
      BY <2>1, <2>2
    <2> QED BY <2>2, <2>3
  <1>8. place \in Bijection(slots, S)
    BY <1>5, <1>6, <1>7, Fun_IsBij
  <1>9. ExistsBijection(S, slots)
    BY <1>8, Fun_ExistsBijSymmetric DEF ExistsBijection
  <1>10. Cardinality(slots) = Cardinality(S)
    BY <1>9, FS_Bijection
  <1> QED BY <1>10 DEF Total, slots

LEMMA EmptyFaithful == Library(Empty) /\ Faithful(Empty)
  BY DEF Empty, Library, Faithful

LEMMA ViewsTyped == ASSUME NEW o \in Options PROVE View(o) \in Views
  BY TopologyAssumption DEF View, Views, OrTwo

(* Filing a frame keeps a library faithful, whatever the engine makes of *)
(* keys and headers it already has.                                      *)
LEMMA AddedFaithful ==
  ASSUME NEW lib, Library(lib), Faithful(lib), NEW f \in Frames, NEW s \in Views,
         NEW label \in Labels, NEW new \in Added(lib, f, s, label, lib.filed)
  PROVE  Library(new) /\ Faithful(new)
  <1> DEFINE x == [frame |-> f, view |-> s, label |-> label]
  <1>1. PICK h \in ({s.hops, lib.hops} \ {None}), keeps \in BOOLEAN :
          new = [hops  |-> h,
                 holds |-> [k \in DOMAIN lib.holds \cup Keys(f, s) |->
                             IF k \in DOMAIN lib.holds /\ (k \in Keys(f, s) => keeps)
                             THEN lib.holds[k] ELSE label],
                 filed |-> lib.filed \cup {x}]
    BY DEF Added
  <1>2. x \in Filings /\ x.frame = f /\ x.view = s /\ x.label = label
    BY DEF Filings
  <1>3. Keys(f, s) \subseteq AllKeys
    BY DEF AllKeys
  <1>4. Library(new)
    <2>1. DOMAIN new = {"hops", "holds", "filed"}
      BY <1>1
    <2>2. new.hops \in Hops \cup {None}
      BY <1>1 DEF Library, Views
    <2>3. new.filed \subseteq Filings
      BY <1>1, <1>2 DEF Library
    <2>4. DOMAIN new.holds = DOMAIN lib.holds \cup Keys(f, s)
      BY <1>1
    <2>5. DOMAIN new.holds \subseteq AllKeys
      BY <1>3, <2>4 DEF Library
    <2>6. new.holds \in [DOMAIN new.holds -> Labels]
      BY <1>1 DEF Library
    <2> QED BY <2>1, <2>2, <2>3, <2>5, <2>6 DEF Library
  <1>5. Faithful(new)
    <2>1. ASSUME NEW k
          PROVE  k \in DOMAIN new.holds <=> \E y \in new.filed : k \in Keys(y.frame, y.view)
      BY <1>1, <1>2 DEF Faithful
    <2>2. ASSUME NEW k \in DOMAIN new.holds
          PROVE  \E y \in new.filed : k \in Keys(y.frame, y.view) /\ new.holds[k] = y.label
      <3>1. CASE k \in DOMAIN lib.holds /\ (k \in Keys(f, s) => keeps)
        BY <1>1, <3>1 DEF Faithful
      <3>2. CASE ~(k \in DOMAIN lib.holds /\ (k \in Keys(f, s) => keeps))
        <4>1. k \in Keys(f, s) /\ new.holds[k] = label
          BY <1>1, <2>2, <3>2
        <4>2. x \in new.filed
          BY <1>1
        <4> QED BY <1>2, <4>1, <4>2
      <3> QED BY <3>1, <3>2
    <2>3. new.hops # None
      BY <1>1
    <2> QED BY <2>1, <2>2, <2>3 DEF Faithful
  <1> QED BY <1>4, <1>5

-----------------------------------------------------------------------------
(* What a faithful library offers an atom is what was filed that looks like *)
(* it.                                                                      *)
LEMMA OffersAreFiled ==
  ASSUME NEW lib, Library(lib), Faithful(lib), NEW f, NEW s, NEW i \in Atoms
  PROVE  /\ \A b \in Offers(lib, f, s, i) :
              /\ b.depth = s.hops
              /\ b.label \in Labels
              /\ \E x \in lib.filed : /\ x.view = s /\ x.label = b.label
                                      /\ \E j \in Atoms : Class[f][s][i] = Class[x.frame][s][j]
         /\ \A x \in lib.filed :
              x.view = s /\ (\E j \in Atoms : Class[f][s][i] = Class[x.frame][s][j])
                => \E b \in Offers(lib, f, s, i) : b.depth = s.hops
  <1> DEFINE k == Key(f, s, i)
  <1>1. ASSUME NEW x
        PROVE  k \in Keys(x.frame, x.view) <=>
                 x.view = s /\ \E j \in Atoms : Class[f][s][i] = Class[x.frame][s][j]
    BY DEF Key, Keys
  <1>2. ASSUME NEW b \in Offers(lib, f, s, i)
        PROVE  /\ b.depth = s.hops
               /\ b.label \in Labels
               /\ \E x \in lib.filed : /\ x.view = s /\ x.label = b.label
                                       /\ \E j \in Atoms : Class[f][s][i] = Class[x.frame][s][j]
    <2>1. k \in DOMAIN lib.holds /\ b = [label |-> lib.holds[k], depth |-> s.hops]
      BY DEF Offers
    <2>2. b.label = lib.holds[k] /\ b.depth = s.hops
      BY <2>1
    <2>3. lib.holds[k] \in Labels
      BY <2>1 DEF Library
    <2>4. PICK x \in lib.filed : k \in Keys(x.frame, x.view) /\ lib.holds[k] = x.label
      BY <2>1 DEF Faithful
    <2> QED BY <1>1, <2>2, <2>3, <2>4
  <1>3. ASSUME NEW x \in lib.filed, x.view = s,
               \E j \in Atoms : Class[f][s][i] = Class[x.frame][s][j]
        PROVE  \E b \in Offers(lib, f, s, i) : b.depth = s.hops
    <2>1. k \in Keys(x.frame, x.view)
      BY <1>1, <1>3
    <2>2. k \in DOMAIN lib.holds
      BY <2>1 DEF Faithful
    <2>3. [label |-> lib.holds[k], depth |-> s.hops] \in Offers(lib, f, s, i)
      BY <2>2 DEF Offers
    <2> QED BY <2>3
  <1> QED BY <1>2, <1>3

(* A result packed from the deepest offers of the texts used, each looked  *)
(* up in its view, is typed and names atoms as they were filed.            *)
LEMMA ClassifiedNames ==
  ASSUME TopologyInv, NEW f \in Frames, NEW o \in Options, NEW used \in SUBSET Texts,
         NEW form \in {"text", "sequence"}, Classify(f, o, form, used)
  PROVE  TopologyInv'
  <1> USE DEF TopologyInv
  <1> DEFINE look == [v \in used |-> MatchView(v, form, o)]
             found(i) == UNION {Offers(text[v], f, look[v], i) : v \in used}
             offered == [i \in Atoms |->
               Deepest(UNION {Offers(text[v], f, MatchView(v, form, o), i) : v \in used})]
             packed(names, tally) ==
               [call |-> "classify", frame |-> f, opts |-> o, form |-> form,
                texts |-> used, names |-> names, counts |-> tally,
                matched |-> Cardinality({i \in Atoms : names[i].label # Unnamed})]
  <1>1. PICK names \in [Atoms -> UNION {offered[i] : i \in Atoms}] :
          /\ \A i \in Atoms : names[i] \in offered[i]
          /\ \E tally \in Tallies(names) : named' = packed(names, tally)
    BY DEF Classify
  <1>2. PICK tally \in Tallies(names) : named' = packed(names, tally)
    BY <1>1
  <1>3. /\ named'.call = "classify" /\ named'.frame = f /\ named'.opts = o
        /\ named'.form = form /\ named'.texts = used /\ named'.names = names
        /\ named'.counts = tally
    BY <1>2
  <1>4. text' = text /\ \A v \in used : text[v] # Empty
    BY DEF Classify
  <1>5a. \A v \in used : look[v] = LookedUp(v)' /\ look[v].hops \in Hops
    <2>1. ASSUME NEW v \in used PROVE look[v] = LookedUp(v)'
      BY <1>3, <1>4 DEF LookedUp, MatchView, View, NamingView
    <2>2. ASSUME NEW v \in used PROVE look[v].hops \in Hops
      <3>1. text[v].hops \in Hops
        BY <1>4 DEF TypeOK, Library, Faithful
      <3>2. NamingView(o).hops \in Hops
        BY TopologyAssumption DEF NamingView, OrTwo
      <3> QED BY <3>1, <3>2 DEF MatchView
    <2> QED BY <2>1, <2>2
  <1>5b. ASSUME NEW i \in Atoms PROVE offered[i] = Deepest(found(i))
    <2>1. found(i) = UNION {Offers(text[v], f, MatchView(v, form, o), i) : v \in used}
      OBVIOUS
    <2> QED BY <2>1
  <1> HIDE DEF look, offered
  <1>5. ASSUME NEW i \in Atoms, NEW v \in used
        PROVE  /\ \A b \in Offers(text[v], f, look[v], i) :
                    /\ b.depth = look[v].hops
                    /\ b.label \in Labels
                    /\ \E x \in text[v].filed :
                         /\ x.view = look[v] /\ x.label = b.label
                         /\ \E j \in Atoms : Class[f][look[v]][i] = Class[x.frame][look[v]][j]
               /\ \A x \in text[v].filed :
                    x.view = look[v] /\ (\E j \in Atoms :
                        Class[f][look[v]][i] = Class[x.frame][look[v]][j])
                      => \E b \in Offers(text[v], f, look[v], i) : b.depth = look[v].hops
    <2>1. Library(text[v]) /\ Faithful(text[v])
      BY DEF TypeOK
    <2> QED BY <2>1, OffersAreFiled
  <1>6. ASSUME NEW i \in Atoms
        PROVE  \/ found(i) = {} /\ names[i] = [label |-> Unnamed, depth |-> 0]
               \/ names[i] \in found(i) /\ \A c \in found(i) : c.depth <= names[i].depth
    BY <1>1, <1>5b DEF Deepest
  <1>7. ASSUME NEW i \in Atoms, NEW v \in used, NEW x \in Filings
        PROVE  Seen(v, i, x)' <=>
                 /\ x \in text[v].filed
                 /\ x.view = look[v]
                 /\ \E j \in Atoms : Class[f][look[v]][i] = Class[x.frame][look[v]][j]
    BY <1>3, <1>4, <1>5a DEF Seen
  <1>8. ASSUME NEW i \in Atoms
        PROVE  /\ names[i].label \in Labels \cup {Unnamed} /\ names[i].depth \in Hops \cup {0}
               /\ \A v \in used : \A x \in Filings :
                     Seen(v, i, x)' => x.view.hops <= names[i].depth
               /\ IF names[i].label = Unnamed THEN names[i].depth = 0
                  ELSE \E v \in used : \E x \in Filings :
                         /\ Seen(v, i, x)' /\ x.label = names[i].label
                         /\ x.view.hops = names[i].depth
    <2>1. CASE found(i) = {} /\ names[i] = [label |-> Unnamed, depth |-> 0]
      <3>1. names[i].label = Unnamed /\ names[i].depth = 0
        BY <2>1
      <3>2. ASSUME NEW v \in used, NEW x \in Filings, Seen(v, i, x)' PROVE FALSE
        <4>1. /\ x \in text[v].filed /\ x.view = look[v]
              /\ \E j \in Atoms : Class[f][look[v]][i] = Class[x.frame][look[v]][j]
          BY <1>7, <3>2
        <4>2. PICK b \in Offers(text[v], f, look[v], i) : b.depth = look[v].hops
          BY <1>5, <4>1
        <4>3. b \in found(i)
          BY <4>2
        <4> HIDE DEF found
        <4> QED BY <2>1, <4>3
      <3> QED BY <3>1, <3>2
    <2>2. CASE names[i] \in found(i) /\ \A c \in found(i) : c.depth <= names[i].depth
      <3>1. PICK v \in used : names[i] \in Offers(text[v], f, look[v], i)
        BY <2>2
      <3>2. names[i].depth = look[v].hops /\ names[i].label \in Labels
        BY <1>5, <3>1
      <3>3. PICK x \in text[v].filed :
              /\ x.view = look[v] /\ x.label = names[i].label
              /\ \E j \in Atoms : Class[f][look[v]][i] = Class[x.frame][look[v]][j]
        BY <1>5, <3>1
      <3>4. x \in Filings
        BY DEF TypeOK, Library
      <3>5. Seen(v, i, x)'
        BY <1>7, <3>3, <3>4
      <3>6. ASSUME NEW w \in used, NEW y \in Filings, Seen(w, i, y)'
            PROVE  y.view.hops <= names[i].depth
        <4>3. /\ y \in text[w].filed /\ y.view = look[w]
              /\ \E j \in Atoms : Class[f][look[w]][i] = Class[y.frame][look[w]][j]
          BY <1>7, <3>6
        <4>1. PICK b \in Offers(text[w], f, look[w], i) : b.depth = look[w].hops
          BY <1>5, <4>3
        <4>2. b \in found(i)
          BY <4>1
        <4> QED BY <2>2, <4>1, <4>2, <4>3
      <3>7. names[i].label # Unnamed
        BY <3>2, TopologyAssumption
      <3>8. x.view.hops = names[i].depth
        BY <3>2, <3>3
      <3>9. \E w \in used : \E y \in Filings :
              Seen(w, i, y)' /\ y.label = names[i].label /\ y.view.hops = names[i].depth
        BY <3>3, <3>4, <3>5, <3>8
      <3>10. names[i].depth \in Hops
        BY <1>5a, <3>2
      <3> QED BY <3>2, <3>6, <3>7, <3>9, <3>10
    <2> QED BY <1>6, <2>1, <2>2
  <1>9. TypeOK'
    <2>1. ASSUME NEW i \in Atoms
          PROVE  names[i] \in [label : Labels \cup {Unnamed}, depth : Hops \cup {0}]
      <3>1. CASE names[i] = [label |-> Unnamed, depth |-> 0]
        BY <3>1
      <3>2. CASE names[i] \in found(i)
        <4>1. PICK v \in used : names[i] \in Offers(text[v], f, look[v], i)
          BY <3>2
        <4>2. PICK l, d : names[i] = [label |-> l, depth |-> d]
          BY <4>1 DEF Offers
        <4> QED BY <1>8, <4>2
      <3> QED BY <1>6, <3>1, <3>2
    <2>2. names \in [Atoms -> [label : Labels \cup {Unnamed}, depth : Hops \cup {0}]]
      BY <2>1
    <2>3. DOMAIN tally = {CountedAs(names[i].label) : i \in Atoms}
      BY DEF Tallies
    <2>4. DOMAIN tally \subseteq Labels \cup {"unmatched"}
      BY <1>8, <2>3 DEF CountedAs
    <2>5. DOMAIN text' = Texts /\ \A v \in Texts : Library(text'[v])
      BY <1>4 DEF TypeOK
    <2> QED BY <1>3, <2>2, <2>4, <2>5 DEF TypeOK, Library
  <1>10. NamesAreFiled'
    BY <1>3, <1>8 DEF NamesAreFiled
  <1>11. \A v \in Texts : Faithful(text[v])'
    BY <1>4 DEF Faithful
  <1>12. Tallied'
    <2>1. named'.matched = Cardinality({i \in Atoms : names[i].label # Unnamed})
      BY <1>2
    <2> QED BY <1>3, <2>1 DEF Tallied
  <1> QED BY <1>9, <1>10, <1>11, <1>12

-----------------------------------------------------------------------------
LEMMA TopologyInvInit == Init => TopologyInv
  <1> SUFFICES ASSUME Init PROVE TopologyInv
    OBVIOUS
  <1>1. \A v \in Texts : text[v] = Empty
    BY DEF Init
  <1> QED BY <1>1, EmptyFaithful DEF Init, TopologyInv, TypeOK, NamesAreFiled, Tallied, Quiet

LEMMA TopologyInvStep == TopologyInv /\ [Next]_vars => TopologyInv'
  <1> SUFFICES ASSUME TopologyInv, [Next]_vars PROVE TopologyInv'
    OBVIOUS
  <1> USE DEF TopologyInv
  <1>1. ASSUME NEW v \in Texts, NEW f \in Frames, NEW label \in Labels, NEW o \in Options,
               NEW from \in Texts \cup {None}, TopologyLibrary(v, f, label, o, from)
        PROVE  TopologyInv'
    <2>1. Library(Existing(from)) /\ Faithful(Existing(from))
      BY EmptyFaithful DEF Existing, TypeOK
    <2>2. FiledIn(from) = Existing(from).filed
      BY DEF FiledIn, Existing, Empty
    <2>3. PICK lib \in Added(Existing(from), f, View(o), label, Existing(from).filed) :
            text' = [text EXCEPT ![v] = lib]
      BY <1>1, <2>2 DEF TopologyLibrary
    <2>4. Library(lib) /\ Faithful(lib)
      BY <2>1, <2>3, ViewsTyped, AddedFaithful
    <2>5. \A w \in Texts : Library(text'[w]) /\ Faithful(text'[w])
      BY <2>3, <2>4 DEF TypeOK
    <2>6. DOMAIN text' = Texts
      BY <2>3 DEF TypeOK
    <2>7. named' = [call |-> "none"]
      BY <1>1 DEF TopologyLibrary, Quiet
    <2>8. named'.call # "classify"
      BY <2>7
    <2> QED BY <2>5, <2>6, <2>8 DEF TypeOK, NamesAreFiled, Tallied, Faithful, Library
  <1>2. ASSUME Raised PROVE TopologyInv'
    <2>1. named'.call # "classify" /\ text' = text
      BY <1>2 DEF Raised
    <2> QED BY <2>1 DEF TypeOK, NamesAreFiled, Tallied, Faithful, Library
  <1>3. ASSUME NEW f \in Frames, NEW o \in Options, NEW v \in Texts,
               Classify(f, o, "text", {v})
        PROVE  TopologyInv'
    BY <1>3, ClassifiedNames
  <1>4. ASSUME NEW f \in Frames, NEW o \in Options, NEW used \in SUBSET Texts,
               Classify(f, o, "sequence", used)
        PROVE  TopologyInv'
    BY <1>4, ClassifiedNames
  <1>5. CASE UNCHANGED vars
    BY <1>5 DEF vars, TypeOK, Faithful, Library, NamesAreFiled, Seen, LookedUp, Tallied
  <1> QED BY <1>1, <1>2, <1>3, <1>4, <1>5 DEF Next, LibraryRaises, ClassifyRaises

(* Every state of every script is of its type (topologyLibrary,           *)
(* classifyTopology).                                                     *)
THEOREM TopologyTyped == Spec => []TypeOK
  <1>1. TopologyInv => TypeOK
    BY DEF TopologyInv
  <1> QED BY TopologyInvInit, TopologyInvStep, <1>1, PTL DEF Spec

(* However texts were grown and copied, a named atom looks like one filed  *)
(* under its name at its depth, and an unnamed one like none               *)
(* (classifyTopology).                                                     *)
THEOREM NamesComeFromFilings == Spec => []NamesAreFiled
  <1>1. TopologyInv => NamesAreFiled
    BY DEF TopologyInv
  <1> QED BY TopologyInvInit, TopologyInvStep, <1>1, PTL DEF Spec

(* A frame filed in a text is named completely by it ever after            *)
(* (topologyLibrary's extension of an existing text).                      *)
THEOREM FiledFramesAreNamed == Spec => []OwnFrameNamed
  <1>1. TopologyInv => OwnFrameNamed
    <2> SUFFICES ASSUME TopologyInv, named.call = "classify",
                        NEW v \in named.texts, NEW x \in text[v].filed,
                        x.frame = named.frame, x.view = View(named.opts),
                        named.form = "sequence" => text[v].hops = x.view.hops,
                        NEW i \in Atoms
                 PROVE  named.names[i].label # Unnamed
      BY DEF OwnFrameNamed
    <2>1. x \in Filings /\ named.form \in {"text", "sequence"}
      BY DEF TopologyInv, TypeOK, Library
    <2>2. x.view = LookedUp(v)
      BY <2>1 DEF LookedUp, View
    <2>3. Seen(v, i, x)
      BY <2>2 DEF Seen
    <2>4. x.view.hops <= named.names[i].depth
      BY <2>1, <2>3 DEF TopologyInv, NamesAreFiled
    <2>5. x.view.hops \in Nat \ {0}
      BY <2>1, TopologyAssumption DEF Filings, Views
    <2>6. named.names[i].depth # 0
      BY <2>4, <2>5
    <2> QED BY <2>6 DEF TopologyInv, NamesAreFiled
  <1> QED BY TopologyInvInit, TopologyInvStep, <1>1, PTL DEF Spec

(* As long as no atom is named by the word for those nobody names, each    *)
(* entry of counts is that of one label.                                   *)
LEMMA CountsOfLabels ==
  ASSUME TopologyInv, named.call = "classify",
         \A i \in Atoms : named.names[i].label # "unmatched"
  PROVE  LET of(w) == IF w \in DOMAIN named.counts THEN named.counts[w] ELSE 0
         IN  /\ named.matched + of("unmatched") = Cardinality(Atoms)
             /\ Total(named.counts) = Cardinality(Atoms)
  <1> DEFINE names == named.names
             word == [i \in Atoms |-> CountedAs(names[i].label)]
             allNamed == {i \in Atoms : names[i].label # Unnamed}
             rest == {i \in Atoms : names[i].label = Unnamed}
  <1>2. ASSUME NEW i \in Atoms, NEW j \in Atoms
        PROVE  word[i] = word[j] <=> names[i].label = names[j].label
    BY DEF CountedAs
  <1>3. /\ DOMAIN named.counts = {word[i] : i \in Atoms}
        /\ \A w \in DOMAIN named.counts : \E i \in Atoms :
              /\ word[i] = w
              /\ named.counts[w] = Cardinality({j \in Atoms : names[j].label = names[i].label})
    BY DEF TopologyInv, Tallied, Tallies
  <1>4. ASSUME NEW w \in DOMAIN named.counts
        PROVE  named.counts[w] = Cardinality({j \in Atoms : word[j] = w})
    <2>1. PICK i \in Atoms :
            /\ word[i] = w
            /\ named.counts[w] = Cardinality({j \in Atoms : names[j].label = names[i].label})
      BY <1>3
    <2>2. {j \in Atoms : names[j].label = names[i].label} = {j \in Atoms : word[j] = w}
      BY <1>2, <2>1
    <2> QED BY <2>1, <2>2
  <1>5. \A i \in Atoms : word[i] = "unmatched" <=> i \in rest
    BY DEF CountedAs
  <1>6. {j \in Atoms : word[j] = "unmatched"} = rest
    BY <1>5
  <1> HIDE DEF word
  <1>7. Total(named.counts) = Cardinality(Atoms)
    <2>1. IsFiniteSet(Atoms)
      BY TopologyAssumption
    <2>2. \A g, t : /\ DOMAIN t = {g[i] : i \in Atoms}
                    /\ \A w \in DOMAIN t : t[w] = Cardinality({i \in Atoms : g[i] = w})
                    => Total(t) = Cardinality(Atoms)
      BY <2>1, TotalOfFibres
    <2> DEFINE counts == named.counts
    <2>3. /\ DOMAIN counts = {word[i] : i \in Atoms}
          /\ \A w \in DOMAIN counts : counts[w] = Cardinality({i \in Atoms : word[i] = w})
      BY <1>3, <1>4
    <2> HIDE DEF counts
    <2>4. Total(counts) = Cardinality(Atoms)
      BY <2>2, <2>3, Zenon
    <2> QED BY <2>4 DEF counts
  <1>8. IsFiniteSet(allNamed) /\ IsFiniteSet(rest)
    BY FS_Subset, TopologyAssumption
  <1>9. allNamed \cup rest = Atoms /\ allNamed \cap rest = {}
    OBVIOUS
  <1>10. Cardinality(allNamed) + Cardinality(rest) = Cardinality(Atoms)
    <2> HIDE DEF allNamed, rest
    <2>1. Cardinality(allNamed \cup rest)
            = Cardinality(allNamed) + Cardinality(rest) - Cardinality(allNamed \cap rest)
      BY <1>8, FS_Union
    <2>2. Cardinality(allNamed) \in Nat /\ Cardinality(rest) \in Nat
      BY <1>8, FS_CardinalityType
    <2>3. Cardinality({}) = 0
      BY FS_EmptySet
    <2>4. /\ Cardinality(allNamed \cup rest) = Cardinality(Atoms)
          /\ Cardinality(allNamed \cap rest) = 0
      BY <1>9, <2>3, Zenon
    <2> QED BY <2>1, <2>2, <2>4
  <1>11. (IF "unmatched" \in DOMAIN named.counts THEN named.counts["unmatched"] ELSE 0)
           = Cardinality(rest)
    <2>1. CASE "unmatched" \in DOMAIN named.counts
      BY <1>4, <1>6, <2>1
    <2>2. CASE "unmatched" \notin DOMAIN named.counts
      <3>1. rest = {}
        BY <1>3, <1>5, <2>2
      <3> QED BY <2>2, <3>1, FS_EmptySet
    <2> QED BY <2>1, <2>2
  <1>12. named.matched = Cardinality(allNamed)
    BY DEF TopologyInv, Tallied
  <1> QED BY <1>7, <1>10, <1>11, <1>12

(* For scripts whose labels are not the word for atoms nobody names: counts *)
(* has every atom once, and matched and unmatched make up all, however many *)
(* atoms and labels there are (classifyTopology).  Without the assumption   *)
(* it does not hold.                                                        *)
THEOREM CountsHaveEveryAtom ==
  ASSUME "unmatched" \notin Labels
  PROVE  Spec => []CountsAddUp
  <1>1. TopologyInv => CountsAddUp
    <2> SUFFICES ASSUME TopologyInv, named.call = "classify" PROVE CountsAddUp
      BY DEF CountsAddUp
    <2>1. ASSUME NEW i \in Atoms PROVE named.names[i].label # "unmatched"
      <3>1. named.names[i].label \in Labels \cup {Unnamed}
        BY DEF TopologyInv, TypeOK
      <3> QED BY <3>1 DEF Unnamed
    <2> QED BY <2>1, CountsOfLabels DEF CountsAddUp
  <1> QED BY TopologyInvInit, TopologyInvStep, <1>1, PTL DEF Spec
=============================================================================
