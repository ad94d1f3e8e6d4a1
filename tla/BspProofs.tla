----------------------------- MODULE BspProofs -----------------------------
(***************************************************************************)
(* The nodes of a bsp tag form one tree, and the boxes in it are those of  *)
(* an arrangement from scratch, whatever the number of containers and      *)
(* whatever the order of insertions, removals and updates.                 *)
(***************************************************************************)
EXTENDS Bsp, TLAPS

(* The tree t with root r, as OneTree says it of the variables.            *)
Rooted(t, r) ==
  /\ \A n \in t.live : t.parent[n] = NULL <=> n = r
  /\ r = NULL <=> t.live = {}
  /\ r # NULL => r \in t.live

Tree(t, r) == t \in Forest /\ Linked(t) /\ Acyclic(t) /\ Rooted(t, r)

----------------------------------------------------------------------------
(* The child pointers after bsp_node_reparent: at most one of them moves.  *)
LEMMA ReplaceFields ==
  ASSUME NEW t \in Forest, NEW q, NEW old, NEW new
  PROVE  LET u == Replace(t, q, old, new)
         IN  /\ u.live = t.live /\ u.enabled = t.enabled /\ u.parent = t.parent
             /\ u.left  = [i \in Internal |-> IF i = q /\ t.left[i] = old
                                              THEN new ELSE t.left[i]]
             /\ u.right = [i \in Internal |-> IF i = q /\ t.right[i] = old
                                              THEN new ELSE t.right[i]]
  BY DEF Replace, Forest

(* The nodes _bsp_insert_container leaves behind, field by field.          *)
AfterSplit(t, u, sib, new, p, pos) ==
  LET gp == t.parent[sib]
  IN  /\ u.live = t.live \cup {new, p}
      /\ u.enabled = t.enabled \cup {new, p}
      /\ u.parent = [n \in Node |-> IF n = sib \/ n = new THEN p
                                    ELSE IF n = p THEN gp ELSE t.parent[n]]
      /\ u.left  = [i \in Internal |->
                      IF i = p THEN (IF pos = RIGHT THEN sib ELSE new)
                      ELSE IF i = gp /\ t.left[i] = sib THEN p ELSE t.left[i]]
      /\ u.right = [i \in Internal |->
                      IF i = p THEN (IF pos = RIGHT THEN new ELSE sib)
                      ELSE IF i = gp /\ t.right[i] = sib THEN p ELSE t.right[i]]

(* The nodes after _bsp_insert_container has split a leaf.                 *)
LEMMA SplitFields ==
  ASSUME NEW t \in Forest, NEW sib, NEW new, NEW p \in Internal, NEW pos,
         new # sib, new # p, sib # p
  PROVE  AfterSplit(t, SplitLeaf(t, sib, new, p, pos), sib, new, p, pos)
<1> DEFINE gp == t.parent[sib]
           v  == Replace(t, gp, sib, p)
           u  == SplitLeaf(t, sib, new, p, pos)
<1>1. u.live = t.live \cup {new, p} /\ u.enabled = t.enabled \cup {new, p}
  BY DEF SplitLeaf
<1>2. u.parent = [n \in Node |-> IF n = sib \/ n = new THEN p
                                ELSE IF n = p THEN gp ELSE t.parent[n]]
  BY DEF SplitLeaf, Forest
<1>3. /\ v.left  = [i \in Internal |-> IF i = gp /\ t.left[i] = sib
                                       THEN p ELSE t.left[i]]
      /\ v.right = [i \in Internal |-> IF i = gp /\ t.right[i] = sib
                                       THEN p ELSE t.right[i]]
  BY ReplaceFields
<1>4. /\ u.left  = [v.left  EXCEPT ![p] = IF pos = RIGHT THEN sib ELSE new]
      /\ u.right = [v.right EXCEPT ![p] = IF pos = RIGHT THEN new ELSE sib]
  BY DEF SplitLeaf
<1> HIDE DEF v, u
<1>5. u.left = [i \in Internal |->
                  IF i = p THEN (IF pos = RIGHT THEN sib ELSE new)
                  ELSE IF i = gp /\ t.left[i] = sib THEN p ELSE t.left[i]]
  BY <1>3, <1>4
<1>6. u.right = [i \in Internal |->
                   IF i = p THEN (IF pos = RIGHT THEN new ELSE sib)
                   ELSE IF i = gp /\ t.right[i] = sib THEN p ELSE t.right[i]]
  BY <1>3, <1>4
<1> QED BY <1>1, <1>2, <1>5, <1>6 DEF u, AfterSplit

(* Splitting a leaf of a tree leaves a tree: p becomes the root when the   *)
(* leaf was it.                                                            *)
LEMMA SplitKeepsTree ==
  ASSUME NEW t, NEW r, Tree(t, r),
         NEW sib \in Container \cap t.live, NEW new \in Container \ t.live,
         NEW p \in Internal \ t.live, NEW pos
  PROVE  Tree(SplitLeaf(t, sib, new, p, pos), IF r = sib THEN p ELSE r)
<1> DEFINE gp == t.parent[sib]
           u  == SplitLeaf(t, sib, new, p, pos)
<1>1. t \in Forest /\ Linked(t) /\ Acyclic(t) /\ Rooted(t, r)
  BY DEF Tree
<1>2. new # sib /\ new # p /\ sib # p /\ NULL \notin Node /\ p \in Internal
  BY BspTreeAssumption DEF Node
<1>3. /\ u.live = t.live \cup {new, p}
      /\ u.enabled = t.enabled \cup {new, p}
      /\ u.parent = [n \in Node |-> IF n = sib \/ n = new THEN p
                                    ELSE IF n = p THEN gp ELSE t.parent[n]]
      /\ u.left  = [i \in Internal |->
                      IF i = p THEN (IF pos = RIGHT THEN sib ELSE new)
                      ELSE IF i = gp /\ t.left[i] = sib THEN p ELSE t.left[i]]
      /\ u.right = [i \in Internal |->
                      IF i = p THEN (IF pos = RIGHT THEN new ELSE sib)
                      ELSE IF i = gp /\ t.right[i] = sib THEN p ELSE t.right[i]]
  <2>1. AfterSplit(t, u, sib, new, p, pos)
    BY <1>1, <1>2, SplitFields
  <2> QED BY <2>1 DEF AfterSplit
<1>4. /\ t.live \subseteq Node /\ t.enabled \subseteq Node
      /\ t.parent \in [Node -> Internal \cup {NULL}]
      /\ t.left \in [Internal -> Node \cup {NULL}]
      /\ t.right \in [Internal -> Node \cup {NULL}]
  BY <1>1 DEF Forest
<1>5. gp \in Internal \cup {NULL} /\ p \in Node /\ sib \in Node /\ new \in Node
  BY <1>4 DEF Node
<1>6. u \in Forest
  <2>1. u = [live |-> u.live, enabled |-> u.enabled, parent |-> u.parent,
             left |-> u.left, right |-> u.right]
    BY DEF SplitLeaf
  <2> HIDE DEF u
  <2>2. u.live \subseteq Node /\ u.enabled \subseteq Node
    BY <1>3, <1>4, <1>5
  <2>3. u.parent \in [Node -> Internal \cup {NULL}]
    BY <1>3, <1>4, <1>5
  <2>4. /\ u.left \in [Internal -> Node \cup {NULL}]
        /\ u.right \in [Internal -> Node \cup {NULL}]
    BY <1>3, <1>4, <1>5
  <2> QED BY <2>1, <2>2, <2>3, <2>4 DEF Forest
<1> HIDE DEF u
<1>7. Linked(u)
  <2>1. \A n \in Node \ u.live : u.parent[n] = NULL
    BY <1>1, <1>3, <1>4 DEF Linked
  <2>2. \A i \in Internal \ u.live : Children(u, i) = {NULL}
    <3> SUFFICES ASSUME NEW i \in Internal \ u.live
                 PROVE  u.left[i] = NULL /\ u.right[i] = NULL
      BY DEF Children
    <3>1. t.left[i] = NULL /\ t.right[i] = NULL
      <4>1. i \in Internal \ t.live
        BY <1>3
      <4>2. Children(t, i) = {NULL}
        BY <4>1, <1>1 DEF Linked
      <4> QED BY <4>2 DEF Children
    <3> QED BY <1>2, <1>3, <1>5, <3>1
  <2>3. \A n \in u.live : u.parent[n] # NULL =>
           u.parent[n] \in u.live /\ n \in Children(u, u.parent[n])
    <3> SUFFICES ASSUME NEW n \in u.live, u.parent[n] # NULL
                 PROVE  /\ u.parent[n] \in u.live
                        /\ n = u.left[u.parent[n]] \/ n = u.right[u.parent[n]]
      BY DEF Children
    <3>1. CASE n = sib \/ n = new
      BY <3>1, <1>3, <1>5
    <3>2. CASE n = p
      <4>1. gp \in t.live /\ (t.left[gp] = sib \/ t.right[gp] = sib)
        BY <3>2, <1>1, <1>2, <1>3, <1>5 DEF Linked, Children
      <4>2. gp \in Internal /\ gp # p
        BY <4>1, <1>2, <1>4, <1>5 DEF Node
      <4> QED BY <3>2, <4>1, <4>2, <1>2, <1>3, <1>5
    <3>3. CASE n \notin {sib, new, p}
      <4>1. n \in t.live /\ n \in Node /\ u.parent[n] = t.parent[n]
        BY <3>3, <1>3, <1>4
      <4>2. /\ t.parent[n] \in t.live /\ t.parent[n] \in Internal
            /\ n = t.left[t.parent[n]] \/ n = t.right[t.parent[n]]
        BY <4>1, <1>1, <1>4 DEF Linked, Children
      <4> QED BY <3>3, <4>1, <4>2, <1>3
    <3> QED BY <3>1, <3>2, <3>3
  <2>4. ASSUME NEW i \in Internal \cap u.live
        PROVE  /\ u.left[i] # u.right[i]
               /\ \A n \in Children(u, i) : n \in u.live /\ u.parent[n] = i
    <3>1. CASE i = p
      BY <3>1, <1>2, <1>3, <1>5 DEF Children
    <3>2. CASE i # p
      <4>1. i \in t.live
        BY <3>2, <1>2, <1>3, BspTreeAssumption
      <4>2. /\ t.left[i] # t.right[i]
            /\ t.left[i] \in t.live /\ t.parent[t.left[i]] = i
            /\ t.right[i] \in t.live /\ t.parent[t.right[i]] = i
        BY <4>1, <1>1 DEF Linked, Children
      <4>3. u.left[i] # u.right[i]
        BY <3>2, <4>2, <1>3
      <4>4. u.left[i] \in u.live /\ u.parent[u.left[i]] = i
        BY <3>2, <4>1, <4>2, <1>2, <1>3, <1>4, <1>5
      <4>5. u.right[i] \in u.live /\ u.parent[u.right[i]] = i
        BY <3>2, <4>1, <4>2, <1>2, <1>3, <1>4, <1>5
      <4> QED BY <4>3, <4>4, <4>5 DEF Children
    <3> QED BY <3>1, <3>2
  <2> QED BY <2>1, <2>2, <2>3, <2>4 DEF Linked
<1>8. Acyclic(u)
  <2> SUFFICES ASSUME NEW S \in SUBSET u.live, S # {}
               PROVE  /\ \E x \in S : \A y \in S : u.parent[y] # x
                      /\ \E x \in S : u.parent[x] \notin S
    BY DEF Acyclic
  <2>1. \A y \in u.live : u.parent[y] \in Internal \cup {NULL}
    BY <1>6 DEF Forest
  <2>2. gp # p /\ gp \in t.live \cup {NULL}
    BY <1>1, <1>2, <1>5 DEF Linked, Node
  <2>3. \A y \in t.live : /\ u.parent[y] = IF y = sib THEN p ELSE t.parent[y]
                          /\ t.parent[y] \in t.live \cup {NULL}
    BY <1>1, <1>3, <1>4 DEF Linked
  <2>4. \E x \in S : \A y \in S : u.parent[y] # x
    <3>1. CASE sib \in S \/ new \in S
      BY <2>1, <3>1, BspTreeAssumption
    <3>2. CASE sib \notin S /\ new \notin S /\ p \in S
      <4>1. \A y \in S : u.parent[y] # p
        BY <3>2, <2>2, <2>3, <1>2, <1>3, <1>5
      <4> QED BY <3>2, <4>1
    <3>3. CASE sib \notin S /\ new \notin S /\ p \notin S
      <4>1. S \subseteq t.live /\ \A y \in S : u.parent[y] = t.parent[y]
        BY <3>3, <1>3, <2>3
      <4> QED BY <4>1, <1>1 DEF Acyclic
    <3> QED BY <3>1, <3>2, <3>3
  <2>5. \E x \in S : u.parent[x] \notin S
    <3> DEFINE T == S \cap t.live
    <3>1. p \in S => u.parent[p] = gp
      BY <1>2, <1>3, <1>5
    <3>2. new \in S => u.parent[new] = p
      BY <1>3, <1>5
    <3>3. NULL \notin S
      BY <1>2, <1>3, <1>4, <1>5
    <3>4. CASE T = {}
      <4>1. S \subseteq {new, p} /\ gp \notin S
        BY <3>3, <3>4, <2>2, <1>3
      <4> QED BY <4>1, <3>1, <3>2
    <3>5. CASE T # {}
      <4>1. PICK x \in T : t.parent[x] \notin T
        BY <3>5, <1>1 DEF Acyclic
      <4>2. t.parent[x] \notin S
        BY <3>3, <4>1, <2>3
      <4>3. CASE x # sib
        BY <4>1, <4>2, <4>3, <2>3
      <4>4. CASE x = sib /\ p \notin S
        BY <4>1, <4>4, <2>3
      <4>5. CASE x = sib /\ p \in S
        BY <4>2, <4>5, <3>1
      <4> QED BY <4>3, <4>4, <4>5
    <3> QED BY <3>4, <3>5
  <2> QED BY <2>4, <2>5
<1>9. Rooted(u, IF r = sib THEN p ELSE r)
  <2>1. \A n \in u.live : u.parent[n] = NULL <=> n = (IF r = sib THEN p ELSE r)
    <3> SUFFICES ASSUME NEW n \in u.live
                 PROVE  u.parent[n] = NULL <=> n = (IF r = sib THEN p ELSE r)
      OBVIOUS
    <3>1. sib \in t.live /\ (gp = NULL <=> sib = r) /\ r \in t.live
      BY <1>1 DEF Rooted
    <3>2. p # r /\ new # r
      BY <3>1
    <3>3. CASE n = sib \/ n = new
      BY <3>1, <3>2, <3>3, <1>2, <1>3, <1>5
    <3>4. CASE n = p
      BY <3>1, <3>2, <3>4, <1>2, <1>3, <1>5
    <3>5. CASE n \notin {sib, new, p}
      <4>1. n \in t.live /\ u.parent[n] = t.parent[n]
        BY <3>5, <1>3, <1>4
      <4> QED BY <3>5, <4>1, <1>1 DEF Rooted
    <3> QED BY <3>3, <3>4, <3>5
  <2>2. u.live # {} /\ (IF r = sib THEN p ELSE r) \in u.live
    BY <1>1, <1>3 DEF Rooted
  <2>3. u.live \subseteq Node
    BY <1>3, <1>4, <1>5
  <2> QED BY <2>1, <2>2, <2>3, <1>2 DEF Rooted
<1> QED BY <1>6, <1>7, <1>8, <1>9 DEF Tree, u

----------------------------------------------------------------------------
(* The nodes bsp_remove_container leaves behind, field by field.           *)
AfterSplice(t, u, c, p, gp, sib) ==
  /\ u.live = t.live \ {c, p}
  /\ u.enabled = t.enabled \ {c, p}
  /\ u.parent = [n \in Node |-> IF n = c \/ n = p THEN NULL
                                ELSE IF n = sib THEN gp ELSE t.parent[n]]
  /\ u.left  = [i \in Internal |-> IF i = p THEN NULL
                  ELSE IF i = gp /\ t.left[i] = p THEN sib ELSE t.left[i]]
  /\ u.right = [i \in Internal |-> IF i = p THEN NULL
                  ELSE IF i = gp /\ t.right[i] = p THEN sib ELSE t.right[i]]

(* The nodes after bsp_remove_container has taken a leaf out.              *)
LEMMA SpliceFields ==
  ASSUME NEW t \in Forest, NEW c
  PROVE  LET p   == t.parent[c]
             sib == Sibling(t, c)
         IN  sib # c /\ sib # p => AfterSplice(t, SpliceOut(t, c), c, p, t.parent[p], sib)
<1> DEFINE p   == t.parent[c]
           gp  == t.parent[p]
           sib == Sibling(t, c)
           v   == Replace(t, gp, p, sib)
           u   == SpliceOut(t, c)
<1> SUFFICES ASSUME sib # c, sib # p
             PROVE  AfterSplice(t, u, c, p, gp, sib)
  OBVIOUS
<1>1. u.live = t.live \ {c, p} /\ u.enabled = t.enabled \ {c, p}
  BY DEF SpliceOut
<1>2. u.parent = [t.parent EXCEPT ![sib] = gp, ![c] = NULL, ![p] = NULL]
  BY DEF SpliceOut
<1>3. /\ v.left  = [i \in Internal |-> IF i = gp /\ t.left[i] = p
                                       THEN sib ELSE t.left[i]]
      /\ v.right = [i \in Internal |-> IF i = gp /\ t.right[i] = p
                                       THEN sib ELSE t.right[i]]
  BY ReplaceFields
<1>4. /\ u.left  = [v.left  EXCEPT ![p] = NULL]
      /\ u.right = [v.right EXCEPT ![p] = NULL]
  BY DEF SpliceOut
<1>5. t.parent \in [Node -> Internal \cup {NULL}]
  BY DEF Forest
<1> HIDE DEF u, v, gp, sib
<1>6. u.parent = [n \in Node |-> IF n = c \/ n = p THEN NULL
                                ELSE IF n = sib THEN gp ELSE t.parent[n]]
  BY <1>2, <1>5
<1>7. /\ u.left = [i \in Internal |-> IF i = p THEN NULL
                     ELSE IF i = gp /\ t.left[i] = p THEN sib ELSE t.left[i]]
      /\ u.right = [i \in Internal |-> IF i = p THEN NULL
                      ELSE IF i = gp /\ t.right[i] = p THEN sib ELSE t.right[i]]
  BY <1>3, <1>4
<1> QED BY <1>1, <1>6, <1>7 DEF AfterSplice

(* What a leaf c that is not the root has around it.                       *)
LEMMA Surroundings ==
  ASSUME NEW t, NEW r, Tree(t, r),
         NEW c \in Container \cap t.live, t.parent[c] # NULL
  PROVE  LET p   == t.parent[c]
             sib == Sibling(t, c)
         IN  /\ p \in Internal \cap t.live /\ sib \in t.live
             /\ sib # c /\ sib # p /\ p # c
             /\ t.parent[sib] = p /\ Children(t, p) = {c, sib}
             /\ \A n \in t.live : t.parent[n] = p => n \in {c, sib}
<1> DEFINE p   == t.parent[c]
           sib == Sibling(t, c)
<1>1. t \in Forest /\ Linked(t) /\ Acyclic(t)
  BY DEF Tree
<1>2. p \in Internal \cap t.live /\ c \in Children(t, p)
  BY <1>1 DEF Linked, Forest, Node
<1>3. /\ t.left[p] # t.right[p]
      /\ \A n \in Children(t, p) : n \in t.live /\ t.parent[n] = p
  BY <1>1, <1>2 DEF Linked
<1>4. Children(t, p) = {c, sib} /\ sib # c
  BY <1>2, <1>3 DEF Children, Sibling
<1>5. sib # p
  <2>0. {p} \in (SUBSET t.live) \ {{}}
    BY <1>2
  <2>1. \E x \in {p} : \A y \in {p} : t.parent[y] # x
    BY <2>0, <1>1 DEF Acyclic
  <2> QED BY <2>1, <1>3, <1>4
<1>6. p # c
  BY <1>2, BspTreeAssumption
<1>7. \A n \in t.live : t.parent[n] = p => n \in {c, sib}
  <2> SUFFICES ASSUME NEW n \in t.live, t.parent[n] = p
               PROVE  n \in {c, sib}
    OBVIOUS
  <2>1. t.parent[n] # NULL
    OBVIOUS
  <2>2. n \in Children(t, t.parent[n])
    BY <2>1, <1>1 DEF Linked
  <2> QED BY <2>2, <1>4
<1>8. sib \in t.live /\ t.parent[sib] = p
  BY <1>3, <1>4
<1> QED BY <1>2, <1>4, <1>5, <1>6, <1>7, <1>8

(* Taking a leaf out of a tree leaves a tree: its sibling becomes the root *)
(* when their parent was it.                                               *)
LEMMA SpliceKeepsTree ==
  ASSUME NEW t, NEW r, Tree(t, r),
         NEW c \in Container \cap t.live, t.parent[c] # NULL
  PROVE  Tree(SpliceOut(t, c), IF r = t.parent[c] THEN Sibling(t, c) ELSE r)
<1> DEFINE p   == t.parent[c]
           gp  == t.parent[p]
           sib == Sibling(t, c)
           u   == SpliceOut(t, c)
           r2  == IF r = p THEN sib ELSE r
<1>1. t \in Forest /\ Linked(t) /\ Acyclic(t) /\ Rooted(t, r)
  BY DEF Tree
<1>2. /\ p \in Internal \cap t.live /\ sib \in t.live
      /\ sib # c /\ sib # p /\ p # c
      /\ t.parent[sib] = p /\ Children(t, p) = {c, sib}
      /\ \A n \in t.live : t.parent[n] = p => n \in {c, sib}
  BY Surroundings
<1>3. AfterSplice(t, u, c, p, gp, sib)
  BY <1>1, <1>2, SpliceFields
<1>4. /\ t.live \subseteq Node /\ t.enabled \subseteq Node
      /\ t.parent \in [Node -> Internal \cup {NULL}]
      /\ t.left \in [Internal -> Node \cup {NULL}]
      /\ t.right \in [Internal -> Node \cup {NULL}]
  BY <1>1 DEF Forest
<1>5. /\ gp \in Internal \cup {NULL} /\ p \in Node /\ sib \in Node /\ c \in Node
      /\ NULL \notin Node /\ Container \cap Internal = {}
  BY <1>2, <1>4, BspTreeAssumption DEF Node
<1>6. gp # NULL => /\ gp \in Internal \cap t.live /\ p \in Children(t, gp)
                   /\ t.left[gp] # t.right[gp]
  BY <1>1, <1>2, <1>5 DEF Linked
<1>7. gp # p
  <2>0. {p} \in (SUBSET t.live) \ {{}}
    BY <1>2
  <2>1. \E x \in {p} : \A y \in {p} : t.parent[y] # x
    BY <2>0, <1>1 DEF Acyclic
  <2> QED BY <2>1
<1>8. u = [live |-> u.live, enabled |-> u.enabled, parent |-> u.parent,
           left |-> u.left, right |-> u.right]
  BY DEF SpliceOut
<1> HIDE DEF u, gp, sib, p
<1>9. u \in Forest
  <2>1. u.live \subseteq Node /\ u.enabled \subseteq Node
    BY <1>3, <1>4 DEF AfterSplice
  <2>2. u.parent \in [Node -> Internal \cup {NULL}]
    BY <1>3, <1>4, <1>5 DEF AfterSplice
  <2>3. /\ u.left \in [Internal -> Node \cup {NULL}]
        /\ u.right \in [Internal -> Node \cup {NULL}]
    BY <1>3, <1>4, <1>5 DEF AfterSplice
  <2> QED BY <1>8, <2>1, <2>2, <2>3 DEF Forest
<1>10. Linked(u)
  <2>1. \A n \in Node \ u.live : u.parent[n] = NULL
    BY <1>1, <1>2, <1>3, <1>4, <1>5 DEF Linked, AfterSplice
  <2>2. \A i \in Internal \ u.live : u.left[i] = NULL /\ u.right[i] = NULL
    <3> SUFFICES ASSUME NEW i \in Internal \ u.live, i # p
                 PROVE  u.left[i] = NULL /\ u.right[i] = NULL
      BY <1>3 DEF AfterSplice
    <3>1. i \notin t.live
      BY <1>3, <1>5 DEF AfterSplice
    <3>2. t.left[i] = NULL /\ t.right[i] = NULL
      BY <3>1, <1>1 DEF Linked, Children
    <3> QED BY <3>2, <1>3, <1>5 DEF AfterSplice
  <2>3. ASSUME NEW n \in u.live, u.parent[n] # NULL
        PROVE  /\ u.parent[n] \in u.live
               /\ n = u.left[u.parent[n]] \/ n = u.right[u.parent[n]]
    <3>1. n \in t.live /\ n \notin {c, p} /\ n \in Node
      BY <1>3, <1>4 DEF AfterSplice
    <3>2. CASE n = sib
      <4>1. u.parent[n] = gp
        BY <3>1, <3>2, <1>3 DEF AfterSplice
      <4>2. gp # NULL /\ gp # c
        BY <4>1, <2>3, <1>5, <1>6
      <4>3. gp \in u.live
        BY <4>2, <1>3, <1>6, <1>7 DEF AfterSplice
      <4>4. sib = u.left[gp] \/ sib = u.right[gp]
        BY <4>2, <1>3, <1>6, <1>7 DEF AfterSplice, Children
      <4> QED BY <3>2, <4>1, <4>3, <4>4
    <3>3. CASE n # sib
      <4>1. u.parent[n] = t.parent[n]
        BY <3>1, <3>3, <1>3 DEF AfterSplice
      <4>2. /\ t.parent[n] \in Internal \cap t.live
            /\ n = t.left[t.parent[n]] \/ n = t.right[t.parent[n]]
        BY <3>1, <4>1, <2>3, <1>1, <1>4 DEF Linked, Children
      <4>3. t.parent[n] # p /\ t.parent[n] # c
        BY <3>1, <3>3, <4>2, <1>2, <1>5
      <4> QED BY <3>1, <4>1, <4>2, <4>3, <1>3 DEF AfterSplice
    <3> QED BY <3>2, <3>3
  <2>4. ASSUME NEW i \in Internal \cap u.live
        PROVE  /\ u.left[i] # u.right[i]
               /\ u.left[i] \in u.live /\ u.parent[u.left[i]] = i
               /\ u.right[i] \in u.live /\ u.parent[u.right[i]] = i
    <3>1. i \in t.live /\ i # p /\ i # c
      BY <1>3 DEF AfterSplice
    <3>2. /\ t.left[i] # t.right[i]
          /\ t.left[i] \in t.live /\ t.parent[t.left[i]] = i
          /\ t.right[i] \in t.live /\ t.parent[t.right[i]] = i
      BY <3>1, <1>1 DEF Linked, Children
    <3>3. t.left[i] \notin {c, sib} /\ t.right[i] \notin {c, sib}
      BY <3>1, <3>2, <1>2 DEF p
    <3>4. /\ t.left[i] = p => i = gp
          /\ t.right[i] = p => i = gp
      BY <3>2 DEF gp
    <3>5. u.left[i] # u.right[i]
      BY <3>1, <3>2, <3>3, <1>3 DEF AfterSplice
    <3>6. u.left[i] \in u.live /\ u.parent[u.left[i]] = i
      BY <3>1, <3>2, <3>3, <3>4, <1>2, <1>3, <1>4, <1>5 DEF AfterSplice
    <3>7. u.right[i] \in u.live /\ u.parent[u.right[i]] = i
      BY <3>1, <3>2, <3>3, <3>4, <1>2, <1>3, <1>4, <1>5 DEF AfterSplice
    <3> QED BY <3>5, <3>6, <3>7
  <2> QED BY <2>1, <2>2, <2>3, <2>4 DEF Linked, Children
<1>11. Acyclic(u)
  <2> SUFFICES ASSUME NEW S \in SUBSET u.live, S # {}
               PROVE  /\ \E x \in S : \A y \in S : u.parent[y] # x
                      /\ \E x \in S : u.parent[x] \notin S
    BY DEF Acyclic
  <2>1. S \subseteq t.live /\ c \notin S /\ p \notin S
    BY <1>3 DEF AfterSplice
  <2>2. \A y \in S : u.parent[y] = IF y = sib THEN gp ELSE t.parent[y]
    BY <2>1, <1>3, <1>4 DEF AfterSplice
  <2>3. CASE sib \in S /\ gp \in S
    <3>0. S \cup {p} \in (SUBSET t.live) \ {{}}
      BY <2>1, <1>2
    <3>1. PICK x \in S \cup {p} : \A y \in S \cup {p} : t.parent[y] # x
      BY <3>0, <1>1 DEF Acyclic
    <3>2. x # p /\ x # gp
      BY <2>3, <3>1, <1>2 DEF gp
    <3>3. PICK z \in S \cup {p} : t.parent[z] \notin S \cup {p}
      BY <3>0, <1>1 DEF Acyclic
    <3>4. z # p /\ z # sib
      BY <2>3, <3>3, <1>2 DEF gp
    <3> QED BY <2>2, <3>1, <3>2, <3>3, <3>4
  <2>4. CASE ~ (sib \in S /\ gp \in S)
    <3>1. PICK x \in S : \A y \in S : t.parent[y] # x
      BY <2>1, <1>1 DEF Acyclic
    <3>2. PICK z \in S : t.parent[z] \notin S
      BY <2>1, <1>1 DEF Acyclic
    <3> QED BY <2>2, <2>4, <3>1, <3>2
  <2> QED BY <2>3, <2>4
<1>12. Rooted(u, r2)
  <2>1. r \in t.live /\ (gp = NULL <=> p = r) /\ c # r /\ sib # r
    BY <1>1, <1>2 DEF Rooted, gp, p
  <2>2. \A n \in u.live : u.parent[n] = NULL <=> n = r2
    <3> SUFFICES ASSUME NEW n \in u.live
                 PROVE  u.parent[n] = NULL <=> n = r2
      OBVIOUS
    <3>1. n \in t.live /\ n # c /\ n # p /\ n \in Node
      BY <1>3, <1>4 DEF AfterSplice
    <3>2. CASE n = sib
      <4>1. u.parent[n] = gp
        BY <3>1, <3>2, <1>3 DEF AfterSplice
      <4> QED BY <3>2, <4>1, <2>1
    <3>3. CASE n # sib
      <4>1. u.parent[n] = t.parent[n]
        BY <3>1, <3>3, <1>3 DEF AfterSplice
      <4> QED BY <3>1, <3>3, <4>1, <1>1 DEF Rooted
    <3> QED BY <3>2, <3>3
  <2>3. r2 \in u.live
    BY <2>1, <1>2, <1>3 DEF AfterSplice
  <2>4. r2 # NULL
    BY <2>3, <1>3, <1>4, <1>5 DEF AfterSplice
  <2> QED BY <2>2, <2>3, <2>4 DEF Rooted
<1> QED BY <1>9, <1>10, <1>11, <1>12 DEF Tree, u, p, sib

----------------------------------------------------------------------------
(* What a recursion visits: its start, whatever a step leads to, and       *)
(* nothing that the start and the steps do not force.                      *)
LEMMA VisitedIsLeast ==
  ASSUME NEW t, NEW n \in t.live, NEW steps
  PROVE  LET V == Visited(t, n, steps)
         IN  /\ V \subseteq t.live /\ n \in V
             /\ \A e \in steps : e[1] \in V /\ e[2] \in t.live => e[2] \in V
             /\ \A S \in SUBSET t.live :
                  n \in S /\ (\A e \in steps : e[1] \in S => e[2] \in S)
                    => V \subseteq S
  BY DEF Visited

(* A member of what is visited, other than the start, is the target of a   *)
(* step from another member.                                               *)
LEMMA VisitedHasOrigin ==
  ASSUME NEW t, NEW n \in t.live,
         NEW steps, \A e \in steps : e[2] \in t.live,
         NEW q \in Visited(t, n, steps), q # n
  PROVE  \E e \in steps : e[1] \in Visited(t, n, steps) /\ e[1] # q /\ e[2] = q
<1> DEFINE V == Visited(t, n, steps)
<1>1. /\ V \subseteq t.live /\ n \in V
      /\ \A e \in steps : e[1] \in V /\ e[2] \in t.live => e[2] \in V
      /\ \A S \in SUBSET t.live :
           n \in S /\ (\A e \in steps : e[1] \in S => e[2] \in S) => V \subseteq S
  BY VisitedIsLeast
<1> HIDE DEF V
<1>2. V \ {q} \in SUBSET t.live /\ n \in V \ {q} /\ ~ (V \subseteq V \ {q})
  BY <1>1 DEF V
<1>3. PICK e \in steps : e[1] \in V \ {q} /\ e[2] \notin V \ {q}
  BY <1>1, <1>2
<1>4. CASE e[2] = q
  BY <1>3, <1>4 DEF V
<1>5. CASE e[2] # q
  <2>1. e[2] \notin V
    BY <1>3, <1>5
  <2> QED BY <2>1, <1>1, <1>3
<1> QED BY <1>4, <1>5

(* The steps upwards stay in the tree, and make the node above a visited   *)
(* node visited; no container but the start is visited.                    *)
LEMMA UpwardFacts ==
  ASSUME NEW t, NEW r, Tree(t, r), NEW n \in t.live
  PROVE  /\ \A e \in StepsUp(t) : e[2] \in Internal \cap t.live
         /\ StepsUpIfIdle(t) \subseteq StepsUp(t)
         /\ n \in Upward(t, n) /\ Upward(t, n) \subseteq t.live
         /\ \A m \in Upward(t, n) : t.parent[m] # NULL => t.parent[m] \in Upward(t, n)
         /\ Upward(t, n) \cap Container \subseteq {n}
<1>1. t \in Forest /\ Linked(t)
  BY DEF Tree
<1>2. \A e \in StepsUp(t) : e[2] \in Internal \cap t.live
  <2> SUFFICES ASSUME NEW m \in HasParent(t)
               PROVE  t.parent[m] \in Internal \cap t.live
    BY DEF StepsUp
  <2> QED BY <1>1 DEF HasParent, Linked, Forest
<1>3. StepsUpIfIdle(t) \subseteq StepsUp(t)
  BY DEF StepsUpIfIdle, StepsUp
<1>4. n \in Upward(t, n) /\ Upward(t, n) \subseteq t.live
  BY VisitedIsLeast DEF Upward
<1>5. ASSUME NEW m \in Upward(t, n), t.parent[m] # NULL
      PROVE  t.parent[m] \in Upward(t, n)
  <2>1. <<m, t.parent[m]>> \in StepsUp(t)
    BY <1>4, <1>5 DEF StepsUp, HasParent
  <2>2. t.parent[m] \in t.live
    BY <2>1, <1>2
  <2> QED BY <2>1, <2>2, VisitedIsLeast DEF Upward
<1>6. ASSUME NEW m \in Upward(t, n) \cap Container, m # n
      PROVE  FALSE
  <2>1. \E e \in StepsUp(t) : e[2] = m
    BY <1>2, <1>6, VisitedHasOrigin DEF Upward
  <2> QED BY <2>1, <1>2, <1>6, BspTreeAssumption
<1> QED BY <1>2, <1>3, <1>4, <1>5, <1>6

(* What bsp_node_enable and bsp_node_disable leave enabled.  Both repair a *)
(* node that hangs under a disabled one when their recursion reaches it:   *)
(* the internal node that an insertion has just made is in that position.  *)
LEMMA EnableKeepsUpward ==
  ASSUME NEW t, NEW r, Tree(t, r), NEW c \in Container \cap t.live,
         \A m \in t.enabled :
           t.parent[m] # NULL => t.parent[m] \in t.enabled \/ m \in Upward(t, c)
  PROVE  LET u == Enable(t, c)
         IN  /\ Tree(u, r) /\ EnabledUpward(u) /\ u.live = t.live
             /\ u.enabled \cap Container = (t.enabled \cap Container) \cup {c}
             /\ t.enabled \subseteq t.live => u.enabled \subseteq u.live
<1> DEFINE u == Enable(t, c)
<1>1. t \in Forest /\ Linked(t) /\ Acyclic(t) /\ Rooted(t, r)
  BY DEF Tree
<1>2. /\ c \in Upward(t, c) /\ Upward(t, c) \subseteq t.live
      /\ \A m \in Upward(t, c) : t.parent[m] # NULL => t.parent[m] \in Upward(t, c)
      /\ Upward(t, c) \cap Container \subseteq {c}
  BY UpwardFacts
<1>3. /\ u.live = t.live /\ u.parent = t.parent /\ u.left = t.left
      /\ u.right = t.right /\ u.enabled = t.enabled \cup Upward(t, c)
  BY <1>1 DEF Enable, Forest
<1>4. u \in Forest
  BY <1>1, <1>2 DEF Enable, Forest
<1> HIDE DEF u
<1>5. Linked(u) /\ Acyclic(u) /\ Rooted(u, r)
  <2>1. Linked(u) /\ Rooted(u, r)
    BY <1>1, <1>3 DEF Linked, Rooted, Children
  <2>2. Acyclic(u)
    <3>1. (SUBSET u.live) \ {{}} = (SUBSET t.live) \ {{}}
      BY <1>3
    <3>2. \A S \in (SUBSET t.live) \ {{}} :
            /\ \E x \in S : \A y \in S : t.parent[y] # x
            /\ \E x \in S : t.parent[x] \notin S
      BY <1>1 DEF Acyclic
    <3> QED BY <3>1, <3>2, <1>3 DEF Acyclic
  <2> QED BY <2>1, <2>2
<1>6. EnabledUpward(u)
  BY <1>2, <1>3 DEF EnabledUpward
<1>7. u.enabled \cap Container = (t.enabled \cap Container) \cup {c}
  BY <1>2, <1>3
<1> QED BY <1>2, <1>3, <1>4, <1>5, <1>6, <1>7 DEF Tree, u

(* Disabling a leaf: whatever stays enabled still hangs under enabled      *)
(* nodes, and no other leaf is touched.                                    *)
LEMMA DisableKeepsUpward ==
  ASSUME NEW t, NEW r, Tree(t, r), NEW c \in Container \cap t.live,
         \A m \in t.enabled : t.parent[m] # NULL =>
           t.parent[m] \in t.enabled \/ m \in Visited(t, c, StepsUpIfIdle(t))
  PROVE  LET u == Disable(t, c)
         IN  /\ Tree(u, r) /\ EnabledUpward(u) /\ u.live = t.live
             /\ u.enabled \cap Container = (t.enabled \cap Container) \ {c}
             /\ t.enabled \subseteq t.live => u.enabled \subseteq u.live
<1> DEFINE u == Disable(t, c)
           V == Visited(t, c, StepsUpIfIdle(t))
<1>1. t \in Forest /\ Linked(t) /\ Acyclic(t) /\ Rooted(t, r)
  BY DEF Tree
<1>2. \A e \in StepsUpIfIdle(t) : e[2] \in Internal \cap t.live
  BY UpwardFacts
<1>3. c \in V /\ V \subseteq t.live
  BY VisitedIsLeast
<1>4. ASSUME NEW q \in V, q # c
      PROVE  /\ q \in Internal
             /\ \E y \in V : y \in t.live /\ t.parent[y] = q /\ Sibling(t, y) \notin t.enabled
  <2>1. PICK e \in StepsUpIfIdle(t) : e[1] \in V /\ e[2] = q
    BY <1>2, <1>4, VisitedHasOrigin
  <2>2. PICK y \in HasParent(t) : e = <<y, t.parent[y]>> /\ Sibling(t, y) \notin t.enabled
    BY <2>1 DEF StepsUpIfIdle
  <2>3. y \in V /\ t.parent[y] = q
    BY <2>1, <2>2
  <2> QED BY <2>1, <2>2, <2>3, <1>2 DEF HasParent
<1>5. /\ u.live = t.live /\ u.parent = t.parent /\ u.left = t.left
      /\ u.right = t.right /\ u.enabled = t.enabled \ V
  BY <1>1 DEF Disable, Forest
<1>6. u \in Forest
  BY <1>1 DEF Disable, Forest
<1> HIDE DEF u, V
<1>7. Linked(u) /\ Acyclic(u) /\ Rooted(u, r)
  <2>1. Linked(u) /\ Rooted(u, r)
    BY <1>1, <1>5 DEF Linked, Rooted, Children
  <2>2. Acyclic(u)
    <3>1. (SUBSET u.live) \ {{}} = (SUBSET t.live) \ {{}}
      BY <1>5
    <3>2. \A S \in (SUBSET t.live) \ {{}} :
            /\ \E x \in S : \A y \in S : t.parent[y] # x
            /\ \E x \in S : t.parent[x] \notin S
      BY <1>1 DEF Acyclic
    <3> QED BY <3>1, <3>2, <1>5 DEF Acyclic
  <2> QED BY <2>1, <2>2
<1>8. EnabledUpward(u)
  <2> SUFFICES ASSUME NEW m \in t.enabled, m \notin V, t.parent[m] # NULL,
                      t.parent[m] \in V
               PROVE  FALSE
    BY <1>5 DEF EnabledUpward, V
  <2>1. m \in t.live /\ t.parent[m] \in Internal /\ m \in Children(t, t.parent[m])
    <3>1. m \in Node /\ t.parent[m] \in Internal \cup {NULL}
      BY <1>1 DEF Forest
    <3>2. m \in t.live
      BY <3>1, <1>1 DEF Linked
    <3> QED BY <3>1, <3>2, <1>1 DEF Linked
  <2>2. t.parent[m] # c
    BY <2>1, BspTreeAssumption
  <2>3. PICK y \in V : y \in t.live /\ t.parent[y] = t.parent[m]
                      /\ Sibling(t, y) \notin t.enabled
    BY <2>2, <1>4
  <2>4. y \in Children(t, t.parent[m]) /\ y # m
    BY <2>3, <1>1 DEF Linked
  <2> QED BY <2>1, <2>3, <2>4 DEF Children, Sibling
<1>9. u.enabled \cap Container = (t.enabled \cap Container) \ {c}
  BY <1>3, <1>4, <1>5, BspTreeAssumption
<1> QED BY <1>5, <1>6, <1>7, <1>8, <1>9 DEF Tree, u

(* find_closes_leaf_sibling finds another leaf of the tree.                *)
LEMMA ClosestLeafIsALeaf ==
  ASSUME NEW t, NEW r, Tree(t, r),
         NEW c \in Container \cap t.live, t.parent[c] # NULL
  PROVE  ClosestLeaf(t, c) \in (Container \cap t.live) \ {c}
<1> DEFINE p    == t.parent[c]
           sib  == Sibling(t, c)
           side == IF t.right[p] = c THEN t.right ELSE t.left
           down == { <<i, side[i]>> : i \in Internal \cap t.live }
           V    == Visited(t, sib, down)
           U    == Upward(t, p)
<1>1. t \in Forest /\ Linked(t) /\ Acyclic(t)
  BY DEF Tree
<1>2. /\ p \in Internal \cap t.live /\ sib \in t.live
      /\ sib # c /\ sib # p /\ p # c /\ t.parent[sib] = p
  BY Surroundings
<1>3. \A i \in Internal \cap t.live : side[i] \in t.live /\ t.parent[side[i]] = i
  BY <1>1 DEF Linked, Children
<1>4. /\ V \subseteq t.live /\ sib \in V
      /\ \A i \in Internal \cap V : side[i] \in V
      /\ \A S \in SUBSET t.live :
           sib \in S /\ (\A i \in Internal \cap S : side[i] \in S) => V \subseteq S
  <2>1. \A e \in down : e[2] \in t.live
    BY <1>3
  <2>2. /\ V \subseteq t.live /\ sib \in V
        /\ \A e \in down : e[1] \in V => e[2] \in V
        /\ \A S \in SUBSET t.live :
             sib \in S /\ (\A e \in down : e[1] \in S => e[2] \in S) => V \subseteq S
    BY <2>1, <1>2, VisitedIsLeast
  <2>3. ASSUME NEW i \in Internal \cap V
        PROVE  side[i] \in V
    <3>1. <<i, side[i]>> \in down
      BY <2>2
    <3> QED BY <3>1, <2>2
  <2>4. ASSUME NEW S \in SUBSET t.live, sib \in S,
               \A i \in Internal \cap S : side[i] \in S
        PROVE  V \subseteq S
    <3>1. \A e \in down : e[1] \in S => e[2] \in S
      BY <2>4
    <3> QED BY <3>1, <2>2, <2>4
  <2> QED BY <2>2, <2>3, <2>4
<1> HIDE DEF V, side
<1>5. \E l \in V : l \in Container
  <2>1. PICK x \in V : \A y \in V : t.parent[y] # x
    BY <1>1, <1>4 DEF Acyclic
  <2>2. x \notin Internal
    BY <2>1, <1>3, <1>4
  <2> QED BY <2>1, <2>2, <1>1, <1>4 DEF Forest, Node
<1>6. c \notin V
  <2>1. /\ p \in U /\ U \subseteq t.live
        /\ \A m \in U : t.parent[m] # NULL => t.parent[m] \in U
        /\ \A e \in StepsUp(t) : e[2] \in t.live
    BY <1>2, UpwardFacts
  <2>2. \A x \in U : x # p => \E y \in U : t.parent[y] = x
    <3> SUFFICES ASSUME NEW x \in U, x # p
                 PROVE  \E y \in U : t.parent[y] = x
      OBVIOUS
    <3>1. PICK e \in StepsUp(t) : e[1] \in U /\ e[2] = x
      BY <2>1, <1>2, VisitedHasOrigin DEF Upward
    <3> QED BY <3>1 DEF StepsUp
  <2>3. sib \notin U
    <3>1. PICK x \in U : \A y \in U : t.parent[y] # x
      BY <2>1, <1>1 DEF Acyclic
    <3> QED BY <3>1, <2>2, <1>2
  <2> DEFINE S == t.live \ (U \cup {c})
  <2>4. \A i \in Internal \cap S : side[i] \in S
    <3> SUFFICES ASSUME NEW i \in Internal \cap S
                 PROVE  side[i] \notin U /\ side[i] # c
      BY <1>3
    <3>1. t.parent[side[i]] = i /\ i # NULL
      BY <1>3, BspTreeAssumption
    <3> QED BY <3>1, <2>1
  <2>5. sib \in S /\ S \in SUBSET t.live
    BY <2>3, <1>2
  <2> QED BY <2>4, <2>5, <1>4
<1>7. ClosestLeaf(t, c) = CHOOSE l \in V : l \in Container
  BY DEF ClosestLeaf, LeafTowards, V, side
<1> QED BY <1>4, <1>5, <1>6, <1>7

----------------------------------------------------------------------------
(* The inductive invariant.  It says of the variables what the lemmas say  *)
(* of one operation: a tree with the root the entry names, a focused leaf  *)
(* in it, and no enabled node below a disabled one.                        *)
TreeInv ==
  /\ Tree(tree, root)
  /\ last \in Container \cup {NULL}
  /\ root # NULL => last \in Leaves(tree)
  /\ tree.enabled \subseteq tree.live
  /\ EnabledUpward(tree)

(* The leaves that are enabled are those of the tiled containers.          *)
ModeInv ==
  /\ mode \in [Container -> Modes]
  /\ Leaves(tree) \cap tree.enabled = Tiles

(* A tiled container is enabled, and so may a first one be that is not.    *)
Reach ==
  /\ mode \in [Container -> Modes]
  /\ Tiles \subseteq tree.enabled

(* A new leaf in a tree, enabled or disabled.                              *)
LEMMA SplitThenEnable ==
  ASSUME NEW t, NEW r, Tree(t, r), EnabledUpward(t), t.enabled \subseteq t.live,
         NEW sib \in Container \cap t.live, NEW new \in Container \ t.live,
         NEW p \in Internal \ t.live, NEW pos,
         NEW u, u = Enable(SplitLeaf(t, sib, new, p, pos), new)
              \/ u = Disable(SplitLeaf(t, sib, new, p, pos), new)
  PROVE  /\ Tree(u, IF r = sib THEN p ELSE r)
         /\ EnabledUpward(u) /\ u.enabled \subseteq u.live
         /\ u.live = t.live \cup {new, p}
         /\ u = Enable(SplitLeaf(t, sib, new, p, pos), new) =>
              u.enabled \cap Container = (t.enabled \cap Container) \cup {new}
         /\ u = Disable(SplitLeaf(t, sib, new, p, pos), new) =>
              u.enabled \cap Container = t.enabled \cap Container
<1> DEFINE gp == t.parent[sib]
           v  == SplitLeaf(t, sib, new, p, pos)
           r2 == IF r = sib THEN p ELSE r
<1>1. t \in Forest /\ Linked(t)
  BY DEF Tree
<1>2. new # sib /\ new # p /\ sib # p /\ p \in Internal /\ NULL \notin Node
      /\ {sib, new, p} \subseteq Node
  BY BspTreeAssumption DEF Node
<1>3. AfterSplit(t, v, sib, new, p, pos) /\ Tree(v, r2)
  BY <1>1, <1>2, SplitFields, SplitKeepsTree
<1> HIDE DEF v, r2
<1>4. /\ v.live = t.live \cup {new, p} /\ v.enabled = t.enabled \cup {new, p}
      /\ v.parent[new] = p /\ v.parent[sib] = p /\ v.parent[p] = gp
      /\ \A m \in t.live : m # sib => v.parent[m] = t.parent[m]
      /\ Children(v, p) = {new, sib}
  <2>1. v.live = t.live \cup {new, p} /\ v.enabled = t.enabled \cup {new, p}
    BY <1>3 DEF AfterSplit
  <2>2. v.parent[new] = p /\ v.parent[sib] = p /\ v.parent[p] = gp
    BY <1>2, <1>3 DEF AfterSplit
  <2>3. \A m \in t.live : m # sib => v.parent[m] = t.parent[m]
    BY <1>1, <1>2, <1>3 DEF AfterSplit, Forest
  <2>4. Children(v, p) = {new, sib}
    BY <1>2, <1>3 DEF AfterSplit, Children
  <2> QED BY <2>1, <2>2, <2>3, <2>4
<1>5. new \in Container \cap v.live /\ v.enabled \subseteq v.live
  BY <1>4
<1>6. \A m \in v.enabled : v.parent[m] # NULL =>
        v.parent[m] \in v.enabled \/ (m = p /\ sib \notin t.enabled)
  <2> SUFFICES ASSUME NEW m \in v.enabled, v.parent[m] # NULL
               PROVE  v.parent[m] \in v.enabled \/ (m = p /\ sib \notin t.enabled)
    OBVIOUS
  <2>1. CASE m = new \/ m = sib
    BY <2>1, <1>4
  <2>2. CASE m = p
    BY <2>2, <1>4 DEF EnabledUpward
  <2>3. CASE ~ (m = new \/ m = sib \/ m = p)
    <3>1. m \in t.enabled /\ v.parent[m] = t.parent[m]
      BY <2>3, <1>4
    <3> QED BY <3>1, <1>4 DEF EnabledUpward
  <2> QED BY <2>1, <2>2, <2>3
<1>7. p \in Upward(v, new)
  BY <1>2, <1>3, <1>4, <1>5, UpwardFacts
<1>8. sib \notin t.enabled => p \in Visited(v, new, StepsUpIfIdle(v))
  <2> SUFFICES ASSUME sib \notin t.enabled
               PROVE  p \in Visited(v, new, StepsUpIfIdle(v))
    OBVIOUS
  <2>1. Sibling(v, new) = sib /\ sib \notin v.enabled
    BY <1>2, <1>4 DEF Sibling, Children
  <2>2. new \in HasParent(v)
    BY <1>2, <1>4 DEF HasParent
  <2>3. <<new, v.parent[new]>> \in StepsUpIfIdle(v)
    BY <2>1, <2>2 DEF StepsUpIfIdle
  <2>4. <<new, p>> \in StepsUpIfIdle(v) /\ new \in v.live /\ p \in v.live
    BY <2>3, <1>4
  <2>5. new \in Visited(v, new, StepsUpIfIdle(v))
    BY <2>4, VisitedIsLeast
  <2> QED BY <2>4, <2>5, VisitedIsLeast
<1>9. /\ u = Enable(v, new) \/ u = Disable(v, new)
      /\ v.enabled \cap Container = (t.enabled \cap Container) \cup {new}
      /\ new \notin t.enabled
  BY <1>2, <1>4, BspTreeAssumption DEF v
<1>10. u = Enable(v, new) =>
         /\ Tree(u, r2) /\ EnabledUpward(u) /\ u.live = v.live
         /\ u.enabled \cap Container = (v.enabled \cap Container) \cup {new}
         /\ u.enabled \subseteq u.live
  BY <1>3, <1>5, <1>6, <1>7, EnableKeepsUpward
<1>11. u = Disable(v, new) =>
         /\ Tree(u, r2) /\ EnabledUpward(u) /\ u.live = v.live
         /\ u.enabled \cap Container = (v.enabled \cap Container) \ {new}
         /\ u.enabled \subseteq u.live
  BY <1>3, <1>5, <1>6, <1>8, DisableKeepsUpward
<1> QED BY <1>4, <1>9, <1>10, <1>11 DEF v, r2

(* A leaf taken out of a tree.                                             *)
LEMMA SpliceKeepsUpward ==
  ASSUME NEW t, NEW r, Tree(t, r), EnabledUpward(t), t.enabled \subseteq t.live,
         NEW c \in Container \cap t.live, t.parent[c] # NULL
  PROVE  LET u == SpliceOut(t, c)
         IN  /\ EnabledUpward(u) /\ u.enabled \subseteq u.live
             /\ u.live \cap Container = (t.live \cap Container) \ {c}
             /\ u.enabled \cap Container = (t.enabled \cap Container) \ {c}
<1> DEFINE p   == t.parent[c]
           gp  == t.parent[p]
           sib == Sibling(t, c)
           u   == SpliceOut(t, c)
<1>1. t \in Forest /\ Linked(t)
  BY DEF Tree
<1>2. /\ p \in Internal \cap t.live /\ sib \in t.live
      /\ sib # c /\ sib # p /\ p # c /\ t.parent[sib] = p
      /\ \A n \in t.live : t.parent[n] = p => n \in {c, sib}
  BY Surroundings
<1>3. AfterSplice(t, u, c, p, gp, sib)
  BY <1>1, <1>2, SpliceFields
<1> HIDE DEF u, sib
<1>4. u.live = t.live \ {c, p} /\ u.enabled = t.enabled \ {c, p}
  BY <1>3 DEF AfterSplice
<1>5. EnabledUpward(u)
  <2> SUFFICES ASSUME NEW m \in u.enabled, u.parent[m] # NULL
               PROVE  u.parent[m] \in u.enabled
    BY DEF EnabledUpward
  <2>1. m \in t.enabled /\ m \in t.live /\ m \in Node /\ m # c /\ m # p
    BY <1>1, <1>4 DEF Forest
  <2>2. p # NULL /\ gp # p /\ gp # c
    <3>1. p # NULL
      BY <1>2, BspTreeAssumption
    <3>2. gp # p
      BY <1>1, <1>2 DEF Tree, Rooted, Acyclic
    <3>3. gp # c
      BY <1>1, <1>2, BspTreeAssumption DEF Forest, Node
    <3> QED BY <3>1, <3>2, <3>3
  <2>3. CASE m = sib
    <3>1. u.parent[m] = gp
      BY <2>1, <2>3, <1>3 DEF AfterSplice
    <3>2. p \in t.enabled
      BY <2>1, <2>2, <2>3, <1>2 DEF EnabledUpward
    <3>3. gp \in t.enabled
      BY <3>1, <3>2 DEF EnabledUpward
    <3> QED BY <3>1, <3>3, <2>2, <1>4
  <2>4. CASE m # sib
    <3>1. u.parent[m] = t.parent[m]
      BY <2>1, <2>4, <1>3 DEF AfterSplice
    <3>2. t.parent[m] \in t.enabled /\ t.parent[m] \in Internal
      BY <2>1, <3>1, <1>1 DEF EnabledUpward, Forest
    <3>3. t.parent[m] # p /\ t.parent[m] # c
      BY <2>1, <2>4, <3>2, <1>2, BspTreeAssumption
    <3> QED BY <3>1, <3>2, <3>3, <1>4
  <2> QED BY <2>3, <2>4
<1> QED BY <1>2, <1>4, <1>5, BspTreeAssumption DEF u

----------------------------------------------------------------------------
(* A tag starts without nodes.                                             *)
LEMMA InitTree == Init => TreeInv /\ Reach /\ ModeInv
<1> SUFFICES ASSUME Init PROVE TreeInv /\ Reach /\ ModeInv
  OBVIOUS
<1>1. /\ tree = EmptyForest /\ root = NULL /\ last = NULL
      /\ mode = [c \in Container |-> "tiled"]
  BY DEF Init
<1>2. EmptyForest \in Forest
  BY DEF EmptyForest, Forest
<1>3. Linked(EmptyForest) /\ EnabledUpward(EmptyForest) /\ Rooted(EmptyForest, NULL)
  BY DEF EmptyForest, Linked, EnabledUpward, Rooted, Children
<1>4. Acyclic(EmptyForest)
  BY DEF EmptyForest, Acyclic
<1>5. EmptyForest.enabled \subseteq EmptyForest.live /\ EmptyForest.live = {}
  BY DEF EmptyForest
<1> QED BY <1>1, <1>2, <1>3, <1>4, <1>5 DEF TreeInv, ModeInv, Reach, Tree, Leaves, Tiles, Modes

(* A container is inserted beside the leaf of another.                     *)
LEMMA InsertBesideTree ==
  ASSUME TreeInv, NEW c \in Container, NEW sib \in Container \cap tree.live,
         NEW pos, NEW m \in Modes, NEW asks, InsertBeside(c, sib, pos, m, asks)
  PROVE  TreeInv' /\ (Reach => Reach') /\ (ModeInv => ModeInv')
<1>1. PICK p \in Internal \ tree.live :
        /\ root' = IF root = sib THEN p ELSE root
        /\ m = "tiled" => tree' = Enable(SplitLeaf(tree, sib, c, p, pos), c)
        /\ m # "tiled" => tree' = Disable(SplitLeaf(tree, sib, c, p, pos), c)
  BY DEF InsertBeside, EnableLeaf, DisableLeaf
<1>2. c \in Container \ tree.live /\ mode' = [mode EXCEPT ![c] = m] /\ last' = c
  BY DEF InsertBeside
<1>3. /\ Tree(tree', root') /\ EnabledUpward(tree')
      /\ tree'.enabled \subseteq tree'.live
      /\ tree'.live = tree.live \cup {c, p}
      /\ m = "tiled" => tree'.enabled \cap Container = (tree.enabled \cap Container) \cup {c}
      /\ m # "tiled" => tree'.enabled \cap Container = tree.enabled \cap Container
  <2> DEFINE e == Enable(SplitLeaf(tree, sib, c, p, pos), c)
             d == Disable(SplitLeaf(tree, sib, c, p, pos), c)
  <2>1. /\ Tree(tree, root) /\ EnabledUpward(tree) /\ tree.enabled \subseteq tree.live
        /\ p \in Internal \ tree.live /\ c \in Container \ tree.live
    BY <1>1, <1>2 DEF TreeInv
  <2>2. root' = IF root = sib THEN p ELSE root
    BY <1>1
  <2>3. CASE m = "tiled"
    <3>1. PICK u : u = e
      OBVIOUS
    <3>2. tree' = u
      BY <1>1, <2>3, <3>1
    <3>3. /\ Tree(u, IF root = sib THEN p ELSE root) /\ EnabledUpward(u)
          /\ u.enabled \subseteq u.live /\ u.live = tree.live \cup {c, p}
          /\ u.enabled \cap Container = (tree.enabled \cap Container) \cup {c}
      BY <2>1, <3>1, SplitThenEnable
    <3> QED BY <2>2, <2>3, <3>2, <3>3
  <2>4. CASE m # "tiled"
    <3>1. PICK u : u = d
      OBVIOUS
    <3>2. tree' = u
      BY <1>1, <2>4, <3>1
    <3>3. /\ Tree(u, IF root = sib THEN p ELSE root) /\ EnabledUpward(u)
          /\ u.enabled \subseteq u.live /\ u.live = tree.live \cup {c, p}
          /\ u.enabled \cap Container = tree.enabled \cap Container
      BY <2>1, <3>1, SplitThenEnable
    <3> QED BY <2>2, <2>4, <3>2, <3>3
  <2> QED BY <2>3, <2>4
<1>4. TreeInv'
  BY <1>2, <1>3 DEF TreeInv, Leaves
<1>5. ASSUME ModeInv PROVE ModeInv'
  BY <1>2, <1>3, <1>5, BspTreeAssumption DEF ModeInv, TreeInv, Leaves, Tiles, Modes
<1>6. ASSUME Reach PROVE Reach'
  BY <1>2, <1>3, <1>6, BspTreeAssumption DEF Reach, TreeInv, Leaves, Tiles, Modes
<1> QED BY <1>4, <1>5, <1>6

(* Removing a container that is not the only one of the tag.               *)
LEMMA RemoveTree ==
  ASSUME TreeInv, NEW c \in Container, NEW caller, Remove(c, caller)
  PROVE  TreeInv' /\ (Reach => Reach') /\ (ModeInv => ModeInv')
<1>1. /\ c \in tree.live /\ root # c /\ tree' = SpliceOut(tree, c)
      /\ root' = IF root = tree.parent[c] THEN Sibling(tree, c) ELSE root
      /\ last' = IF last = c THEN ClosestLeaf(tree, c) ELSE last
      /\ mode' = [mode EXCEPT ![c] = "tiled"]
  BY DEF Remove, Forget
<1>2. tree.parent[c] # NULL
  BY <1>1 DEF TreeInv, Tree, Rooted
<1>3. Tree(tree', root')
  BY <1>1, <1>2, SpliceKeepsTree DEF TreeInv
<1>4. /\ EnabledUpward(tree') /\ tree'.enabled \subseteq tree'.live
      /\ tree'.live \cap Container = (tree.live \cap Container) \ {c}
      /\ tree'.enabled \cap Container = (tree.enabled \cap Container) \ {c}
  BY <1>1, <1>2, SpliceKeepsUpward DEF TreeInv
<1>5. last' \in Leaves(tree')
  <2>1. ClosestLeaf(tree, c) \in (Container \cap tree.live) \ {c}
    BY <1>1, <1>2, ClosestLeafIsALeaf DEF TreeInv
  <2>2. last \in Leaves(tree)
    BY <1>1 DEF TreeInv, Tree, Rooted
  <2> QED BY <2>1, <2>2, <1>1, <1>4 DEF Leaves
<1>6. TreeInv'
  BY <1>3, <1>4, <1>5 DEF TreeInv, Leaves
<1>7. ASSUME ModeInv PROVE ModeInv'
  BY <1>1, <1>4, <1>7 DEF ModeInv, Leaves, Tiles, Modes
<1>8. ASSUME Reach PROVE Reach'
  BY <1>1, <1>4, <1>8 DEF Reach, Leaves, Tiles, Modes
<1> QED BY <1>6, <1>7, <1>8

(* Enabling or disabling a leaf where it is.                               *)
LEMMA SwitchTree ==
  ASSUME TreeInv, NEW c \in Container, Untile(c) \/ Retile(c)
  PROVE  TreeInv' /\ (Reach => Reach') /\ (ModeInv => ModeInv')
<1>1. /\ c \in Container \cap tree.live /\ root' = root /\ last' = last
      /\ \/ tree' = Disable(tree, c) /\ mode' = [mode EXCEPT ![c] = "hidden"]
         \/ tree' = Enable(tree, c) /\ mode' = [mode EXCEPT ![c] = "tiled"]
  BY DEF Untile, Retile, Forget, EnableLeaf, DisableLeaf
<1>2. \A m \in tree.enabled : tree.parent[m] # NULL => tree.parent[m] \in tree.enabled
  BY DEF TreeInv, EnabledUpward
<1>3. tree' = Enable(tree, c) =>
        /\ Tree(tree', root) /\ EnabledUpward(tree') /\ tree'.live = tree.live
        /\ tree'.enabled \cap Container = (tree.enabled \cap Container) \cup {c}
        /\ tree'.enabled \subseteq tree'.live
  BY <1>1, <1>2, EnableKeepsUpward DEF TreeInv
<1>4. tree' = Disable(tree, c) =>
        /\ Tree(tree', root) /\ EnabledUpward(tree') /\ tree'.live = tree.live
        /\ tree'.enabled \cap Container = (tree.enabled \cap Container) \ {c}
        /\ tree'.enabled \subseteq tree'.live
  BY <1>1, <1>2, DisableKeepsUpward DEF TreeInv
<1>5. TreeInv'
  BY <1>1, <1>3, <1>4 DEF TreeInv, Leaves
<1>6. ASSUME ModeInv PROVE ModeInv'
  BY <1>1, <1>3, <1>4, <1>6 DEF ModeInv, Leaves, Tiles, Modes
<1>7. ASSUME Reach PROVE Reach'
  BY <1>1, <1>3, <1>4, <1>7 DEF Reach, Leaves, Tiles, Modes
<1> QED BY <1>5, <1>6, <1>7

(* The tag gets its first container.                                       *)
LEMMA FirstTree ==
  ASSUME TreeInv, NEW c \in Container, NEW m \in FirstModes, NEW asks,
         InsertFirst(c, m, asks)
  PROVE  TreeInv' /\ (Reach => Reach') /\ (FirstModes = {"tiled"} /\ ModeInv => ModeInv')
<1>1. /\ root = NULL /\ c \notin tree.live /\ tree' = InsertRoot(tree, c)
      /\ root' = c /\ last' = c /\ mode' = [mode EXCEPT ![c] = m]
  BY DEF InsertFirst
<1>2. tree \in Forest /\ tree.live = {} /\ tree.enabled = {} /\ Linked(tree)
  BY <1>1 DEF TreeInv, Tree, Rooted
<1>3. c \in Node /\ c # NULL /\ c \notin Internal
  BY BspTreeAssumption DEF Node
<1>4. /\ tree' \in Forest /\ tree'.live = {c} /\ tree'.enabled = {c}
      /\ tree'.parent = tree.parent /\ tree'.left = tree.left /\ tree'.right = tree.right
  BY <1>1, <1>2, <1>3 DEF InsertRoot, Forest
<1>5. tree.parent[c] = NULL
  BY <1>2, <1>3 DEF Linked
<1>6. Linked(tree')
  BY <1>2, <1>3, <1>4, <1>5 DEF Linked, Children
<1>7. Acyclic(tree')
  <2> SUFFICES ASSUME NEW S \in (SUBSET {c}) \ {{}}
               PROVE  /\ \E x \in S : \A y \in S : tree'.parent[y] # x
                      /\ \E x \in S : tree'.parent[x] \notin S
    BY <1>4 DEF Acyclic
  <2>1. S = {c}
    OBVIOUS
  <2> QED BY <2>1, <1>3, <1>4, <1>5
<1>8. Rooted(tree', root') /\ EnabledUpward(tree')
  BY <1>1, <1>3, <1>4, <1>5 DEF Rooted, EnabledUpward
<1>9. TreeInv'
  BY <1>1, <1>4, <1>6, <1>7, <1>8 DEF TreeInv, Tree, Leaves
<1>10. ASSUME ModeInv, FirstModes = {"tiled"} PROVE ModeInv'
  BY <1>1, <1>4, <1>10 DEF ModeInv, Leaves, Tiles, Modes
<1>11. ASSUME Reach PROVE Reach'
  BY <1>1, <1>4, <1>11, BspAssumption DEF Reach, Leaves, Tiles, Modes
<1> QED BY <1>9, <1>10, <1>11

(* The tag loses its only container.                                       *)
LEMMA LastTree ==
  ASSUME TreeInv, NEW c \in Container, NEW asks, RemoveLast(c, asks)
  PROVE  TreeInv' /\ (Reach => Reach') /\ (ModeInv => ModeInv')
<1>1. /\ root = c /\ tree' = RemoveRoot(tree, c) /\ root' = NULL /\ last' = NULL
      /\ mode' = [mode EXCEPT ![c] = "tiled"]
  BY DEF RemoveLast, Forget
<1>2. /\ tree \in Forest /\ Linked(tree) /\ Acyclic(tree) /\ Rooted(tree, c)
      /\ c \in tree.live /\ c \notin Internal /\ NULL \notin Node
      /\ tree.enabled \subseteq tree.live
  BY <1>1, BspTreeAssumption DEF TreeInv, Tree, Rooted, Node
<1>3. tree.live = {c}
  <2>1. CASE tree.live \ {c} # {}
    <3>1. tree.live \ {c} \in (SUBSET tree.live) \ {{}}
      BY <2>1
    <3>2. PICK x \in tree.live \ {c} : tree.parent[x] \notin tree.live \ {c}
      BY <3>1, <1>2 DEF Acyclic
    <3>3. tree.parent[x] # NULL
      BY <3>2, <1>2 DEF Rooted
    <3>4. tree.parent[x] = c
      BY <3>2, <3>3, <1>2 DEF Linked
    <3>5. tree.parent[x] \in Internal \cup {NULL}
      BY <3>2, <1>2 DEF Forest
    <3> QED BY <3>3, <3>4, <3>5, <1>2
  <2> QED BY <2>1, <1>2
<1>4. tree.parent[c] = NULL
  BY <1>2 DEF Rooted
<1>5. /\ tree' \in Forest /\ tree'.live = {} /\ tree'.enabled = {}
      /\ tree'.parent = tree.parent /\ tree'.left = tree.left /\ tree'.right = tree.right
  BY <1>1, <1>2, <1>3 DEF RemoveRoot, Forest
<1>6. Linked(tree')
  BY <1>2, <1>3, <1>4, <1>5 DEF Linked, Children
<1>7. Acyclic(tree')
  BY <1>5 DEF Acyclic
<1>8. Rooted(tree', root') /\ EnabledUpward(tree')
  BY <1>1, <1>5 DEF Rooted, EnabledUpward
<1>9. TreeInv'
  BY <1>1, <1>5, <1>6, <1>7, <1>8 DEF TreeInv, Tree
<1>10. ASSUME ModeInv PROVE ModeInv'
  BY <1>1, <1>5, <1>10 DEF ModeInv, Leaves, Tiles, Modes
<1>11. ASSUME Reach PROVE Reach'
  BY <1>1, <1>5, <1>11 DEF Reach, Leaves, Tiles, Modes
<1> QED BY <1>9, <1>10, <1>11

(* Every step keeps the invariant.                                         *)
LEMMA NextTree ==
  ASSUME TreeInv, [Next]_vars
  PROVE  TreeInv' /\ (Reach => Reach') /\ (FirstModes = {"tiled"} /\ ModeInv => ModeInv')
<1>1. ASSUME NEW c \in Container, NEW m \in FirstModes, NEW asks \in BOOLEAN,
             InsertFirst(c, m, asks)
      PROVE  TreeInv' /\ (Reach => Reach') /\ (FirstModes = {"tiled"} /\ ModeInv => ModeInv')
  BY <1>1, FirstTree
<1>2. ASSUME NEW c \in Container, NEW m \in Modes, NEW asks \in BOOLEAN, Insert(c, m, asks)
      PROVE  TreeInv' /\ (Reach => Reach') /\ (ModeInv => ModeInv')
  <2>1. InsertBeside(c, last, RIGHT, m, asks) /\ last \in Container \cap tree.live
    BY <1>2 DEF Insert, InsertBeside, TreeInv, Leaves
  <2> QED BY <2>1, InsertBesideTree
<1>3. ASSUME NEW c \in Container, NEW sib \in Container, NEW pos \in {LEFT, RIGHT},
             Drop(c, sib, pos)
      PROVE  TreeInv' /\ (Reach => Reach') /\ (ModeInv => ModeInv')
  <2>1. InsertBeside(c, sib, pos, "tiled", FALSE) /\ sib \in Container \cap tree.live
    BY <1>3 DEF Drop
  <2> QED BY <2>1, InsertBesideTree DEF Modes
<1>4. ASSUME NEW c \in Container, NEW asks \in BOOLEAN, RemoveLast(c, asks)
      PROVE  TreeInv' /\ (Reach => Reach') /\ (ModeInv => ModeInv')
  BY <1>4, LastTree
<1>5. ASSUME NEW c \in Container, NEW caller, Remove(c, caller)
      PROVE  TreeInv' /\ (Reach => Reach') /\ (ModeInv => ModeInv')
  BY <1>5, RemoveTree
<1>6. ASSUME NEW c \in Container, Untile(c) \/ Retile(c)
      PROVE  TreeInv' /\ (Reach => Reach') /\ (ModeInv => ModeInv')
  BY <1>6, SwitchTree
<1>7. ASSUME NEW c \in Container, ToggleSplit(c) \/ (\E f \in Factors : SetFactor(c, f))
      PROVE  TreeInv' /\ (Reach => Reach') /\ (ModeInv => ModeInv')
  BY <1>7 DEF ToggleSplit, SetFactor, TreeInv, ModeInv, Reach, Leaves, Tiles
<1>8. ASSUME NEW c \in Container, Focus(c)
      PROVE  TreeInv' /\ (Reach => Reach') /\ (ModeInv => ModeInv')
  BY <1>8 DEF Focus, TreeInv, ModeInv, Reach, Leaves, Tiles
<1>9. ASSUME Arrange
      PROVE  TreeInv' /\ (Reach => Reach') /\ (ModeInv => ModeInv')
  BY <1>9 DEF Arrange, TreeInv, ModeInv, Reach, Leaves, Tiles
<1>10. ASSUME UNCHANGED vars
       PROVE  TreeInv' /\ (Reach => Reach') /\ (ModeInv => ModeInv')
  BY <1>10 DEF vars, TreeInv, ModeInv, Reach, Leaves, Tiles
<1> QED BY <1>1, <1>2, <1>3, <1>4, <1>5, <1>6, <1>7, <1>8, <1>9, <1>10 DEF Next

(* Whatever containers come, go, hide or are shown again, the nodes of the *)
(* tag form one tree with a focused leaf in it.                            *)
THEOREM TreeStays == Spec => []OneTree
<1>1. Init => TreeInv
  BY InitTree
<1>2. TreeInv /\ [Next]_vars => TreeInv'
  BY NextTree
<1>3. TreeInv => OneTree
  BY DEF TreeInv, OneTree, Tree, Rooted
<1> QED BY <1>1, <1>2, <1>3, PTL DEF Spec

(* A tag whose first container arrives tiled keeps every tiled container   *)
(* within the reach of bsp_update_node, and gives no room to a hidden one. *)
THEOREM TiledStaysReached ==
  ASSUME FirstModes = {"tiled"}
  PROVE  Spec => []TiledIsReached
<1>1. Init => TreeInv /\ ModeInv
  BY InitTree
<1>2. TreeInv /\ ModeInv /\ [Next]_vars => TreeInv' /\ ModeInv'
  BY NextTree
<1>3. TreeInv /\ ModeInv => TiledIsReached
  BY DEF TreeInv, ModeInv, TiledIsReached
<1> QED BY <1>1, <1>2, <1>3, PTL DEF Spec

----------------------------------------------------------------------------
(* Boxes, and those that lie in the usable area.                           *)
Within(b, a) ==
  /\ a.x <= b.x /\ b.x + b.w <= a.x + a.w
  /\ a.y <= b.y /\ b.y + b.h <= a.y + a.h

Boxes == [x : Int, y : Int, w : Nat, h : Nat]

Inside == { b \in Boxes : Within(b, UsableArea) }

(* The geometry, whose boxes all lie in the usable area.                   *)
Geos == [ split : [Internal -> {"H", "V", NULL}],
          wfact : [Internal -> 0 .. 15],
          box   : [Node -> Inside] ]

(* A part in sixteenths of a length is no longer than it.                  *)
LEMMA Portion == \A w \in Nat, f \in 0 .. 15 : (w * f) \div 16 \in 0 .. w
<1> SUFFICES ASSUME NEW w \in Nat, NEW f \in 0 .. 15 PROVE (w * f) \div 16 \in 0 .. w
  OBVIOUS
<1>1. w * f \in Nat /\ w * f <= w * 15
  OBVIOUS
<1> QED
  BY <1>1

(* What both children get is a box in that of their parent.                *)
LEMMA SharesAreBoxes ==
  ASSUME NEW g \in Geos, NEW i \in Internal, NEW b \in Boxes
  PROVE  /\ LeftShare(g, b, i) \in Boxes /\ Within(LeftShare(g, b, i), b)
         /\ RightShare(g, b, i) \in Boxes /\ Within(RightShare(g, b, i), b)
         /\ Disjoint(LeftShare(g, b, i), RightShare(g, b, i))
<1>1. PICK x \in Int, y \in Int, w \in Nat, h \in Nat : b = [x |-> x, y |-> y, w |-> w, h |-> h]
  BY DEF Boxes
<1>2. g.wfact[i] \in 0 .. 15
  BY DEF Geos
<1>3. PICK f \in 0 .. 15 : f = g.wfact[i]
  BY <1>2
<1>4. (w * f) \div 16 \in 0 .. w /\ (h * f) \div 16 \in 0 .. h
  BY Portion
<1>5. PICK wl \in 0 .. w, hl \in 0 .. h : wl = (w * f) \div 16 /\ hl = (h * f) \div 16
  BY <1>4
<1>6. CASE g.split[i] = "H"
  <2>1. LeftShare(g, b, i) = [x |-> x, y |-> y, w |-> wl, h |-> h]
    BY <1>1, <1>3, <1>5, <1>6 DEF LeftShare
  <2>2. RightShare(g, b, i) = [x |-> x + wl, y |-> y, w |-> w - wl, h |-> h]
    BY <1>1, <2>1, <1>6 DEF RightShare, Box
  <2> QED BY <1>1, <2>1, <2>2 DEF Boxes, Within, Disjoint
<1>7. CASE g.split[i] # "H"
  <2>1. LeftShare(g, b, i) = [x |-> x, y |-> y, w |-> w, h |-> hl]
    BY <1>1, <1>3, <1>5, <1>7 DEF LeftShare
  <2>2. RightShare(g, b, i) = [x |-> x, y |-> y + hl, w |-> w, h |-> h - hl]
    BY <1>1, <2>1, <1>7 DEF RightShare, Box
  <2> QED BY <1>1, <2>1, <2>2 DEF Boxes, Within, Disjoint
<1> QED BY <1>6, <1>7

(* A box within a box within a third.                                     *)
LEMMA WithinIsTransitive ==
  ASSUME NEW a \in Boxes, NEW b \in Boxes, NEW c \in Boxes, Within(a, b), Within(b, c)
  PROVE  Within(a, c)
BY DEF Boxes, Within

(* The boxes the code starts from.                                         *)
LEMMA AreaIsInside == UsableArea \in Inside /\ NoBox \in Inside
BY BspAssumption DEF UsableArea, NoBox, Box, Inside, Boxes, Within

(* What a child gets lies in the box of its parent.                        *)
LEMMA ShareIsInside ==
  ASSUME NEW t, NEW g \in Geos, NEW i \in Internal, NEW b \in Inside, NEW n
  PROVE  Share(t, g, b, i, n) \in Inside /\ Within(Share(t, g, b, i, n), b)
<1>1. b \in Boxes /\ Within(b, UsableArea) /\ UsableArea \in Boxes /\ Within(b, b)
  BY AreaIsInside DEF Inside, Boxes, Within
<1>2. Share(t, g, b, i, n) \in {b, LeftShare(g, b, i), RightShare(g, b, i)}
  BY DEF Share
<1>3. Share(t, g, b, i, n) \in Boxes /\ Within(Share(t, g, b, i, n), b)
  BY <1>1, <1>2, SharesAreBoxes
<1> QED BY <1>1, <1>3, WithinIsTransitive DEF Inside

(* The steps of bsp_update_node(top), and the nodes that it places.        *)
Down(t, top) == { <<t.parent[n], n>> : n \in { m \in HasParent(t) :
                    t.parent[m] = top \/ t.parent[m] \in t.enabled } }

Placed(t, top) == Visited(t, top, Down(t, top)) \ {top}

(* The box of n in what bsp_update_node makes of the boxes f above it.     *)
Becomes(t, g, top, f, n) ==
  IF n \in Placed(t, top) THEN Share(t, g, f[t.parent[n]], t.parent[n], n) ELSE g.box[n]

Body(t, g, top, f) == [n \in Node |-> Becomes(t, g, top, f, n)]

(* bsp_update_node is a recursion.  The model writes it as a recursive     *)
(* function; the boxes it leaves solve its equation if anything does.      *)
LEMMA UpdateSolves ==
  ASSUME NEW t, NEW g \in Geos, NEW top, NEW f, f = Body(t, g, top, f)
  PROVE \E h : h = Body(t, g, top, h) /\ UpdateNode(t, g, top) = [g EXCEPT !.box = h]
<1> DEFINE h == CHOOSE x : x = [n \in Node |-> IF n \in Placed(t, top)
          THEN Share(t, g, x[t.parent[n]], t.parent[n], n)
          ELSE g.box[n]]
<1>1. UpdateNode(t, g, top) = [g EXCEPT !.box = h]
  BY DEF UpdateNode, Placed, Down
<1>2. h = Body(t, g, top, h)
  BY DEF Body, Becomes
<1> QED BY <1>1, <1>2

(* Nodes that an update places hang below a node it visits.                *)
LEMMA PlacedIs ==
  ASSUME NEW t, NEW r, Tree(t, r), NEW top \in t.live
  PROVE  LET P == Placed(t, top)
         IN  /\ P \subseteq t.live /\ top \notin P
             /\ \A n \in P : /\ t.parent[n] \in Internal /\ t.parent[n] \in P \cup {top}
                             /\ t.parent[n] = top \/ t.parent[n] \in t.enabled
             /\ \A n \in t.live :
                  /\ t.parent[n] # NULL
                  /\ t.parent[n] = top \/ (t.parent[n] \in P /\ t.parent[n] \in t.enabled)
                  => n \in P \cup {top}
<1> DEFINE P == Placed(t, top)
           V == Visited(t, top, Down(t, top))
<1>1. t \in Forest /\ Linked(t)
  BY DEF Tree
<1>2. \A e \in Down(t, top) : e[2] \in t.live
  BY DEF Down, HasParent
<1>3. V \subseteq t.live /\ top \in V /\ (\A e \in Down(t, top) : e[1] \in V /\ e[2] \in t.live => e[2] \in V)
  BY VisitedIsLeast
<1>4. P = V \ {top}
  BY DEF Placed
<1> HIDE DEF P, V
<1>5. ASSUME NEW n \in P
      PROVE  /\ t.parent[n] \in Internal /\ t.parent[n] \in P \cup {top}
             /\ t.parent[n] = top \/ t.parent[n] \in t.enabled
  <2>1. n \in V /\ n # top
    BY <1>4
  <2>2. PICK e \in Down(t, top) : e[1] \in V /\ e[2] = n
    BY <1>2, <2>1, VisitedHasOrigin DEF V
  <2>3. e[1] = t.parent[n] /\ n \in HasParent(t) /\ (t.parent[n] = top \/ t.parent[n] \in t.enabled)
    BY <2>2 DEF Down
  <2>4. t.parent[n] \in Internal
    BY <2>3, <1>1 DEF HasParent, Forest
  <2> QED BY <2>2, <2>3, <2>4, <1>4
<1>6. ASSUME NEW n \in t.live, t.parent[n] # NULL,
             t.parent[n] = top \/ (t.parent[n] \in P /\ t.parent[n] \in t.enabled)
      PROVE  n \in P \cup {top}
  <2>1. <<t.parent[n], n>> \in Down(t, top)
    BY <1>6 DEF Down, HasParent
  <2>2. t.parent[n] \in V
    BY <1>6, <1>3, <1>4
  <2>3. n \in V
    BY <2>1, <2>2, <1>3
  <2> QED BY <2>3, <1>4
<1> QED BY <1>3, <1>4, <1>5, <1>6 DEF P

(* f solves the equation on the nodes of S, which hold what they depend on.*)
Solves(t, g, top, f, S) == \A n \in S : f[n] = Becomes(t, g, top, f, n)
ClosedIn(t, top, S) == \A n \in S : n \in Placed(t, top) => t.parent[n] \in S

(* Two solutions agree where both are.                                     *)
LEMMA SolutionsAgree ==
  ASSUME NEW t, NEW r, Tree(t, r), NEW g \in Geos, NEW top \in t.live,
         NEW S \in SUBSET Node, NEW f, ClosedIn(t, top, S), Solves(t, g, top, f, S),
         NEW R \in SUBSET Node, NEW h, ClosedIn(t, top, R), Solves(t, g, top, h, R)
  PROVE  \A n \in S \cap R : f[n] = h[n]
<1> DEFINE D == { n \in S \cap R : f[n] # h[n] }
<1> SUFFICES ASSUME D # {} PROVE FALSE
  OBVIOUS
<1>1. D \subseteq Placed(t, top)
  BY DEF Solves, Becomes
<1>2. D \in (SUBSET t.live) \ {{}}
  BY <1>1, PlacedIs
<1>3. PICK x \in D : t.parent[x] \notin D
  BY <1>2 DEF Tree, Acyclic
<1>4. t.parent[x] \in S \cap R
  BY <1>1, <1>3 DEF ClosedIn
<1>5. f[t.parent[x]] = h[t.parent[x]]
  BY <1>3, <1>4
<1> QED BY <1>1, <1>3, <1>5 DEF Solves, Becomes

(* There is a solution: the solutions on closed sets of nodes make one     *)
(* together, and could be extended to a node that none of them reaches.    *)
LEMMA SolutionExists ==
  ASSUME NEW t, NEW r, Tree(t, r), NEW g \in Geos, NEW top \in t.live
  PROVE  \E f \in [Node -> Inside] : f = Body(t, g, top, f)
<1> DEFINE C == { S \in SUBSET Node : ClosedIn(t, top, S)
                    /\ \E f \in [Node -> Inside] : Solves(t, g, top, f, S) }
           W == UNION C
           Is(n, b) == \E S \in C, f \in [Node -> Inside] :
                          n \in S /\ Solves(t, g, top, f, S) /\ b = f[n]
           h == [n \in Node |-> IF n \in W THEN CHOOSE b \in Inside : Is(n, b) ELSE g.box[n]]
<1>0. g.box \in [Node -> Inside]
  BY DEF Geos
<1>1. \A S \in C, f \in [Node -> Inside] : Solves(t, g, top, f, S) => \A n \in S : h[n] = f[n]
  <2> SUFFICES ASSUME NEW S \in C, NEW f \in [Node -> Inside], Solves(t, g, top, f, S), NEW n \in S
               PROVE  h[n] = f[n]
    OBVIOUS
  <2>1. n \in Node /\ n \in W
    OBVIOUS
  <2>2. f[n] \in Inside /\ Is(n, f[n])
    BY <2>1
  <2>3. h[n] \in Inside /\ Is(n, h[n])
    BY <2>1, <2>2
  <2>4. PICK R \in C, k \in [Node -> Inside] : n \in R /\ Solves(t, g, top, k, R) /\ h[n] = k[n]
    BY <2>3
  <2> HIDE DEF h, Is
  <2>5. f[n] = k[n]
    BY <2>4, SolutionsAgree
  <2> QED BY <2>4, <2>5
<1>2. h \in [Node -> Inside]
  <2> SUFFICES ASSUME NEW n \in Node PROVE h[n] \in Inside
    OBVIOUS
  <2>1. CASE n \notin W
    BY <2>1, <1>0
  <2>2. CASE n \in W
    <3>1. PICK S \in C : n \in S
      BY <2>2
    <3>2. PICK f \in [Node -> Inside] : Solves(t, g, top, f, S)
      BY <3>1
    <3>3. h[n] = f[n]
      BY <3>1, <3>2, <1>1
    <3> QED BY <3>2, <3>3
  <2> QED BY <2>1, <2>2
<1> HIDE DEF h, Is
<1>3. W \in SUBSET Node /\ ClosedIn(t, top, W)
  BY DEF ClosedIn
<1>4. Solves(t, g, top, h, W)
  <2> SUFFICES ASSUME NEW n \in W PROVE h[n] = Becomes(t, g, top, h, n)
    BY DEF Solves
  <2>1. PICK S \in C : n \in S
    OBVIOUS
  <2>2. PICK f \in [Node -> Inside] : Solves(t, g, top, f, S)
    BY <2>1
  <2>3. \A m \in S : h[m] = f[m]
    BY <2>1, <2>2, <1>1
  <2>4. n \in Placed(t, top) => t.parent[n] \in S
    BY <2>1 DEF ClosedIn
  <2>5. f[n] = Becomes(t, g, top, f, n)
    BY <2>1, <2>2 DEF Solves
  <2> QED BY <2>1, <2>3, <2>4, <2>5 DEF Becomes
<1>5. ASSUME NEW x \in Node \ W, x \in Placed(t, top) => t.parent[x] \in W
      PROVE  FALSE
  <2> DEFINE b == Becomes(t, g, top, h, x)
             k == [h EXCEPT ![x] = b]
  <2>1. b \in Inside
    <3>1. CASE x \notin Placed(t, top)
      BY <3>1, <1>0 DEF Becomes
    <3>2. CASE x \in Placed(t, top)
      <4>1. t.parent[x] \in Internal /\ t.parent[x] \in Node
        BY <3>2, PlacedIs DEF Node
      <4>2. h[t.parent[x]] \in Inside
        BY <4>1, <1>2
      <4> QED BY <3>2, <4>1, <4>2, ShareIsInside DEF Becomes
    <3> QED BY <3>1, <3>2
  <2> HIDE DEF b
  <2>2. k \in [Node -> Inside]
    BY <1>2, <2>1
  <2>3. k[x] = b /\ \A n \in W : k[n] = h[n]
    <3>1. x \notin W /\ \A n \in W : n \in Node
      BY <1>3
    <3> HIDE DEF W
    <3> QED BY <1>2, <3>1
  <2> HIDE DEF k
  <2>4. W \cup {x} \in SUBSET Node /\ ClosedIn(t, top, W \cup {x})
    BY <1>3, <1>5 DEF ClosedIn
  <2>5. Solves(t, g, top, k, W \cup {x})
    <3> SUFFICES ASSUME NEW n \in W \cup {x} PROVE k[n] = Becomes(t, g, top, k, n)
      BY DEF Solves
    <3>1. n \in Placed(t, top) => t.parent[n] \in W
      BY <1>3, <1>5 DEF ClosedIn
    <3>2. Becomes(t, g, top, k, n) = Becomes(t, g, top, h, n)
      BY <3>1, <2>3 DEF Becomes
    <3> QED BY <3>2, <2>3, <1>4 DEF Solves, b
  <2>6. W \cup {x} \in C
    BY <2>2, <2>4, <2>5
  <2> QED BY <2>6
<1>6. W = Node
  <2> SUFFICES ASSUME Node \ W # {} PROVE FALSE
    BY <1>3
  <2>1. Node \ W \in (SUBSET t.live) \ {{}}
    BY <1>5, PlacedIs
  <2>2. PICK x \in Node \ W : t.parent[x] \notin Node \ W
    BY <2>1 DEF Tree, Acyclic
  <2>3. x \in Placed(t, top) => t.parent[x] \in Node
    BY PlacedIs DEF Node
  <2> QED BY <2>2, <2>3, <1>5
<1>7. h = Body(t, g, top, h)
  <2> HIDE DEF C, W
  <2>1. \A n \in Node : h[n] = Becomes(t, g, top, h, n)
    BY <1>4, <1>6 DEF Solves
  <2>2. h = [n \in Node |-> h[n]]
    BY <1>2
  <2> QED BY <2>1, <2>2, Zenon DEF Body
<1> QED BY <1>2, <1>7

(* What a tree says of its nodes.                                          *)
LEMMA NodesAre ==
  ASSUME NEW t, NEW r, Tree(t, r)
  PROVE  /\ t.live \subseteq Node /\ t.enabled \subseteq Node /\ NULL \notin Node
         /\ \A n \in Node : t.parent[n] \in Internal \cup {NULL}
         /\ \A n \in t.live : t.parent[n] # NULL => t.parent[n] \in Internal \cap t.live
         /\ \A n \in t.live : t.parent[n] = NULL <=> n = r
         /\ r # NULL => r \in t.live /\ t.parent[r] = NULL
         /\ r = NULL => t.live = {}
         /\ Internal \subseteq Node /\ Container \subseteq Node /\ Container \cap Internal = {}
BY BspTreeAssumption DEF Tree, Forest, Linked, Rooted, Node

(* A node is not placed below itself.                                      *)
LEMMA TopIsAbove ==
  ASSUME NEW t, NEW r, Tree(t, r), NEW top \in t.live
  PROVE  t.parent[top] \notin Placed(t, top) \cup {top}
<1> DEFINE P == Placed(t, top)
<1>1. /\ P \subseteq t.live
      /\ \A n \in P : t.parent[n] \in P \cup {top}
  BY PlacedIs
<1> SUFFICES ASSUME t.parent[top] \in P \cup {top} PROVE FALSE
  OBVIOUS
<1>2. P \cup {top} \in (SUBSET t.live) \ {{}}
  BY <1>1
<1> HIDE DEF P
<1>3. PICK x \in P \cup {top} : t.parent[x] \notin P \cup {top}
  BY <1>2 DEF Tree, Acyclic
<1> QED BY <1>1, <1>3

(* bsp_update_node: the nodes that are placed have their share, the others *)
(* have the box they had.                                                  *)
LEMMA UpdateIs ==
  ASSUME NEW t, NEW r, Tree(t, r), NEW g \in Geos, NEW top \in t.live
  PROVE  LET u == UpdateNode(t, g, top)
         IN  /\ u \in Geos /\ u.split = g.split /\ u.wfact = g.wfact
             /\ \A n \in Node : u.box[n] =
                  IF n \in Placed(t, top)
                    THEN Share(t, g, u.box[t.parent[n]], t.parent[n], n)
                    ELSE g.box[n]
<1> DEFINE u == UpdateNode(t, g, top)
<1>1. PICK f \in [Node -> Inside] : f = Body(t, g, top, f)
  BY SolutionExists
<1>2. PICK h : h = Body(t, g, top, h) /\ u = [g EXCEPT !.box = h]
  BY <1>1, UpdateSolves
<1>3. /\ Solves(t, g, top, f, Node) /\ Solves(t, g, top, h, Node)
      /\ h = [n \in Node |-> Becomes(t, g, top, h, n)]
  BY <1>1, <1>2 DEF Solves, Body
<1>4. ClosedIn(t, top, Node)
  BY PlacedIs DEF ClosedIn, Node
<1>5. \A n \in Node : f[n] = h[n]
  BY <1>3, <1>4, SolutionsAgree
<1>6. h \in [Node -> Inside]
  BY <1>3, <1>5
<1>7. u.box = h /\ u.split = g.split /\ u.wfact = g.wfact /\ u \in Geos
  BY <1>2, <1>6 DEF Geos
<1> HIDE DEF u
<1>8. \A n \in Node : u.box[n] = IF n \in Placed(t, top)
                    THEN Share(t, g, u.box[t.parent[n]], t.parent[n], n)
                    ELSE g.box[n]
  BY <1>3, <1>7 DEF Solves, Becomes
<1> QED BY <1>7, <1>8 DEF u

(* The boxes of hidden leaves are forgotten, and only they.                *)
LEMMA TrackedIs ==
  ASSUME NEW g \in Geos, NEW m
  PROVE  LET u == Tracked(g, m)
         IN  /\ u \in Geos /\ u.split = g.split /\ u.wfact = g.wfact
             /\ \A n \in Node : n \in Internal \/ m[n] = "tiled" => u.box[n] = g.box[n]
<1> DEFINE u == Tracked(g, m)
           hidden == { c \in Container : m[c] = "hidden" }
<1>1. g.box \in [Node -> Inside]
  BY DEF Geos
<1>2. /\ u.split = g.split /\ u.wfact = g.wfact
      /\ u.box = [n \in Node |-> IF n \in hidden THEN NoBox ELSE g.box[n]]
      /\ u = [g EXCEPT !.box = u.box]
  BY DEF Tracked, Geos
<1> HIDE DEF u
<1>3. u.box \in [Node -> Inside]
  BY <1>1, <1>2, AreaIsInside
<1>4. u \in Geos
  BY <1>2, <1>3 DEF Geos
<1>5. \A n \in Node : n \in Internal \/ m[n] = "tiled" => u.box[n] = g.box[n]
  BY <1>2, BspTreeAssumption
<1> QED BY <1>2, <1>4, <1>5 DEF u

(* The nodes whose box is seen: those of tiled containers and above.       *)
Seen(t, m) == { n \in t.enabled : n \in Internal \/ m[n] = "tiled" }

(* What the parent of n leaves to it.                                      *)
Given(t, g, n) == Share(t, g, g.box[t.parent[n]], t.parent[n], n)

(* Boxes that lie in what is given, and boxes that are just that.          *)
Nested(t, g, m) ==
  \A n \in Seen(t, m) : t.parent[n] # NULL => Within(g.box[n], Given(t, g, n))

Exact(t, g, m, r) ==
  /\ r \in Internal \cup Seen(t, m) => g.box[r] = UsableArea
  /\ \A n \in Seen(t, m) : t.parent[n] # NULL => g.box[n] = Given(t, g, n)

(* What a node is given depends on its parent and its sibling only.        *)
LEMMA SameShare ==
  ASSUME NEW t, NEW g, NEW s, NEW h, NEW b, NEW i, NEW n,
         h.split[i] = g.split[i], h.wfact[i] = g.wfact[i],
         n = t.left[i] <=> n = s.left[i],
         Sibling(t, n) \in t.enabled <=> Sibling(s, n) \in s.enabled
  PROVE  Share(t, g, b, i, n) = Share(s, h, b, i, n)
BY DEF Share, LeftShare, RightShare

(* What a node is given lies in the box of its parent.                     *)
LEMMA GivenIsInside ==
  ASSUME NEW t, NEW r, Tree(t, r), NEW g \in Geos, NEW n \in t.live, t.parent[n] # NULL
  PROVE  /\ Given(t, g, n) \in Inside /\ Given(t, g, n) \in Boxes
         /\ Within(Given(t, g, n), Given(t, g, n))
         /\ Within(Given(t, g, n), g.box[t.parent[n]])
<1>1. t.parent[n] \in Internal /\ t.parent[n] \in Node
  BY NodesAre
<1>2. g.box[t.parent[n]] \in Inside
  BY <1>1 DEF Geos
<1>3. Given(t, g, n) \in Inside /\ Within(Given(t, g, n), g.box[t.parent[n]])
  BY <1>1, <1>2, ShareIsInside DEF Given
<1> HIDE DEF Given
<1> QED BY <1>3 DEF Inside, Within, Boxes

(* A box that is what is given lies in it.                                 *)
LEMMA ExactIsNested ==
  ASSUME NEW t, NEW r, Tree(t, r), t.enabled \subseteq t.live, NEW g \in Geos, NEW m,
         Exact(t, g, m, r)
  PROVE  Nested(t, g, m)
BY GivenIsInside DEF Exact, Nested, Seen

(* After an update and the forgetting of hidden boxes, a node that is seen *)
(* has what it is given, or nothing has changed for it.                    *)
LEMMA UpdatePlaces ==
  ASSUME NEW t, NEW r, Tree(t, r), EnabledUpward(t), t.enabled \subseteq t.live,
         NEW g \in Geos, NEW top \in t.live, NEW m,
         NEW u, u = Tracked(UpdateNode(t, g, top), m)
  PROVE  /\ u \in Geos /\ u.split = g.split /\ u.wfact = g.wfact
         /\ \A n \in Internal \cup Seen(t, m) : n \notin Placed(t, top) => u.box[n] = g.box[n]
         /\ \A n \in Seen(t, m) : t.parent[n] # NULL =>
              \/ u.box[n] = Given(t, u, n)
              \/ /\ n \notin Placed(t, top)
                 /\ t.parent[n] \notin Placed(t, top) \cup {top}
                 /\ u.box[n] = g.box[n] /\ u.box[t.parent[n]] = g.box[t.parent[n]]
<1> DEFINE v == UpdateNode(t, g, top)
           P == Placed(t, top)
<1>1. /\ v \in Geos /\ v.split = g.split /\ v.wfact = g.wfact
      /\ \A n \in Node : v.box[n] = IF n \in P THEN Share(t, g, v.box[t.parent[n]], t.parent[n], n)
                                    ELSE g.box[n]
  BY UpdateIs
<1> HIDE DEF v, P
<1>2. /\ u \in Geos /\ u.split = g.split /\ u.wfact = g.wfact
      /\ \A n \in Node : n \in Internal \/ m[n] = "tiled" => u.box[n] = v.box[n]
  BY <1>1, TrackedIs DEF v
<1>3. /\ Seen(t, m) \subseteq Node /\ Internal \subseteq Node /\ Seen(t, m) \subseteq t.live
      /\ \A n \in Seen(t, m) : n \in Internal \/ m[n] = "tiled"
  BY NodesAre DEF Seen
<1>4. \A n \in Internal \cup Seen(t, m) : n \notin P => u.box[n] = g.box[n]
  BY <1>1, <1>2, <1>3
<1>5. ASSUME NEW n \in Seen(t, m), t.parent[n] # NULL, u.box[n] # Given(t, u, n)
      PROVE  /\ n \notin P /\ t.parent[n] \notin P \cup {top}
             /\ u.box[n] = g.box[n] /\ u.box[t.parent[n]] = g.box[t.parent[n]]
  <2>1. t.parent[n] \in Internal /\ t.parent[n] \in Node /\ n \in Node /\ n \in t.live
    BY <1>3, <1>5, NodesAre
  <2>2. n \notin P
    <3> SUFFICES ASSUME n \in P PROVE FALSE
      OBVIOUS
    <3>1. u.box[n] = Share(t, g, v.box[t.parent[n]], t.parent[n], n)
      BY <1>1, <1>2, <1>3, <2>1
    <3>2. v.box[t.parent[n]] = u.box[t.parent[n]]
      BY <1>2, <2>1
    <3>3. Share(t, g, u.box[t.parent[n]], t.parent[n], n) = Given(t, u, n)
      BY <1>2, SameShare DEF Given
    <3> QED BY <3>1, <3>2, <3>3, <1>5
  <2>3. t.parent[n] \in t.enabled
    BY <1>5 DEF Seen, EnabledUpward
  <2>4. t.parent[n] \notin P \cup {top}
    <3>1. t.parent[n] \in P \cup {top} => n \in P \cup {top}
      BY <2>1, <2>3, <1>5, PlacedIs DEF P
    <3>2. t.parent[top] \notin P \cup {top}
      BY TopIsAbove DEF P
    <3> QED BY <3>1, <3>2, <2>2
  <2> QED BY <2>1, <2>2, <2>4, <1>4
<1> QED BY <1>2, <1>4, <1>5 DEF P

(* From the root, every node that is seen is placed.                       *)
LEMMA RootPlaces ==
  ASSUME NEW t, NEW r, Tree(t, r), r # NULL, EnabledUpward(t), t.enabled \subseteq t.live
  PROVE  t.enabled \subseteq Placed(t, r) \cup {r}
<1> DEFINE D == t.enabled \ (Placed(t, r) \cup {r})
<1> SUFFICES ASSUME D # {} PROVE FALSE
  OBVIOUS
<1>1. D \in (SUBSET t.live) \ {{}}
  OBVIOUS
<1>2. PICK x \in D : t.parent[x] \notin D
  BY <1>1 DEF Tree, Acyclic
<1>3. t.parent[x] # NULL
  BY <1>2, NodesAre
<1>4. t.parent[x] \in t.enabled
  BY <1>2, <1>3 DEF EnabledUpward
<1>5. x \in Placed(t, r) \cup {r}
  BY <1>2, <1>3, <1>4, NodesAre, PlacedIs
<1> QED BY <1>2, <1>5

(* A tree whose root is a leaf has no other node.                          *)
LEMMA LeafRoot ==
  ASSUME NEW t, NEW r \in Container, Tree(t, r)
  PROVE  t.live = {r}
<1>1. /\ r # NULL /\ r \notin Internal /\ r \in t.live
  BY BspTreeAssumption DEF Tree, Rooted
<1> SUFFICES ASSUME t.live \ {r} # {} PROVE FALSE
  BY <1>1
<1>2. t.live \ {r} \in (SUBSET t.live) \ {{}}
  OBVIOUS
<1>3. PICK x \in t.live \ {r} : t.parent[x] \notin t.live \ {r}
  BY <1>2 DEF Tree, Acyclic
<1> QED BY <1>1, <1>3, NodesAre

(* From the root, every node that is seen gets what it is given.           *)
LEMMA RootGives ==
  ASSUME NEW t, NEW r, Tree(t, r), EnabledUpward(t), t.enabled \subseteq t.live,
         r \in Internal, NEW g \in Geos, NEW m,
         NEW u, u = Tracked(UpdateNode(t, g, r), m)
  PROVE  /\ u \in Geos /\ u.box[r] = g.box[r]
         /\ \A n \in Seen(t, m) : t.parent[n] # NULL => u.box[n] = Given(t, u, n)
<1>1. r # NULL /\ r \in t.live /\ t.parent[r] = NULL
  BY NodesAre
<1>2. /\ u \in Geos
      /\ \A n \in Internal \cup Seen(t, m) : n \notin Placed(t, r) => u.box[n] = g.box[n]
      /\ \A n \in Seen(t, m) : t.parent[n] # NULL =>
           u.box[n] = Given(t, u, n) \/ n \notin Placed(t, r)
  BY <1>1, UpdatePlaces
<1>3. r \notin Placed(t, r)
  BY <1>1, PlacedIs
<1>4. \A n \in Seen(t, m) : t.parent[n] # NULL => n \in Placed(t, r)
  BY <1>1, RootPlaces DEF Seen
<1> QED BY <1>2, <1>3, <1>4

(* bsp_update_root makes the boxes exact.                                  *)
LEMMA UpdateRootIsExact ==
  ASSUME NEW t, NEW r, Tree(t, r), EnabledUpward(t), t.enabled \subseteq t.live,
         NEW g \in Geos, NEW m,
         NEW u, u = Tracked(UpdateRoot(t, g, r), m)
  PROVE  u \in Geos /\ Exact(t, u, m, r)
<1> DEFINE whole == IF r = NULL THEN g ELSE [g EXCEPT !.box[r] = UsableArea]
<1>1. r # NULL => r \in Node
  BY NodesAre
<1>2. whole \in Geos
  BY <1>1, AreaIsInside DEF Geos
<1>3. r # NULL => whole.box[r] = UsableArea
  BY <1>1 DEF Geos
<1>4. u = Tracked(IF r \in Internal THEN UpdateNode(t, whole, r) ELSE whole, m)
  BY DEF UpdateRoot
<1> HIDE DEF whole
<1>5. CASE r \in Internal
  <2>1. r # NULL
    BY <1>5, BspTreeAssumption
  <2>2. u = Tracked(UpdateNode(t, whole, r), m)
    BY <1>4, <1>5
  <2>3. /\ u \in Geos /\ u.box[r] = whole.box[r]
        /\ \A n \in Seen(t, m) : t.parent[n] # NULL => u.box[n] = Given(t, u, n)
    BY <1>2, <1>5, <2>2, RootGives
  <2> QED BY <2>1, <2>3, <1>3 DEF Exact
<1>6. CASE r = NULL
  <2>1. Seen(t, m) = {} /\ r \notin Internal
    BY <1>6, NodesAre, BspTreeAssumption DEF Seen
  <2>2. u \in Geos
    BY <1>2, <1>4, <2>1, TrackedIs
  <2> QED BY <2>1, <2>2 DEF Exact
<1>7. CASE r \in Container
  <2>1. t.live = {r} /\ r \notin Internal /\ r # NULL /\ t.parent[r] = NULL
    BY <1>7, LeafRoot, NodesAre, BspTreeAssumption
  <2>2. u = Tracked(whole, m)
    BY <1>4, <2>1
  <2>3. u \in Geos /\ (r \in Internal \/ m[r] = "tiled" => u.box[r] = whole.box[r])
    BY <1>1, <1>2, <2>1, <2>2, TrackedIs
  <2> QED BY <2>1, <2>3, <1>3 DEF Exact, Seen
<1> QED BY <1>1, <1>5, <1>6, <1>7 DEF Node

(* The room that a hidden leaf leaves is given to boxes of the area.       *)
LEMMA DisableLeafFits ==
  ASSUME NEW t, NEW r, Tree(t, r), NEW g \in Geos,
         NEW c \in Container \cap t.live, NEW asks, DisableLeaf(t, g, r, c, asks)
  PROVE  geo' \in Geos
<1> DEFINE cleared == Visited(t, c, StepsUpIfIdle(t))
           topmost == CHOOSE n \in cleared : t.parent[n] \notin cleared
           above   == t.parent[topmost]
           t2      == Disable(t, c)
<1>1. cleared \in (SUBSET t.live) \ {{}}
  BY VisitedIsLeast
<1>2. topmost \in cleared
  BY <1>1 DEF Tree, Acyclic
<1>3. above # NULL => above \in t.live
  BY <1>1, <1>2, NodesAre
<1>4. Tree(t2, r) /\ t2.live = t.live
  BY DEF Disable, Tree, Forest, Linked, Children, Acyclic, Rooted
<1>5. geo' = Tracked(IF topmost \in Internal /\ above # NULL
                       THEN UpdateNode(t2, g, above) ELSE g, mode')
  BY DEF DisableLeaf
<1> HIDE DEF cleared, topmost, above, t2
<1>6. CASE topmost \in Internal /\ above # NULL
  <2>1. above \in t2.live
    BY <1>3, <1>4, <1>6
  <2>2. UpdateNode(t2, g, above) \in Geos
    BY <1>4, <2>1, UpdateIs
  <2> QED BY <1>5, <1>6, <2>2, TrackedIs
<1>7. CASE ~ (topmost \in Internal /\ above # NULL)
  BY <1>5, <1>7, TrackedIs
<1> QED BY <1>6, <1>7

(* An enabled leaf has everything placed from the root.                    *)
LEMMA EnableLeafGives ==
  ASSUME NEW t, NEW r, NEW c, NEW asks, NEW g \in Geos,
         EnableLeaf(t, g, r, c, asks),
         Tree(tree', r), EnabledUpward(tree'), tree'.enabled \subseteq tree'.live
  PROVE  /\ geo' \in Geos
         /\ r \in Internal =>
              /\ geo'.box[r] = g.box[r]
              /\ \A n \in Seen(tree', mode') : tree'.parent[n] # NULL =>
                   geo'.box[n] = Given(tree', geo', n)
<1>1. geo' = Tracked(IF r \in Internal THEN UpdateNode(tree', g, r) ELSE g, mode')
  BY DEF EnableLeaf
<1>2. CASE r \in Internal
  BY <1>1, <1>2, RootGives
<1>3. CASE r \notin Internal
  BY <1>1, <1>3, TrackedIs
<1> QED BY <1>2, <1>3

----------------------------------------------------------------------------
(* The geometry of the tag: whatever is pending, boxes of the area; with   *)
(* no arrangement pending, boxes within what their parents give, and just  *)
(* that when nothing has been neglected either.                            *)
GeoInv ==
  /\ geo \in Geos
  /\ scheduled \in BOOLEAN /\ neglected \in BOOLEAN
  /\ ~ scheduled => Nested(tree, geo, mode)
  /\ ~ scheduled /\ ~ neglected => Exact(tree, geo, mode, root)

(* While an arrangement is pending, boxes of the area are all there is.    *)
LEMMA PendingIsFine ==
  ASSUME geo' \in Geos, scheduled' = TRUE, neglected' \in BOOLEAN
  PROVE  GeoInv'
BY DEF GeoInv

(* Exact boxes are fine, pending or not.                                   *)
LEMMA ExactIsFine ==
  ASSUME Tree(tree', root'), tree'.enabled \subseteq tree'.live,
         geo' \in Geos, scheduled' \in BOOLEAN, neglected' \in BOOLEAN,
         Exact(tree', geo', mode', root')
  PROVE  GeoInv'
<1>1. Nested(tree', geo', mode')
  BY ExactIsNested
<1> QED BY <1>1 DEF GeoInv

(* A leaf is inserted, enabled.                                            *)
LEMMA TiledInsertFits ==
  ASSUME TreeInv, TreeInv', GeoInv,
         NEW c \in Container, NEW sib \in Container \cap tree.live,
         NEW pos, NEW asks \in BOOLEAN, InsertBeside(c, sib, pos, "tiled", asks)
  PROVE  GeoInv'
<1>1. PICK p \in Internal \ tree.live, s \in {"H", "V"} :
        LET r == IF root = sib THEN p ELSE root
            g == [geo EXCEPT
                   !.split[p] = s,
                   !.wfact[p] = Even,
                   !.box[p]   = IF root = sib THEN UsableArea ELSE geo.box[sib]]
        IN  /\ root' = r
            /\ EnableLeaf(SplitLeaf(tree, sib, c, p, pos), g, r, c, asks)
            /\ tree' = Enable(SplitLeaf(tree, sib, c, p, pos), c)
  <2>1. PICK p \in Internal \ tree.live, s \in {"H", "V"} :
          LET r == IF root = sib THEN p ELSE root
              g == [geo EXCEPT
                     !.split[p] = s,
                     !.wfact[p] = Even,
                     !.box[p]   = IF root = sib THEN UsableArea ELSE geo.box[sib]]
          IN  root' = r /\ EnableLeaf(SplitLeaf(tree, sib, c, p, pos), g, r, c, asks)
    BY Zenon DEF InsertBeside
  <2>2. tree' = Enable(SplitLeaf(tree, sib, c, p, pos), c)
    BY <2>1, Zenon DEF EnableLeaf
  <2> QED BY <2>1, <2>2, Zenon
<1> DEFINE g == [geo EXCEPT
                   !.split[p] = s,
                   !.wfact[p] = Even,
                   !.box[p]   = IF root = sib THEN UsableArea ELSE geo.box[sib]]
<1>2. /\ geo \in Geos /\ p \in Node /\ sib \in Node /\ p \in Internal
      /\ geo.split \in [Internal -> {"H", "V", NULL}]
      /\ geo.wfact \in [Internal -> 0 .. 15]
      /\ geo.box \in [Node -> Inside]
      /\ Even \in 0 .. 15
  BY DEF GeoInv, Geos, Node, Even
<1>3. g \in Geos
  <2>1. (IF root = sib THEN UsableArea ELSE geo.box[sib]) \in Inside
    BY <1>2, AreaIsInside
  <2> QED BY <1>2, <2>1 DEF Geos
<1>4. \A n \in Node : n # p => g.box[n] = geo.box[n]
  BY <1>2
<1>5. root = sib => g.box[p] = UsableArea
  BY <1>2
<1>6. PICK h \in Geos : h = g
  BY <1>3
<1> HIDE DEF g
<1>7. /\ Tree(tree, root) /\ Tree(tree', root') /\ EnabledUpward(tree')
      /\ tree'.enabled \subseteq tree'.live
  BY DEF TreeInv
<1>8. root' \in Internal
  <2>1. CASE root = sib
    BY <1>1, <2>1
  <2>2. CASE root # sib
    <3>1. root \in Node
      BY <1>7, NodesAre
    <3>2. root \notin Container
      BY <1>7, <2>2, LeafRoot
    <3> QED BY <1>1, <2>2, <3>1, <3>2 DEF Node
  <2> QED BY <2>1, <2>2
<1>9. EnableLeaf(SplitLeaf(tree, sib, c, p, pos), h, root', c, asks)
  BY <1>1, <1>6 DEF g
<1>10. /\ geo' \in Geos /\ geo'.box[root'] = h.box[root']
       /\ \A n \in Seen(tree', mode') : tree'.parent[n] # NULL =>
            geo'.box[n] = Given(tree', geo', n)
  BY <1>7, <1>8, <1>9, EnableLeafGives
<1>11. scheduled' \in BOOLEAN /\ neglected' = neglected /\ (~ scheduled' => ~ scheduled)
  BY <1>9 DEF EnableLeaf, InsertBeside, GeoInv
<1>12. Nested(tree', geo', mode')
  BY <1>7, <1>10, GivenIsInside DEF Nested, Seen
<1>13. ~ scheduled' /\ ~ neglected' => geo'.box[root'] = UsableArea
  <2> SUFFICES ASSUME ~ scheduled', ~ neglected' PROVE geo'.box[root'] = UsableArea
    OBVIOUS
  <2>1. Exact(tree, geo, mode, root)
    BY <1>11 DEF GeoInv
  <2>2. CASE root = sib
    BY <1>1, <1>5, <1>6, <1>10, <2>2
  <2>3. CASE root # sib
    <3>1. root' = root /\ root \in Internal /\ root \in Node /\ root # p
      BY <1>1, <1>7, <1>8, <2>3, NodesAre
    <3>2. geo.box[root] = UsableArea
      BY <2>1, <3>1 DEF Exact
    <3> QED BY <1>4, <1>6, <1>10, <3>1, <3>2
  <2> QED BY <2>2, <2>3
<1> QED BY <1>10, <1>11, <1>12, <1>13 DEF GeoInv, Exact

(* A leaf is inserted, disabled.                                           *)
LEMMA HiddenInsertFits ==
  ASSUME TreeInv, GeoInv,
         NEW c \in Container, NEW sib \in Container \cap tree.live,
         NEW pos, InsertBeside(c, sib, pos, "hidden", TRUE)
  PROVE  GeoInv'
<1>1. PICK p \in Internal \ tree.live, s \in {"H", "V"} :
        LET r == IF root = sib THEN p ELSE root
            g == [geo EXCEPT
                   !.split[p] = s,
                   !.wfact[p] = Even,
                   !.box[p]   = IF root = sib THEN UsableArea ELSE geo.box[sib]]
        IN  DisableLeaf(SplitLeaf(tree, sib, c, p, pos), g, r, c, TRUE)
  BY DEF InsertBeside
<1> DEFINE t == SplitLeaf(tree, sib, c, p, pos)
           r == IF root = sib THEN p ELSE root
           g == [geo EXCEPT
                   !.split[p] = s,
                   !.wfact[p] = Even,
                   !.box[p]   = IF root = sib THEN UsableArea ELSE geo.box[sib]]
<1>2. /\ geo \in Geos /\ p \in Node /\ sib \in Node /\ p \in Internal
      /\ geo.split \in [Internal -> {"H", "V", NULL}]
      /\ geo.wfact \in [Internal -> 0 .. 15]
      /\ geo.box \in [Node -> Inside]
      /\ Even \in 0 .. 15
  BY DEF GeoInv, Geos, Node, Even
<1>3. g \in Geos
  <2>1. (IF root = sib THEN UsableArea ELSE geo.box[sib]) \in Inside
    BY <1>2, AreaIsInside
  <2> QED BY <1>2, <2>1 DEF Geos
<1>4. Tree(t, r) /\ c \in t.live
  <2>1. c \in Container \ tree.live /\ Tree(tree, root)
    BY DEF InsertBeside, TreeInv
  <2>2. Tree(t, r)
    BY <2>1, SplitKeepsTree
  <2>3. c \in t.live
    BY DEF SplitLeaf
  <2> QED BY <2>2, <2>3
<1>5. DisableLeaf(t, g, r, c, TRUE)
  BY <1>1
<1>6. PICK t1, r1, g1 : t1 = t /\ r1 = r /\ g1 = g
  OBVIOUS
<1> HIDE DEF t, r, g
<1>7. geo' \in Geos
  BY <1>3, <1>4, <1>5, <1>6, DisableLeafFits
<1>8. scheduled' = TRUE /\ neglected' \in BOOLEAN
  BY <1>5 DEF DisableLeaf, InsertBeside, GeoInv
<1> QED BY <1>7, <1>8, PendingIsFine

(* The tag gets its first container, or loses its only one.                *)
LEMMA FirstAndLastFit ==
  ASSUME TreeInv, TreeInv', GeoInv, NEW c \in Container, NEW asks \in BOOLEAN,
         (\E m \in FirstModes : InsertFirst(c, m, asks)) \/ RemoveLast(c, asks)
  PROVE  GeoInv'
<1>1. /\ geo \in Geos /\ c \in Node /\ geo.box \in [Node -> Inside]
      /\ scheduled' \in BOOLEAN /\ neglected' \in BOOLEAN
      /\ Tree(tree', root') /\ tree'.enabled \subseteq tree'.live
  BY DEF GeoInv, Geos, Node, InsertFirst, RemoveLast, TreeInv
<1>2. CASE RemoveLast(c, asks)
  <2>1. root' = NULL /\ geo' = [geo EXCEPT !.box[c] = NoBox]
    BY <1>2 DEF RemoveLast
  <2>2. geo' \in Geos
    BY <1>1, <2>1, AreaIsInside DEF Geos
  <2>3. tree'.enabled = {} /\ NULL \notin Internal
    BY <1>1, <2>1, NodesAre, BspTreeAssumption
  <2>4. Exact(tree', geo', mode', root')
    BY <2>1, <2>3 DEF Exact, Seen
  <2> QED BY <1>1, <2>2, <2>4, ExactIsFine
<1>3. CASE \E m \in FirstModes : InsertFirst(c, m, asks)
  <2>1. root' = c /\ geo' = Tracked([geo EXCEPT !.box[c] = UsableArea], mode')
    BY <1>3 DEF InsertFirst
  <2>2. PICK g : g = [geo EXCEPT !.box[c] = UsableArea]
    OBVIOUS
  <2>3. g \in Geos /\ g.box[c] = UsableArea
    BY <1>1, <2>2, AreaIsInside DEF Geos
  <2>4. /\ geo' \in Geos
        /\ \A n \in Node : n \in Internal \/ mode'[n] = "tiled" => geo'.box[n] = g.box[n]
    BY <2>1, <2>2, <2>3, TrackedIs
  <2>5. tree'.live = {c} /\ tree'.parent[c] = NULL /\ c \notin Internal
    <3>1. tree'.live = {c}
      BY <1>1, <2>1, LeafRoot
    <3> QED BY <1>1, <2>1, <3>1, NodesAre, BspTreeAssumption
  <2>6. Exact(tree', geo', mode', root')
    BY <1>1, <2>1, <2>3, <2>4, <2>5 DEF Exact, Seen
  <2> QED BY <1>1, <2>4, <2>6, ExactIsFine
<1> QED BY <1>2, <1>3

(* A leaf is enabled or disabled where it is: an arrangement is pending.   *)
LEMMA SwitchFits ==
  ASSUME TreeInv, TreeInv', GeoInv, NEW c \in Container, Untile(c) \/ Retile(c)
  PROVE  GeoInv'
<1>1. /\ geo \in Geos /\ neglected' \in BOOLEAN /\ root' = root
      /\ c \in Container \cap tree.live
      /\ Tree(tree, root) /\ Tree(tree', root') /\ EnabledUpward(tree')
      /\ tree'.enabled \subseteq tree'.live
  BY DEF GeoInv, TreeInv, Untile, Retile
<1>2. CASE Untile(c)
  <2>1. DisableLeaf(tree, geo, root, c, TRUE)
    BY <1>2 DEF Untile
  <2>2. geo' \in Geos
    BY <1>1, <2>1, DisableLeafFits
  <2>3. scheduled' = TRUE
    BY <2>1 DEF DisableLeaf
  <2> QED BY <1>1, <2>2, <2>3, PendingIsFine
<1>3. CASE Retile(c)
  <2>1. EnableLeaf(tree, geo, root, c, TRUE)
    BY <1>3 DEF Retile
  <2>2. geo' \in Geos
    BY <1>1, <2>1, EnableLeafGives
  <2>3. scheduled' = TRUE
    BY <2>1 DEF EnableLeaf
  <2> QED BY <1>1, <2>2, <2>3, PendingIsFine
<1> QED BY <1>2, <1>3

(* A user changes the share of a container, or the tag is arranged.        *)
LEMMA SettingsFit ==
  ASSUME TreeInv, GeoInv,
         Arrange \/ \E c \in Container, f \in Factors : SetFactor(c, f)
  PROVE  GeoInv'
<1>1. CASE Arrange
  <2>1. /\ tree' = tree /\ root' = root /\ mode' = mode
        /\ scheduled' = FALSE /\ neglected' = FALSE
        /\ geo' = Tracked(UpdateRoot(tree, geo, root), mode)
    BY <1>1 DEF Arrange
  <2>2. geo' \in Geos /\ Exact(tree, geo', mode, root)
    BY <2>1, UpdateRootIsExact DEF TreeInv, GeoInv
  <2> QED BY <2>1, <2>2, ExactIsFine DEF TreeInv
<1>2. ASSUME NEW c \in Container, NEW f \in Factors, SetFactor(c, f)
      PROVE  GeoInv'
  <2>1. /\ geo' = [geo EXCEPT !.wfact[tree.parent[c]] = f]
        /\ scheduled' = TRUE /\ neglected' = neglected
    BY <1>2 DEF SetFactor
  <2>2. f \in 0 .. 15
    BY BspAssumption
  <2>3. geo \in Geos /\ geo.wfact \in [Internal -> 0 .. 15]
    BY DEF GeoInv, Geos
  <2>4. geo' \in Geos
    BY <2>1, <2>2, <2>3 DEF Geos
  <2> QED BY <2>1, <2>4, PendingIsFine DEF GeoInv
<1> QED BY <1>1, <1>2

(* The place of a node n under its parent, and who is beside it, before    *)
(* and after the leaf c is taken out.                                      *)
LEMMA SpliceSides ==
  ASSUME NEW t, NEW r, Tree(t, r),
         NEW c \in Container \cap t.live, t.parent[c] # NULL,
         NEW s, s = SpliceOut(t, c),
         NEW n \in s.live, s.parent[n] # NULL
  PROVE  LET p   == t.parent[c]
             gp  == t.parent[p]
             sib == Sibling(t, c)
             i   == s.parent[n]
         IN  /\ n \in t.live /\ n \notin {c, p}
             /\ i \in Internal /\ i \in t.live /\ i \notin {c, p}
             /\ n # sib => /\ i = t.parent[n]
                           /\ n = t.left[i] <=> n = s.left[i]
             /\ n # sib /\ i # gp => /\ Sibling(s, n) = Sibling(t, n)
                                     /\ Sibling(t, n) \notin {c, p}
             /\ n # sib /\ i = gp => Sibling(s, n) = sib /\ Sibling(t, n) = p
             /\ n = sib => /\ i = gp
                           /\ p = t.left[i] <=> n = s.left[i]
                           /\ Sibling(s, n) = Sibling(t, p)
                           /\ Sibling(t, p) \notin {c, p}
<1> DEFINE p   == t.parent[c]
           gp  == t.parent[p]
           sib == Sibling(t, c)
           i   == s.parent[n]
<1>1. t \in Forest /\ Linked(t) /\ Acyclic(t)
  BY DEF Tree
<1>2. /\ p \in Internal \cap t.live /\ sib \in t.live
      /\ sib # c /\ sib # p /\ p # c /\ t.parent[sib] = p
      /\ Children(t, p) = {c, sib}
      /\ \A m \in t.live : t.parent[m] = p => m \in {c, sib}
  BY Surroundings
<1>3. AfterSplice(t, s, c, p, gp, sib)
  BY <1>1, <1>2, SpliceFields
<1>4. gp # p
  <2>1. {p} \in (SUBSET t.live) \ {{}}
    BY <1>2
  <2>2. \E x \in {p} : t.parent[x] \notin {p}
    BY <2>1, <1>1 DEF Acyclic
  <2> QED BY <2>2
<1>5. t.parent[c] = p /\ t.parent[p] = gp /\ s.parent[n] = i
  OBVIOUS
<1> HIDE DEF sib, p, gp
<1>6. n \in t.live /\ n \notin {c, p} /\ n \in Node
  BY <1>1, <1>3 DEF AfterSplice, Forest
<1>7. i = IF n = sib THEN gp ELSE t.parent[n]
  BY <1>3, <1>6 DEF AfterSplice
<1>8. i \in t.live /\ i \in Internal
  BY <1>2, <1>6, <1>7, <1>5, NodesAre DEF i
<1>9. i # c /\ i # p
  BY <1>2, <1>4, <1>6, <1>7, <1>8, BspTreeAssumption
<1> HIDE DEF i
<1>10. /\ t.left[i] # t.right[i]
       /\ t.left[i] \in t.live /\ t.parent[t.left[i]] = i
       /\ t.right[i] \in t.live /\ t.parent[t.right[i]] = i
  BY <1>1, <1>8 DEF Linked, Children
<1>11. /\ s.left[i] = IF i = gp /\ t.left[i] = p THEN sib ELSE t.left[i]
       /\ s.right[i] = IF i = gp /\ t.right[i] = p THEN sib ELSE t.right[i]
  BY <1>3, <1>8, <1>9 DEF AfterSplice
<1>12. t.parent[n] # NULL => n = t.left[t.parent[n]] \/ n = t.right[t.parent[n]]
  BY <1>1, <1>6 DEF Linked, Children
<1>13. gp # NULL => p = t.left[gp] \/ p = t.right[gp]
  BY <1>1, <1>2, <1>5 DEF Linked, Children
<1>14. i # NULL
  BY <1>5
<1>15. ASSUME n # sib
       PROVE  i = t.parent[n] /\ (n = t.left[i] <=> n = s.left[i])
              /\ (i # gp => Sibling(s, n) = Sibling(t, n) /\ Sibling(t, n) \notin {c, p})
              /\ (i = gp => Sibling(s, n) = sib /\ Sibling(t, n) = p)
  <2>1. i = t.parent[n] /\ (n = t.left[i] \/ n = t.right[i])
    BY <1>7, <1>12, <1>14, <1>15
  <2>2. n = t.left[i] <=> n = s.left[i]
    BY <1>11, <1>15, <1>6
  <2>3. CASE i # gp
    <3>1. Sibling(t, n) = IF t.left[i] = n THEN t.right[i] ELSE t.left[i]
      BY <2>1 DEF Sibling
    <3>2. Sibling(s, n) = IF s.left[i] = n THEN s.right[i] ELSE s.left[i]
      BY <1>5 DEF Sibling
    <3>3. Sibling(s, n) = Sibling(t, n)
      BY <2>3, <3>1, <3>2, <1>11
    <3>4. Sibling(t, n) # c /\ Sibling(t, n) # p
      BY <3>1, <2>3, <1>5, <1>9, <1>10
    <3> QED BY <2>1, <2>2, <2>3, <3>3, <3>4
  <2>4. CASE i = gp
    <3>1. Sibling(t, n) = IF t.left[i] = n THEN t.right[i] ELSE t.left[i]
      BY <2>1 DEF Sibling
    <3>2. Sibling(s, n) = IF s.left[i] = n THEN s.right[i] ELSE s.left[i]
      BY <1>5 DEF Sibling
    <3>3. p = t.left[i] \/ p = t.right[i]
      BY <2>4, <1>13, <1>14
    <3>4. Sibling(t, n) = p
      BY <3>1, <3>3, <2>1, <1>6, <1>10
    <3>5. Sibling(s, n) = sib
      BY <3>2, <3>3, <2>1, <2>4, <1>6, <1>10, <1>11, <1>15
    <3> QED BY <2>1, <2>2, <2>4, <3>4, <3>5
  <2> QED BY <2>3, <2>4
<1>16. ASSUME n = sib
       PROVE  /\ i = gp
              /\ p = t.left[i] <=> n = s.left[i]
              /\ Sibling(s, n) = Sibling(t, p)
              /\ Sibling(t, p) \notin {c, p}
  <2>1. i = gp /\ (p = t.left[i] \/ p = t.right[i])
    BY <1>7, <1>13, <1>14, <1>16
  <2>2. sib # t.left[i] /\ sib # t.right[i]
    BY <1>2, <1>9, <1>10
  <2>3. Sibling(t, p) = IF t.left[i] = p THEN t.right[i] ELSE t.left[i]
    BY <2>1, <1>5 DEF Sibling
  <2>4. Sibling(s, n) = IF s.left[i] = n THEN s.right[i] ELSE s.left[i]
    BY <1>5 DEF Sibling
  <2>5. p = t.left[i] <=> n = s.left[i]
    BY <2>1, <2>2, <1>10, <1>11, <1>16
  <2>6. Sibling(s, n) = Sibling(t, p)
    BY <2>1, <2>2, <2>3, <2>4, <1>10, <1>11, <1>16
  <2>7. Sibling(t, p) # c /\ Sibling(t, p) # p
    BY <2>1, <2>3, <1>5, <1>9, <1>10
  <2> QED BY <2>1, <2>5, <2>6, <2>7
<1> QED BY <1>6, <1>8, <1>9, <1>15, <1>16 DEF p, gp, sib, i

(* What g says of every node but c and p.                                  *)
SameBut(g, h, c, p) ==
  /\ \A i \in Internal \ {p} : h.split[i] = g.split[i] /\ h.wfact[i] = g.wfact[i]
  /\ \A n \in Node \ {c, p} : h.box[n] = g.box[n]

(* A node away from a leaf that is taken out is given what it was.         *)
LEMMA SpliceKeepsGiven ==
  ASSUME NEW t, NEW r, Tree(t, r), t.enabled \subseteq t.live,
         NEW c \in Container \cap t.live, t.parent[c] # NULL,
         NEW s, s = SpliceOut(t, c), NEW g, NEW h,
         NEW n \in s.live, s.parent[n] # NULL,
         n # Sibling(t, c), s.parent[n] # t.parent[t.parent[c]],
         h.split[s.parent[n]] = g.split[s.parent[n]],
         h.wfact[s.parent[n]] = g.wfact[s.parent[n]],
         h.box[s.parent[n]] = g.box[s.parent[n]]
  PROVE  Given(s, h, n) = Given(t, g, n)
<1>1. /\ s.parent[n] = t.parent[n]
      /\ n = t.left[t.parent[n]] <=> n = s.left[t.parent[n]]
      /\ Sibling(s, n) = Sibling(t, n) /\ Sibling(t, n) \notin {c, t.parent[c]}
  BY SpliceSides
<1>2. s.enabled = t.enabled \ {c, t.parent[c]}
  BY DEF SpliceOut
<1> HIDE DEF Sibling
<1> QED BY <1>1, <1>2, SameShare DEF Given

(* A leaf is taken out, and its sibling and what is below are placed.      *)
LEMMA SpliceThenUpdate ==
  ASSUME NEW t, NEW r, Tree(t, r), EnabledUpward(t), t.enabled \subseteq t.live,
         NEW c \in Container \cap t.live, t.parent[c] # NULL,
         t.parent[t.parent[c]] # NULL,
         NEW s, s = SpliceOut(t, c), Tree(s, r), EnabledUpward(s), s.enabled \subseteq s.live,
         NEW g \in Geos, NEW h \in Geos, SameBut(g, h, c, t.parent[c]),
         NEW m, NEW k, \A n \in Container \ {c} : k[n] = m[n],
         NEW u, u = Tracked(UpdateNode(s, h, t.parent[t.parent[c]]), k)
  PROVE  /\ u \in Geos
         /\ Nested(t, g, m) => Nested(s, u, k)
         /\ Exact(t, g, m, r) => Exact(s, u, k, r)
<1> DEFINE p  == t.parent[c]
           gp == t.parent[p]
<1>1. /\ p \in Internal \cap t.live /\ gp \in Internal \cap t.live
      /\ s.live = t.live \ {c, p} /\ s.enabled = t.enabled \ {c, p}
      /\ s.live \subseteq Node /\ t.live \subseteq Node
  BY NodesAre DEF SpliceOut
<1>2. gp # p /\ gp # c
  <2>1. {p} \in (SUBSET t.live) \ {{}}
    BY <1>1
  <2>2. \E x \in {p} : t.parent[x] \notin {p}
    BY <2>1 DEF Tree, Acyclic
  <2> QED BY <1>1, <2>2, BspTreeAssumption
<1>3. gp \in s.live
  BY <1>1, <1>2
<1>4. /\ u \in Geos /\ u.split = h.split /\ u.wfact = h.wfact
      /\ \A n \in Internal \cup Seen(s, k) : n \notin Placed(s, gp) => u.box[n] = h.box[n]
      /\ \A n \in Seen(s, k) : s.parent[n] # NULL =>
           \/ u.box[n] = Given(s, u, n)
           \/ /\ n \notin Placed(s, gp)
              /\ s.parent[n] \notin Placed(s, gp) \cup {gp}
              /\ u.box[n] = h.box[n] /\ u.box[s.parent[n]] = h.box[s.parent[n]]
  BY <1>3, UpdatePlaces
<1>5. Seen(s, k) \subseteq Seen(t, m) \ {c, p}
  BY <1>1 DEF Seen, Node
<1>6. \A n \in Seen(s, k) : n \in s.live /\ n \in Node \ {c, p}
  BY <1>1 DEF Seen
<1>7. ASSUME NEW n \in Seen(s, k), s.parent[n] # NULL
      PROVE  \/ u.box[n] = Given(s, u, n)
             \/ /\ n \in Seen(t, m) /\ t.parent[n] # NULL
                /\ u.box[n] = g.box[n] /\ Given(s, u, n) = Given(t, g, n)
  <2> SUFFICES ASSUME u.box[n] # Given(s, u, n)
               PROVE  /\ n \in Seen(t, m) /\ t.parent[n] # NULL
                      /\ u.box[n] = g.box[n] /\ Given(s, u, n) = Given(t, g, n)
    OBVIOUS
  <2>1. /\ s.parent[n] # gp
        /\ u.box[n] = h.box[n] /\ u.box[s.parent[n]] = h.box[s.parent[n]]
    BY <1>4, <1>7
  <2>2. /\ s.parent[n] \in Internal \ {p} /\ s.parent[n] \in Node \ {c, p}
        /\ n # Sibling(t, c) => s.parent[n] = t.parent[n]
        /\ n = Sibling(t, c) => s.parent[n] = gp
    BY <1>1, <1>6, <1>7, SpliceSides DEF Node
  <2>3. n # Sibling(t, c) /\ s.parent[n] = t.parent[n]
    BY <2>1, <2>2
  <2>4. /\ u.box[n] = g.box[n] /\ u.box[s.parent[n]] = g.box[s.parent[n]]
        /\ u.split[s.parent[n]] = g.split[s.parent[n]]
        /\ u.wfact[s.parent[n]] = g.wfact[s.parent[n]]
    <3>1. /\ \A i \in Internal \ {p} : h.split[i] = g.split[i] /\ h.wfact[i] = g.wfact[i]
          /\ \A x \in Node \ {c, p} : h.box[x] = g.box[x]
      BY DEF SameBut
    <3>2. u.split = h.split /\ u.wfact = h.wfact
      BY <1>4
    <3>3. n \in Node \ {c, p}
      BY <1>6, <1>7
    <3> QED BY <2>1, <2>2, <3>1, <3>2, <3>3
  <2>5. Given(s, u, n) = Given(t, g, n)
    <3>1. n # Sibling(t, c) /\ s.parent[n] # t.parent[t.parent[c]] /\ n \in s.live
      BY <1>6, <1>7, <2>1, <2>3
    <3>2. s.parent[n] # NULL
      BY <1>7
    <3> HIDE DEF p, gp
    <3> QED BY <3>1, <3>2, <2>4, SpliceKeepsGiven
  <2>6. n \in Seen(t, m)
    BY <1>5, <1>7
  <2>7. t.parent[n] # NULL /\ u.box[n] = g.box[n]
    BY <1>7, <2>3, <2>4
  <2> QED BY <2>5, <2>6, <2>7
<1>8. Nested(t, g, m) => Nested(s, u, k)
  <2> SUFFICES ASSUME Nested(t, g, m), NEW n \in Seen(s, k), s.parent[n] # NULL
               PROVE  Within(u.box[n], Given(s, u, n))
    BY DEF Nested
  <2>1. Within(Given(s, u, n), Given(s, u, n))
    BY <1>4, <1>6, GivenIsInside
  <2> QED BY <2>1, <1>7 DEF Nested
<1>9. Exact(t, g, m, r) => Exact(s, u, k, r)
  <2> SUFFICES ASSUME Exact(t, g, m, r) PROVE Exact(s, u, k, r)
    OBVIOUS
  <2>1. \A n \in Seen(s, k) : s.parent[n] # NULL => u.box[n] = Given(s, u, n)
    BY <1>7 DEF Exact
  <2>2. ASSUME r \in Internal \cup Seen(s, k) PROVE u.box[r] = UsableArea
    <3>1. r # NULL /\ r \in s.live /\ s.parent[r] = NULL /\ r \in Node \ {c, p}
      BY <1>1, <2>2, NodesAre
    <3>2. r \notin Placed(s, gp)
      BY <1>3, <3>1, PlacedIs, BspTreeAssumption
    <3>3. u.box[r] = h.box[r]
      BY <1>4, <2>2, <3>2
    <3>4. u.box[r] = g.box[r]
      BY <3>1, <3>3 DEF SameBut
    <3>5. r \in Internal \cup Seen(t, m)
      BY <1>5, <2>2
    <3> QED BY <3>4, <3>5 DEF Exact
  <2> QED BY <2>1, <2>2 DEF Exact
<1> QED BY <1>4, <1>8, <1>9

(* A leaf is the sibling of its sibling.                                   *)
LEMMA SiblingIsMutual ==
  ASSUME NEW t, NEW r, Tree(t, r),
         NEW c \in Container \cap t.live, t.parent[c] # NULL
  PROVE  Sibling(t, Sibling(t, c)) = c
<1>1. PICK a, p : a = Sibling(t, c) /\ p = t.parent[c]
  OBVIOUS
<1>2. a # c /\ t.parent[a] = p /\ Children(t, p) = {c, a}
  BY <1>1, Surroundings
<1>3. {t.left[p], t.right[p]} = {c, a}
  BY <1>2 DEF Children
<1>4. Sibling(t, a) = IF t.left[p] = a THEN t.right[p] ELSE t.left[p]
  BY <1>2 DEF Sibling
<1> QED BY <1>1, <1>2, <1>3, <1>4

(* A hidden leaf is taken out, and nothing is placed.  LeavesGap is what   *)
(* the operator of module Bsp says, of any tree.                           *)
LEMMA SpliceAlone ==
  ASSUME NEW t, NEW r, Tree(t, r), EnabledUpward(t), t.enabled \subseteq t.live,
         NEW c \in Container \cap t.live, t.parent[c] # NULL,
         NEW s, s = SpliceOut(t, c), NEW q, q = (IF r = t.parent[c] THEN Sibling(t, c) ELSE r),
         Tree(s, q), EnabledUpward(s), s.enabled \subseteq s.live,
         NEW g \in Geos, NEW u \in Geos,
         NEW m, NEW k, \A n \in Container \ {c} : k[n] = m[n],
         \A i \in Internal \ {t.parent[c]} :
           u.split[i] = g.split[i] /\ u.wfact[i] = g.wfact[i] /\ u.box[i] = g.box[i],
         \A n \in Seen(s, k) : u.box[n] = g.box[n]
  PROVE  /\ Nested(t, g, m) => Nested(s, u, k)
         /\ /\ Exact(t, g, m, r)
            /\ c \notin t.enabled
            /\ Sibling(t, c) \in t.enabled \/ t.parent[c] \notin t.enabled \cup {r}
            => Exact(s, u, k, q)
<1> DEFINE p   == t.parent[c]
           gp  == t.parent[p]
           sib == Sibling(t, c)
<1>1. /\ p \in Internal \cap t.live /\ sib \in t.live
      /\ s.live = t.live \ {c, p} /\ s.enabled = t.enabled \ {c, p}
      /\ s.live \subseteq Node /\ t.live \subseteq Node
      /\ t.parent[sib] = p /\ p # NULL /\ sib # c /\ sib # p
  <2>1. /\ p \in Internal \cap t.live /\ sib \in t.live
        /\ t.parent[sib] = p /\ sib # c /\ sib # p
    BY Surroundings
  <2>2. s.live = t.live \ {c, p} /\ s.enabled = t.enabled \ {c, p}
    BY DEF SpliceOut
  <2>3. t.live \subseteq Node /\ NULL \notin Node /\ Internal \subseteq Node
    BY NodesAre
  <2> QED BY <2>1, <2>2, <2>3
<1>2. \A i \in Internal \ {p} : u.split[i] = g.split[i] /\ u.wfact[i] = g.wfact[i] /\ u.box[i] = g.box[i]
  OBVIOUS
<1>3. Seen(s, k) \subseteq Seen(t, m) \ {c, p}
  BY <1>1 DEF Seen, Node
<1>4. \A n \in Seen(s, k) : n \in s.live /\ n \in t.live /\ n \in Node /\ n # p /\ u.box[n] = g.box[n]
  BY <1>1, <1>3 DEF Seen
<1>5. p \in t.enabled => p \in Seen(t, m)
  BY <1>1 DEF Seen
<1>6. sib \in t.enabled => p \in t.enabled
  BY <1>1 DEF EnabledUpward
<1> DEFINE Whole == c \notin t.enabled /\ (sib \in t.enabled \/ p \notin t.enabled \cup {r})
<1>7. ASSUME NEW n \in Seen(s, k), s.parent[n] # NULL
      PROVE  /\ Nested(t, g, m) => Within(u.box[n], Given(s, u, n))
             /\ Exact(t, g, m, r) /\ Whole => u.box[n] = Given(s, u, n)
  <2> DEFINE i == s.parent[n]
  <2>1. /\ n \in t.live /\ n \notin {c, p}
        /\ i \in Internal /\ i \in t.live /\ i \notin {c, p}
        /\ n # sib => /\ i = t.parent[n]
                      /\ n = t.left[i] <=> n = s.left[i]
        /\ n # sib /\ i = gp => Sibling(s, n) = sib /\ Sibling(t, n) = p
        /\ n = sib => /\ i = gp
                      /\ p = t.left[i] <=> n = s.left[i]
                      /\ Sibling(s, n) = Sibling(t, p)
                      /\ Sibling(t, p) \notin {c, p}
    BY <1>4, <1>7, SpliceSides
  <2>2. u.split[i] = g.split[i] /\ u.wfact[i] = g.wfact[i] /\ u.box[i] = g.box[i]
    BY <1>2, <2>1
  <2>3. u.box[n] = g.box[n] /\ n \in Seen(t, m)
    BY <1>3, <1>4, <1>7
  <2>4. CASE n # sib /\ i # gp
    <3>1. /\ n # Sibling(t, c) /\ s.parent[n] # t.parent[t.parent[c]] /\ n \in s.live
          /\ u.split[s.parent[n]] = g.split[s.parent[n]]
          /\ u.wfact[s.parent[n]] = g.wfact[s.parent[n]]
          /\ u.box[s.parent[n]] = g.box[s.parent[n]]
          /\ t.parent[n] # NULL
      BY <1>4, <1>7, <2>1, <2>2, <2>4
    <3>2. Given(s, u, n) = Given(t, g, n)
      BY <3>1, <1>7, SpliceKeepsGiven
    <3> QED BY <3>1, <3>2, <2>3 DEF Nested, Exact
  <2>5. CASE n # sib /\ i = gp
    <3>1. t.parent[n] = i /\ t.parent[n] # NULL /\ Sibling(s, n) = sib /\ Sibling(t, n) = p
      BY <2>1, <2>5, <1>7
    <3>2. sib \in s.enabled <=> sib \in t.enabled
      BY <1>1
    <3>3. CASE sib \in t.enabled <=> p \in t.enabled
      <4>1. Share(s, u, g.box[i], i, n) = Share(t, g, g.box[i], i, n)
        <5>1. n = t.left[i] <=> n = s.left[i]
          BY <2>1, <2>5
        <5>2. Sibling(t, n) \in t.enabled <=> Sibling(s, n) \in s.enabled
          BY <3>1, <3>2, <3>3
        <5> HIDE DEF i
        <5> QED BY <5>1, <5>2, <2>2, SameShare
      <4>2. Given(s, u, n) = Given(t, g, n)
        BY <4>1, <2>2, <3>1 DEF Given
      <4> QED BY <4>2, <3>1, <2>3 DEF Nested, Exact
    <3>4. CASE sib \notin t.enabled /\ p \in t.enabled
      <4>1. Given(s, u, n) = g.box[t.parent[n]]
        BY <3>1, <3>2, <3>4, <2>2 DEF Given, Share
      <4>2. /\ Given(t, g, n) \in Boxes /\ Within(Given(t, g, n), g.box[t.parent[n]])
            /\ g.box[t.parent[n]] \in Boxes /\ u.box[n] \in Boxes
        BY <2>1, <3>1, <1>4, <1>7, GivenIsInside DEF Geos, Inside, Node
      <4>3. Nested(t, g, m) => Within(u.box[n], Given(t, g, n))
        BY <2>3, <3>1 DEF Nested
      <4>4. Nested(t, g, m) => Within(u.box[n], Given(s, u, n))
        BY <4>1, <4>2, <4>3, WithinIsTransitive
      <4> QED BY <4>4, <3>4
    <3> QED BY <3>3, <3>4, <1>6
  <2>6. CASE n = sib
    <3>1. i = gp /\ gp # NULL /\ sib \in t.enabled /\ p \in Seen(t, m)
      BY <2>1, <2>3, <2>6, <1>5, <1>6, <1>7 DEF Seen
    <3>2. Sibling(t, p) \in t.enabled <=> Sibling(s, n) \in s.enabled
      BY <2>1, <2>6, <1>1
    <3>3. Given(s, u, n) = Given(t, g, p)
      <4>1. /\ Given(s, u, n) = Share(s, u, g.box[gp], gp, n)
            /\ Given(t, g, p) = Share(t, g, g.box[gp], gp, p)
        BY <2>2, <3>1 DEF Given
      <4>2. /\ LeftShare(u, g.box[gp], gp) = LeftShare(g, g.box[gp], gp)
            /\ RightShare(u, g.box[gp], gp) = RightShare(g, g.box[gp], gp)
        <5>1. u.split[gp] = g.split[gp] /\ u.wfact[gp] = g.wfact[gp]
          BY <2>2, <3>1
        <5> HIDE DEF gp
        <5> QED BY <5>1 DEF LeftShare, RightShare
      <4>3. p = t.left[gp] <=> n = s.left[gp]
        BY <2>1, <2>6, <3>1
      <4> QED BY <4>1, <4>2, <4>3, <3>2 DEF Share
    <3>4. Nested(t, g, m) => Within(g.box[n], Given(t, g, n)) /\ Within(g.box[p], Given(t, g, p))
      BY <3>1, <2>3, <2>6, <1>1 DEF Nested
    <3>5. Within(Given(t, g, n), g.box[p])
      BY <2>1, <2>6, <1>1, GivenIsInside
    <3>6. /\ g.box[n] \in Boxes /\ Given(t, g, n) \in Boxes
          /\ g.box[p] \in Boxes /\ Given(t, g, p) \in Boxes
      BY <2>1, <2>6, <3>1, <1>1, GivenIsInside DEF Geos, Inside
    <3>7. Nested(t, g, m) => Within(u.box[n], Given(s, u, n))
      BY <2>3, <3>3, <3>4, <3>5, <3>6, WithinIsTransitive
    <3>8. ASSUME Exact(t, g, m, r), Whole PROVE u.box[n] = Given(s, u, n)
      <4>1. g.box[n] = Given(t, g, n) /\ g.box[p] = Given(t, g, p)
        BY <3>1, <3>8, <2>3, <2>6, <1>1 DEF Exact
      <4>2. Sibling(t, n) = c
        BY <2>6, SiblingIsMutual
      <4>3. Given(t, g, n) = g.box[p]
        BY <4>2, <3>8, <2>6, <1>1 DEF Given, Share
      <4> QED BY <4>1, <4>3, <3>3, <2>3
    <3> QED BY <3>7, <3>8
  <2> QED BY <2>4, <2>5, <2>6
<1>8. ASSUME Exact(t, g, m, r), Whole, q \in Internal \cup Seen(s, k)
      PROVE  u.box[q] = UsableArea
  <2>1. CASE r # p
    <3>1. q = r /\ u.box[q] = g.box[q]
      BY <2>1, <1>8
    <3>2. r \in Internal \cup Seen(t, m)
      BY <3>1, <1>3, <1>8
    <3> QED BY <3>1, <3>2, <1>8 DEF Exact
  <2>2. CASE r = p
    <3>1. q = sib /\ sib \in t.enabled /\ u.box[q] = g.box[q]
      BY <2>2, <1>1, <1>8
    <3>2. sib \in Seen(t, m)
      BY <3>1, <1>3, <1>8 DEF Seen
    <3>3. Sibling(t, sib) = c
      BY SiblingIsMutual
    <3>4. Given(t, g, sib) = g.box[p]
      BY <3>3, <1>1, <1>8 DEF Given, Share
    <3>5. g.box[sib] = Given(t, g, sib) /\ g.box[p] = UsableArea
      BY <3>2, <2>2, <1>1, <1>8 DEF Exact
    <3> QED BY <3>1, <3>4, <3>5
  <2> QED BY <2>1, <2>2
<1>9. Nested(t, g, m) => Nested(s, u, k)
  BY <1>7 DEF Nested
<1>10. Exact(t, g, m, r) /\ Whole => Exact(s, u, k, q)
  BY <1>7, <1>8 DEF Exact
<1> QED BY <1>9, <1>10

(* What a removal forgets of the nodes it frees.                           *)
LEMMA ClearedIs ==
  ASSUME NEW g \in Geos, NEW p \in Internal, NEW c \in Container,
         NEW h, h = [g EXCEPT !.split[p] = NULL, !.wfact[p] = 0,
                              !.box[p] = NoBox, !.box[c] = NoBox]
  PROVE  h \in Geos /\ SameBut(g, h, c, p)
<1>1. /\ p \in Node /\ c \in Node /\ NoBox \in Inside
      /\ g.split \in [Internal -> {"H", "V", NULL}]
      /\ g.wfact \in [Internal -> 0 .. 15]
      /\ g.box \in [Node -> Inside]
  BY AreaIsInside DEF Geos, Node
<1>2. h \in Geos
  <2>1. /\ [g.split EXCEPT ![p] = NULL] \in [Internal -> {"H", "V", NULL}]
        /\ [g.wfact EXCEPT ![p] = 0] \in [Internal -> 0 .. 15]
        /\ [g.box EXCEPT ![p] = NoBox, ![c] = NoBox] \in [Node -> Inside]
    BY <1>1
  <2> QED BY <2>1 DEF Geos
<1>3. /\ h.split = [g.split EXCEPT ![p] = NULL]
      /\ h.wfact = [g.wfact EXCEPT ![p] = 0]
      /\ h.box = [g.box EXCEPT ![p] = NoBox, ![c] = NoBox]
  BY DEF Geos
<1>4. \A i \in Internal \ {p} : h.split[i] = g.split[i]
  BY <1>1, <1>3
<1>5. \A i \in Internal \ {p} : h.wfact[i] = g.wfact[i]
  BY <1>1, <1>3
<1>6. \A n \in Node \ {c, p} : h.box[n] = g.box[n]
  BY <1>1, <1>3
<1> QED BY <1>2, <1>4, <1>5, <1>6 DEF SameBut

(* A leaf is taken out, by any caller.                                     *)
LEMMA RemoveFits ==
  ASSUME TreeInv, TreeInv', Reach, GeoInv, NEW c \in Container,
         NEW caller \in {"grab", "to_tag", "to_output", "close"}, Remove(c, caller)
  PROVE  GeoInv'
<1>1. /\ c \in Container \cap tree.live /\ root # c
      /\ tree' = SpliceOut(tree, c) /\ mode' = [mode EXCEPT ![c] = "tiled"]
      /\ root' = IF root = tree.parent[c] THEN Sibling(tree, c) ELSE root
      /\ neglected' = IF caller # "close" THEN neglected
                      ELSE mode[c] = "hidden" /\ (neglected \/ LeavesGap(c))
  BY DEF Remove, Forget
<1>2. PICK h : h = [geo EXCEPT !.split[tree.parent[c]] = NULL, !.wfact[tree.parent[c]] = 0,
                               !.box[tree.parent[c]] = NoBox, !.box[c] = NoBox]
  OBVIOUS
<1> DEFINE p  == tree.parent[c]
           gp == tree.parent[p]
<1>3. \/ /\ caller = "grab" /\ mode[c] = "tiled"
         /\ geo' = Tracked(UpdateBelow(tree', h, gp), mode')
         /\ scheduled' = (scheduled \/ gp = NULL)
      \/ /\ caller = "to_tag" /\ geo' = Tracked(UpdateBelow(tree', h, gp), mode')
         /\ scheduled' = (scheduled \/ TRUE)
      \/ /\ caller = "to_output" /\ geo' = Tracked(h, mode')
         /\ scheduled' = (scheduled \/ TRUE)
      \/ /\ caller = "close"
         /\ geo' = Tracked(IF mode[c] = "tiled" THEN UpdateRoot(tree', h, root') ELSE h, mode')
         /\ scheduled' = (scheduled \/ FALSE)
  BY <1>2 DEF Remove
<1>4. /\ Tree(tree, root) /\ EnabledUpward(tree) /\ tree.enabled \subseteq tree.live
      /\ Tree(tree', root') /\ EnabledUpward(tree') /\ tree'.enabled \subseteq tree'.live
  BY DEF TreeInv
<1>5. /\ geo \in Geos /\ scheduled \in BOOLEAN /\ neglected \in BOOLEAN
      /\ ~ scheduled => Nested(tree, geo, mode)
      /\ ~ scheduled /\ ~ neglected => Exact(tree, geo, mode, root)
  BY DEF GeoInv
<1>6. tree.parent[c] # NULL /\ p \in Internal \cap tree.live
  BY <1>1, <1>4, NodesAre
<1>7. h \in Geos /\ SameBut(geo, h, c, p)
  BY <1>2, <1>5, <1>6, ClearedIs
<1>8. mode \in [Container -> Modes] /\ \A n \in Container \ {c} : mode'[n] = mode[n]
  BY <1>1 DEF Reach
<1>9. neglected' \in BOOLEAN /\ scheduled' \in BOOLEAN
  BY <1>1, <1>3, <1>5
<1>10. gp # NULL => gp \in tree'.live /\ root' = root
  <2> SUFFICES ASSUME gp # NULL PROVE gp \in tree'.live /\ root' = root
    OBVIOUS
  <2>1. gp \in Internal \cap tree.live
    BY <1>4, <1>6, NodesAre
  <2>2. {p} \in (SUBSET tree.live) \ {{}}
    BY <1>6
  <2>3. \E x \in {p} : tree.parent[x] \notin {p}
    BY <2>2, <1>4 DEF Tree, Acyclic
  <2>4. gp # p /\ gp # c
    BY <2>1, <2>3, BspTreeAssumption
  <2>5. tree'.live = tree.live \ {c, p}
    BY <1>1 DEF SpliceOut
  <2>6. root # p
    BY <1>4, <1>6, NodesAre
  <2> QED BY <2>1, <2>4, <2>5, <2>6, <1>1
<1> HIDE DEF gp
<1>11. CASE caller = "to_tag" \/ caller = "to_output" \/ (caller = "grab" /\ gp = NULL)
  <2>1. geo' = Tracked(h, mode') \/ (gp # NULL /\ geo' = Tracked(UpdateNode(tree', h, gp), mode'))
    BY <1>3, <1>11 DEF UpdateBelow
  <2>2. gp # NULL => UpdateNode(tree', h, gp) \in Geos
    BY <1>4, <1>7, <1>10, UpdateIs
  <2>3. geo' \in Geos
    BY <2>1, <2>2, <1>7, TrackedIs
  <2>4. scheduled' = TRUE
    BY <1>3, <1>11
  <2> QED BY <2>3, <2>4, <1>9, PendingIsFine
<1>12. CASE caller = "grab" /\ gp # NULL
  <2>1. /\ geo' = Tracked(UpdateNode(tree', h, gp), mode')
        /\ (~ scheduled' => ~ scheduled) /\ neglected' = neglected
    BY <1>1, <1>3, <1>12 DEF UpdateBelow
  <2>2. tree.parent[tree.parent[c]] # NULL /\ tree' = SpliceOut(tree, c) /\ root' = root
    BY <1>1, <1>10, <1>12 DEF gp
  <2>3. geo' = Tracked(UpdateNode(tree', h, tree.parent[tree.parent[c]]), mode')
    BY <2>1 DEF gp
  <2>4. PICK m, k, s, u : m = mode /\ k = mode' /\ s = tree' /\ u = geo'
    OBVIOUS
  <2>5. /\ u \in Geos
        /\ Nested(tree, geo, m) => Nested(s, u, k)
        /\ Exact(tree, geo, m, root) => Exact(s, u, k, root)
    <3>1. Tree(s, root) /\ EnabledUpward(s) /\ s.enabled \subseteq s.live
      BY <1>4, <2>2, <2>4
    <3>2. s = SpliceOut(tree, c) /\ u = Tracked(UpdateNode(s, h, tree.parent[tree.parent[c]]), k)
      BY <2>2, <2>3, <2>4
    <3>3. \A n \in Container \ {c} : k[n] = m[n]
      BY <1>8, <2>4
    <3> QED BY <1>1, <1>4, <1>5, <1>6, <1>7, <2>2, <3>1, <3>2, <3>3, SpliceThenUpdate
  <2> QED BY <2>1, <2>2, <2>4, <2>5, <1>5, <1>9 DEF GeoInv
<1>13. CASE caller = "close" /\ mode[c] = "tiled"
  <2>1. geo' = Tracked(UpdateRoot(tree', h, root'), mode')
    BY <1>3, <1>13
  <2>2. geo' \in Geos /\ Exact(tree', geo', mode', root')
    BY <2>1, <1>4, <1>7, UpdateRootIsExact
  <2> QED BY <2>2, <1>4, <1>9, ExactIsFine
<1>14. CASE caller = "close" /\ mode[c] # "tiled"
  <2>1. /\ mode[c] = "hidden" /\ geo' = Tracked(h, mode')
        /\ (~ scheduled' => ~ scheduled)
        /\ (~ neglected' => ~ neglected /\ ~ LeavesGap(c))
    BY <1>1, <1>3, <1>8, <1>14 DEF Modes
  <2>2. PICK m, k, s, u, q : m = mode /\ k = mode' /\ s = tree' /\ u = geo' /\ q = root'
    OBVIOUS
  <2>3. /\ u \in Geos /\ u.split = h.split /\ u.wfact = h.wfact
        /\ \A n \in Node : n \in Internal \/ k[n] = "tiled" => u.box[n] = h.box[n]
    <3>1. u = Tracked(h, k)
      BY <2>1, <2>2
    <3> QED BY <3>1, <1>7, TrackedIs
  <2>4. /\ Tree(s, q) /\ EnabledUpward(s) /\ s.enabled \subseteq s.live
        /\ s = SpliceOut(tree, c)
        /\ q = (IF root = tree.parent[c] THEN Sibling(tree, c) ELSE root)
    BY <1>1, <1>4, <2>2
  <2>5. Seen(s, k) \subseteq Node \ {c, p} /\ \A n \in Seen(s, k) : n \in Internal \/ k[n] = "tiled"
    <3>1. s.enabled = tree.enabled \ {c, p}
      BY <2>4 DEF SpliceOut
    <3> QED BY <3>1, <1>4, NodesAre DEF Seen
  <2>6. /\ \A i \in Internal \ {tree.parent[c]} :
             u.split[i] = geo.split[i] /\ u.wfact[i] = geo.wfact[i] /\ u.box[i] = geo.box[i]
        /\ \A n \in Seen(s, k) : u.box[n] = geo.box[n]
    BY <2>3, <2>5, <1>7, BspTreeAssumption DEF SameBut, Node
  <2>7. \A n \in Container \ {c} : k[n] = m[n]
    BY <1>8, <2>2
  <2>8. /\ Nested(tree, geo, m) => Nested(s, u, k)
        /\ /\ Exact(tree, geo, m, root)
           /\ c \notin tree.enabled
           /\ Sibling(tree, c) \in tree.enabled \/ tree.parent[c] \notin tree.enabled \cup {root}
           => Exact(s, u, k, q)
    BY <1>1, <1>4, <1>5, <1>6, <2>3, <2>4, <2>6, <2>7, SpliceAlone
  <2>9. ~ scheduled' => Nested(s, u, k)
    BY <2>1, <2>2, <2>8, <1>5
  <2>10. ~ scheduled' /\ ~ neglected' => Exact(s, u, k, q)
    BY <2>1, <2>2, <2>8, <1>5 DEF LeavesGap
  <2> QED BY <2>2, <2>3, <2>9, <2>10, <1>9 DEF GeoInv
<1> QED BY <1>11, <1>12, <1>13, <1>14

(* The split of the parent of a leaf turns round.                          *)
LEMMA ToggleFits ==
  ASSUME TreeInv, GeoInv, NEW c \in Container, ToggleSplit(c)
  PROVE  GeoInv'
<1>1. /\ c \in tree.live /\ tree.parent[c] # NULL
      /\ UNCHANGED <<tree, root, last, mode, scheduled, neglected>>
  BY DEF ToggleSplit
<1>2. PICK p, h : /\ p = tree.parent[c]
                  /\ h = [geo EXCEPT !.split[p] = IF @ = "H" THEN "V" ELSE "H"]
  OBVIOUS
<1>3. geo' = Tracked(UpdateNode(tree, h, p), mode)
  BY <1>2 DEF ToggleSplit
<1>4. /\ Tree(tree, root) /\ EnabledUpward(tree) /\ tree.enabled \subseteq tree.live
      /\ geo \in Geos /\ geo.split \in [Internal -> {"H", "V", NULL}]
  BY DEF TreeInv, GeoInv, Geos
<1>5. p \in Internal /\ p \in tree.live
  BY <1>1, <1>2, <1>4, NodesAre
<1>6. /\ h \in Geos /\ h.wfact = geo.wfact /\ h.box = geo.box
      /\ \A i \in Internal \ {p} : h.split[i] = geo.split[i]
  BY <1>2, <1>4, <1>5 DEF Geos
<1>7. PICK u, m : u = geo' /\ m = mode
  OBVIOUS
<1>8. u = Tracked(UpdateNode(tree, h, p), m)
  BY <1>3, <1>7
<1>9. /\ u \in Geos /\ u.split = h.split /\ u.wfact = h.wfact
      /\ \A n \in Internal \cup Seen(tree, m) : n \notin Placed(tree, p) => u.box[n] = h.box[n]
      /\ \A n \in Seen(tree, m) : tree.parent[n] # NULL =>
           \/ u.box[n] = Given(tree, u, n)
           \/ /\ n \notin Placed(tree, p)
              /\ tree.parent[n] \notin Placed(tree, p) \cup {p}
              /\ u.box[n] = h.box[n] /\ u.box[tree.parent[n]] = h.box[tree.parent[n]]
  BY <1>4, <1>5, <1>6, <1>8, UpdatePlaces
<1>10. \A n \in Seen(tree, m) : n \in tree.live
  BY <1>4 DEF Seen
<1>11. ASSUME NEW n \in Seen(tree, m), tree.parent[n] # NULL, u.box[n] # Given(tree, u, n)
       PROVE  u.box[n] = geo.box[n] /\ Given(tree, u, n) = Given(tree, geo, n)
  <2>1. /\ tree.parent[n] \in Internal \ {p}
        /\ u.box[n] = geo.box[n] /\ u.box[tree.parent[n]] = geo.box[tree.parent[n]]
    BY <1>4, <1>6, <1>9, <1>10, <1>11, NodesAre
  <2>2. /\ u.split[tree.parent[n]] = geo.split[tree.parent[n]]
        /\ u.wfact[tree.parent[n]] = geo.wfact[tree.parent[n]]
    BY <1>6, <1>9, <2>1
  <2>3. Given(tree, u, n) = Given(tree, geo, n)
    BY <2>1, <2>2, SameShare DEF Given
  <2> QED BY <2>1, <2>3
<1>12. Nested(tree, geo, m) => Nested(tree, u, m)
  BY <1>4, <1>9, <1>10, <1>11, GivenIsInside DEF Nested
<1>13. ASSUME Exact(tree, geo, m, root) PROVE Exact(tree, u, m, root)
  <2>1. \A n \in Seen(tree, m) : tree.parent[n] # NULL => u.box[n] = Given(tree, u, n)
    BY <1>11, <1>13 DEF Exact
  <2>2. root \notin Placed(tree, p)
    BY <1>4, <1>5, PlacedIs, NodesAre
  <2>3. root \in Internal \cup Seen(tree, m) => u.box[root] = geo.box[root]
    BY <1>6, <1>9, <2>2
  <2> QED BY <1>13, <2>1, <2>3 DEF Exact
<1>14. PICK a, b : a = scheduled' /\ b = neglected'
  OBVIOUS
<1> QED BY <1>1, <1>7, <1>9, <1>12, <1>13 DEF GeoInv

(* Every step keeps the geometry.                                          *)
LEMMA NextFits ==
  ASSUME TreeInv, TreeInv', Reach, GeoInv, [Next]_vars
  PROVE  GeoInv'
<1>1. ASSUME NEW c \in Container, NEW m \in FirstModes, NEW asks \in BOOLEAN,
             InsertFirst(c, m, asks)
      PROVE  GeoInv'
  BY <1>1, FirstAndLastFit
<1>2. ASSUME NEW c \in Container, NEW m \in Modes, NEW asks \in BOOLEAN, Insert(c, m, asks)
      PROVE  GeoInv'
  <2>1. /\ InsertBeside(c, last, RIGHT, m, asks) /\ last \in Container \cap tree.live
        /\ m = "tiled" \/ (m = "hidden" /\ asks = TRUE)
    BY <1>2 DEF Insert, InsertBeside, TreeInv, Leaves, Modes
  <2>2. PICK l : l = last
    OBVIOUS
  <2>3. CASE m = "tiled"
    BY <2>1, <2>2, <2>3, TiledInsertFits
  <2>4. CASE m = "hidden" /\ asks = TRUE
    BY <2>1, <2>2, <2>4, HiddenInsertFits
  <2> QED BY <2>1, <2>3, <2>4
<1>3. ASSUME NEW c \in Container, NEW sib \in Container, NEW pos \in {LEFT, RIGHT},
             Drop(c, sib, pos)
      PROVE  GeoInv'
  <2>1. InsertBeside(c, sib, pos, "tiled", FALSE) /\ sib \in Container \cap tree.live
    BY <1>3 DEF Drop
  <2> QED BY <2>1, TiledInsertFits
<1>4. ASSUME NEW c \in Container, NEW asks \in BOOLEAN, RemoveLast(c, asks)
      PROVE  GeoInv'
  BY <1>4, FirstAndLastFit
<1>5. ASSUME NEW c \in Container,
             NEW caller \in {"grab", "to_tag", "to_output", "close"}, Remove(c, caller)
      PROVE  GeoInv'
  BY <1>5, RemoveFits
<1>6. ASSUME NEW c \in Container, Untile(c) \/ Retile(c)
      PROVE  GeoInv'
  BY <1>6, SwitchFits
<1>7. ASSUME NEW c \in Container, ToggleSplit(c)
      PROVE  GeoInv'
  BY <1>7, ToggleFits
<1>8. ASSUME NEW c \in Container, NEW f \in Factors, SetFactor(c, f)
      PROVE  GeoInv'
  BY <1>8, SettingsFit
<1>9. ASSUME NEW c \in Container, Focus(c)
      PROVE  GeoInv'
  BY <1>9 DEF Focus, GeoInv
<1>10. ASSUME Arrange
       PROVE  GeoInv'
  BY <1>10, SettingsFit
<1>11. ASSUME UNCHANGED vars
       PROVE  GeoInv'
  BY <1>11 DEF vars, GeoInv
<1> QED
  BY <1>1, <1>2, <1>3, <1>4, <1>5, <1>6, <1>7, <1>8, <1>9, <1>10, <1>11 DEF Next

----------------------------------------------------------------------------
(* Exact boxes are those of an arrangement from scratch.                   *)
LEMMA ExactIsFresh ==
  ASSUME NEW t, NEW r, Tree(t, r), EnabledUpward(t), t.enabled \subseteq t.live,
         NEW g \in Geos, NEW m, Exact(t, g, m, r),
         NEW n \in Seen(t, m)
  PROVE  g.box[n] = UpdateRoot(t, g, r).box[n]
<1> DEFINE whole == [g EXCEPT !.box[r] = UsableArea]
           v     == UpdateRoot(t, g, r)
           D     == { x \in Seen(t, m) : g.box[x] # v.box[x] }
<1>1. /\ Seen(t, m) \subseteq t.live /\ t.live \subseteq Node
      /\ r # NULL /\ r \in t.live /\ r \in Node /\ t.parent[r] = NULL
  BY NodesAre DEF Seen
<1>2. whole \in Geos /\ whole.split = g.split /\ whole.wfact = g.wfact
  BY <1>1, AreaIsInside DEF Geos
<1>3. whole.box[r] = UsableArea
  BY <1>1 DEF Geos
<1>4. v = IF r \in Internal THEN UpdateNode(t, whole, r) ELSE whole
  BY <1>1 DEF UpdateRoot
<1> HIDE DEF whole, v
<1>5. r \in Seen(t, m) => g.box[r] = UsableArea
  BY DEF Exact
<1>6. CASE r \in Container
  <2>1. n = r /\ r \notin Internal
    BY <1>1, <1>6, LeafRoot, BspTreeAssumption
  <2>2. v.box[r] = UsableArea
    BY <2>1, <1>3, <1>4
  <2> QED BY <2>1, <2>2, <1>5 DEF v
<1>7. CASE r \in Internal
  <2>1. /\ v.split = g.split /\ v.wfact = g.wfact
        /\ \A x \in Node : v.box[x] =
             IF x \in Placed(t, r)
               THEN Share(t, whole, v.box[t.parent[x]], t.parent[x], x)
               ELSE whole.box[x]
    BY <1>1, <1>2, <1>4, <1>7, UpdateIs
  <2>2. v.box[r] = UsableArea
    BY <2>1, <1>1, <1>3, PlacedIs
  <2> SUFFICES ASSUME D # {} PROVE FALSE
    BY DEF v
  <2>3. D \in (SUBSET t.live) \ {{}}
    BY <1>1
  <2>4. PICK x \in D : t.parent[x] \notin D
    BY <2>3 DEF Tree, Acyclic
  <2>5. x # r /\ x \in Node /\ x \in Seen(t, m)
    BY <2>2, <2>4, <1>1, <1>5
  <2>6. t.parent[x] # NULL /\ t.parent[x] \in Internal /\ t.parent[x] \in t.live
    BY <2>5, <1>1, NodesAre
  <2>7. t.parent[x] \in Seen(t, m)
    BY <2>5, <2>6 DEF Seen, EnabledUpward
  <2>8. g.box[t.parent[x]] = v.box[t.parent[x]]
    BY <2>4, <2>7
  <2>9. x \in Placed(t, r)
    BY <2>5, <1>1, RootPlaces DEF Seen
  <2>10. v.box[x] = Share(t, whole, g.box[t.parent[x]], t.parent[x], x)
    BY <2>1, <2>5, <2>8, <2>9
  <2>11. Share(t, whole, g.box[t.parent[x]], t.parent[x], x) = Given(t, g, x)
    BY <1>2, SameShare DEF Given
  <2>12. g.box[x] = Given(t, g, x)
    BY <2>5, <2>6 DEF Exact
  <2> QED BY <2>4, <2>10, <2>11, <2>12
<1> QED BY <1>1, <1>6, <1>7 DEF Node

(* The box of a node that is seen lies within that of every node above it. *)
LEMMA NestedIsWithin ==
  ASSUME NEW t, NEW r, Tree(t, r), EnabledUpward(t), t.enabled \subseteq t.live,
         NEW g \in Geos, NEW m, Nested(t, g, m),
         NEW n \in Seen(t, m), NEW x \in Upward(t, n)
  PROVE  x \in Seen(t, m) /\ g.box[x] \in Boxes /\ Within(g.box[n], g.box[x])
<1> DEFINE U == Upward(t, n)
           S == { y \in U : /\ y \in Seen(t, m)
                            /\ g.box[y] \in Boxes
                            /\ Within(g.box[n], g.box[y]) }
<1>1. n \in t.live /\ n \in Node /\ \A y \in t.live : y \in Node /\ g.box[y] \in Boxes
  BY NodesAre DEF Seen, Geos, Inside
<1>2. /\ n \in U /\ U \subseteq t.live
      /\ \A e \in StepsUp(t) : e[2] \in Internal \cap t.live
  BY <1>1, UpwardFacts
<1>3. n \in S
  BY <1>1, <1>2 DEF Boxes, Within
<1>4. ASSUME NEW e \in StepsUp(t), e[1] \in S PROVE e[2] \in S
  <2>1. PICK y \in HasParent(t) : e[1] = y /\ e[2] = t.parent[y]
    BY DEF StepsUp
  <2>2. y \in Seen(t, m) /\ t.parent[y] # NULL /\ y \in t.live /\ y \in U
    BY <1>2, <1>4, <2>1 DEF HasParent
  <2>3. t.parent[y] \in Internal /\ t.parent[y] \in t.live /\ t.parent[y] \in U
    BY <1>1, <2>2, NodesAre, UpwardFacts
  <2>4. t.parent[y] \in Seen(t, m)
    BY <2>2, <2>3 DEF Seen, EnabledUpward
  <2>5. Within(g.box[y], Given(t, g, y)) /\ Within(Given(t, g, y), g.box[t.parent[y]])
        /\ Given(t, g, y) \in Boxes
    BY <2>2, GivenIsInside DEF Nested
  <2>6. Within(g.box[n], g.box[y]) /\ g.box[n] \in Boxes /\ g.box[y] \in Boxes
        /\ g.box[t.parent[y]] \in Boxes
    BY <1>1, <1>4, <2>1, <2>2, <2>3
  <2>7. Within(g.box[n], g.box[t.parent[y]])
    BY <2>5, <2>6, WithinIsTransitive
  <2> QED BY <2>1, <2>3, <2>4, <2>6, <2>7
<1>5. U \subseteq S
  <2>1. S \in SUBSET t.live
    BY <1>2
  <2> HIDE DEF S
  <2> QED BY <1>1, <1>3, <1>4, <2>1, VisitedIsLeast DEF U, Upward
<1> QED BY <1>5

(* What two leaves are given below the node where their ways up meet.      *)
LEMMA NestedIsApart ==
  ASSUME NEW t, NEW r, Tree(t, r), EnabledUpward(t), t.enabled \subseteq t.live,
         NEW g \in Geos, NEW m, Nested(t, g, m),
         NEW c \in Container \cap Seen(t, m), NEW d \in (Container \cap Seen(t, m)) \ {c}
  PROVE  Disjoint(g.box[c], g.box[d])
<1> DEFINE U(n) == Upward(t, n)
           M    == U(c) \cap U(d)
<1>1. c \in t.live /\ d \in t.live /\ c \notin Internal /\ d \notin Internal /\ Linked(t)
  BY BspTreeAssumption DEF Seen, Tree
<1>2. /\ c \in U(c) /\ d \in U(d) /\ U(c) \subseteq t.live /\ U(d) \subseteq t.live
      /\ \A x \in U(c) : t.parent[x] # NULL => t.parent[x] \in U(c)
      /\ \A x \in U(d) : t.parent[x] # NULL => t.parent[x] \in U(d)
      /\ U(c) \cap Container \subseteq {c} /\ U(d) \cap Container \subseteq {d}
  BY <1>1, UpwardFacts
<1>3. r \in U(c) /\ r \in U(d)
  <2>1. ASSUME NEW n \in t.live, r \notin U(n) PROVE FALSE
    <3>1. U(n) \in (SUBSET t.live) \ {{}} /\ \A x \in U(n) : t.parent[x] # NULL => t.parent[x] \in U(n)
      BY UpwardFacts
    <3>2. PICK x \in U(n) : t.parent[x] \notin U(n)
      BY <3>1 DEF Tree, Acyclic
    <3>3. x = r
      BY <3>1, <3>2, NodesAre
    <3> QED BY <2>1, <3>2, <3>3
  <2> QED BY <1>1, <2>1
<1>4. M \in (SUBSET t.live) \ {{}}
  BY <1>2, <1>3
<1>5. PICK x \in M : \A y \in M : t.parent[y] # x
  BY <1>4 DEF Tree, Acyclic
<1>6. x # c /\ x # d /\ x \in t.live /\ x \in Internal
  <2>1. x \notin Container
    BY <1>2, <1>5
  <2> QED BY <2>1, <1>1, <1>2, <1>5, NodesAre DEF Node
<1>7. ASSUME NEW n \in {c, d}
      PROVE  \E y \in U(n) : t.parent[y] = x
  <2>1. n \in t.live /\ x \in Upward(t, n) /\ x # n
    BY <1>1, <1>5, <1>6, <1>7
  <2>2. \A e \in StepsUp(t) : e[2] \in t.live
    BY <2>1, UpwardFacts
  <2>3. PICK e \in StepsUp(t) : e[1] \in Upward(t, n) /\ e[2] = x
    BY <2>1, <2>2, VisitedHasOrigin DEF Upward
  <2> QED BY <2>3 DEF StepsUp
<1>8. PICK y \in U(c), z \in U(d) : t.parent[y] = x /\ t.parent[z] = x
  BY <1>7
<1> HIDE DEF U
<1>9. y # z /\ y \in t.live /\ z \in t.live /\ x # NULL
  BY <1>2, <1>5, <1>6, <1>8, BspTreeAssumption
<1>10. /\ y = t.left[x] \/ y = t.right[x]
       /\ z = t.left[x] \/ z = t.right[x]
       /\ t.left[x] # t.right[x]
  BY <1>1, <1>6, <1>8, <1>9 DEF Linked, Children
<1>11. /\ y \in Seen(t, m) /\ g.box[y] \in Boxes /\ Within(g.box[c], g.box[y])
       /\ z \in Seen(t, m) /\ g.box[z] \in Boxes /\ Within(g.box[d], g.box[z])
       /\ x \in Seen(t, m) /\ g.box[x] \in Boxes
       /\ g.box[c] \in Boxes /\ g.box[d] \in Boxes
  <2>1. \A w \in U(c) : w \in Seen(t, m) /\ g.box[w] \in Boxes /\ Within(g.box[c], g.box[w])
    BY NestedIsWithin DEF U
  <2>2. \A w \in U(d) : w \in Seen(t, m) /\ g.box[w] \in Boxes /\ Within(g.box[d], g.box[w])
    BY NestedIsWithin DEF U
  <2> QED BY <2>1, <2>2, <1>2, <1>5, <1>8
<1>12. Within(g.box[y], Given(t, g, y)) /\ Within(g.box[z], Given(t, g, z))
  BY <1>8, <1>9, <1>11 DEF Nested
<1>13. y \in t.enabled /\ z \in t.enabled
  BY <1>11 DEF Seen
<1>14. Sibling(t, y) = z /\ Sibling(t, z) = y
  BY <1>8, <1>9, <1>10 DEF Sibling
<1>15. /\ Given(t, g, y) = IF y = t.left[x] THEN LeftShare(g, g.box[x], x) ELSE RightShare(g, g.box[x], x)
       /\ Given(t, g, z) = IF z = t.left[x] THEN LeftShare(g, g.box[x], x) ELSE RightShare(g, g.box[x], x)
  BY <1>8, <1>13, <1>14 DEF Given, Share
<1>16. PICK l, k : l = LeftShare(g, g.box[x], x) /\ k = RightShare(g, g.box[x], x)
  OBVIOUS
<1>17. l \in Boxes /\ k \in Boxes /\ Disjoint(l, k)
  BY <1>6, <1>11, <1>16, SharesAreBoxes
<1>18. PICK a \in Boxes, b \in Boxes, ya \in Boxes, zb \in Boxes :
         a = g.box[c] /\ b = g.box[d] /\ ya = g.box[y] /\ zb = g.box[z]
  BY <1>11
<1>19. CASE y = t.left[x] /\ z = t.right[x]
  <2>1. Within(ya, l) /\ Within(zb, k) /\ Within(a, ya) /\ Within(b, zb)
    BY <1>10, <1>11, <1>12, <1>15, <1>16, <1>18, <1>19
  <2>2. Within(a, l) /\ Within(b, k)
    BY <2>1, <1>17, WithinIsTransitive
  <2>3. Disjoint(a, b)
    BY <2>2, <1>17 DEF Boxes, Within, Disjoint
  <2> QED BY <2>3, <1>18
<1>20. CASE y = t.right[x] /\ z = t.left[x]
  <2>1. Within(ya, k) /\ Within(zb, l) /\ Within(a, ya) /\ Within(b, zb)
    BY <1>10, <1>11, <1>12, <1>15, <1>16, <1>18, <1>20
  <2>2. Within(a, k) /\ Within(b, l)
    BY <2>1, <1>17, WithinIsTransitive
  <2>3. Disjoint(a, b)
    BY <2>2, <1>17 DEF Boxes, Within, Disjoint
  <2> QED BY <2>3, <1>18
<1> QED BY <1>9, <1>10, <1>19, <1>20

(* A tag starts without boxes.                                             *)
LEMMA InitFits == Init => GeoInv
<1> SUFFICES ASSUME Init PROVE GeoInv
  OBVIOUS
<1>1. /\ geo = [ split |-> [i \in Internal |-> NULL],
                 wfact |-> [i \in Internal |-> 0],
                 box   |-> [n \in Node |-> NoBox] ]
      /\ tree.enabled = {} /\ root = NULL /\ scheduled = FALSE /\ neglected = FALSE
  BY DEF Init, EmptyForest
<1>2. geo \in Geos
  BY <1>1, AreaIsInside DEF Geos
<1>3. Nested(tree, geo, mode) /\ Exact(tree, geo, mode, root)
  BY <1>1, BspTreeAssumption DEF Nested, Exact, Seen
<1> QED BY <1>1, <1>2, <1>3 DEF GeoInv

(* The invariant of the tree and the geometry.                             *)
LEMMA GeometryStart == Init => TreeInv /\ Reach /\ GeoInv
BY InitTree, InitFits

LEMMA GeometryStep ==
  TreeInv /\ Reach /\ GeoInv /\ [Next]_vars => (TreeInv /\ Reach /\ GeoInv)'
BY NextTree, NextFits

LEMMA GeometryIsInvariant == Spec => [](TreeInv /\ Reach /\ GeoInv)
BY GeometryStart, GeometryStep, PTL DEF Spec

(* The variables have their types.                                         *)
THEOREM BspTypes == Spec => []TypeOK
<1>1. TreeInv /\ Reach /\ GeoInv => TypeOK
  <2> SUFFICES ASSUME TreeInv, Reach, GeoInv PROVE TypeOK
    OBVIOUS
  <2>1. tree \in Forest /\ root \in Node \cup {NULL}
    BY NodesAre DEF TreeInv, Tree
  <2>2. DOMAIN geo.box = Node /\ geo.wfact \in [Internal -> 0 .. 15]
        /\ geo.split \in [Internal -> {"H", "V", NULL}]
    BY DEF GeoInv, Geos
  <2> QED BY <2>1, <2>2 DEF TypeOK, TreeInv, Reach, GeoInv
<1> QED BY <1>1, GeometryIsInvariant, PTL

(* Unless an arrangement is pending or a close has left a gap, the tiled   *)
(* containers are where an arrangement from scratch would put them.        *)
THEOREM GeometryStaysCurrent == Spec => []GeometryIsCurrent
<1>1. TreeInv /\ Reach /\ GeoInv => GeometryIsCurrent
  <2> SUFFICES ASSUME TreeInv, Reach, GeoInv, ~ scheduled, ~ neglected, NEW c \in Tiles
               PROVE  geo.box[c] = UpdateRoot(tree, geo, root).box[c]
    BY DEF GeometryIsCurrent
  <2>1. c \in Seen(tree, mode)
    BY DEF Reach, Tiles, Seen
  <2>2. PICK m : m = mode
    OBVIOUS
  <2> QED BY <2>1, <2>2, ExactIsFresh DEF TreeInv, GeoInv
<1> QED BY <1>1, GeometryIsInvariant, PTL

LEMMA TilesAreApart == TreeInv /\ Reach /\ GeoInv => TilesDoNotOverlap
<1> SUFFICES ASSUME TreeInv, Reach, GeoInv, ~ scheduled, NEW c \in Tiles
             PROVE  LET b == geo.box[c]
                    IN  /\ b.x >= 0 /\ b.x + b.w <= Width
                        /\ b.y >= 0 /\ b.y + b.h <= Height
                        /\ \A d \in Tiles \ {c} : Disjoint(b, geo.box[d])
  BY DEF TilesDoNotOverlap
<1>1. \A d \in Tiles : d \in Container \cap Seen(tree, mode) /\ d \in Node
  BY DEF Reach, Tiles, Leaves, Seen, Node
<1>2. geo.box[c] \in Inside
  BY <1>1 DEF GeoInv, Geos
<1>3. PICK m : m = mode
  OBVIOUS
<1>4. \A d \in Tiles \ {c} : Disjoint(geo.box[c], geo.box[d])
  BY <1>1, <1>3, NestedIsApart DEF TreeInv, GeoInv
<1> QED BY <1>2, <1>4, BspAssumption DEF Inside, Within, UsableArea, Box, Boxes

(* Unless an arrangement is pending, tiled containers lie in the usable    *)
(* area and do not overlap, whatever has been closed or hidden.            *)
THEOREM TilesStayApart == Spec => []TilesDoNotOverlap
BY TilesAreApart, GeometryIsInvariant, PTL
============================================================================
