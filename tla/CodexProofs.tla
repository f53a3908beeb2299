------------------------------ MODULE CodexProofs ------------------------------
(***************************************************************************)
(* Theorems about the codex, for any number of names, rows and requests.   *)
(* The four invariants of the tables are proved together: a hero keeps its *)
(* races and classes only because a row in use cannot go, and a row that   *)
(* can go leaves nothing behind only because whatever points at it exists. *)
(***************************************************************************)
EXTENDS CodexDesk, FiniteSetTheorems, WellFoundedInduction, TLAPS

TablesInv == CodexTypeOK /\ NamesUnique /\ LineagesComplete /\ NoRemains

-----------------------------------------------------------------------------
(* Rows and names.                                                         *)

LEMMA NameSet ==
    ASSUME CodexTypeOK, NEW t \in Tables, NEW id \in Ids, NEW n \in Names \cup {NoName},
           name' = [name EXCEPT ![t][id] = n]
    PROVE  /\ name' \in [Tables -> [Ids -> Names \cup {NoName}]]
           /\ \A u \in Tables, i \in Ids :
                name'[u][i] = IF u = t /\ i = id THEN n ELSE name[u][i]
BY DEF CodexTypeOK

LEMMA RowsAdded ==
    ASSUME CodexTypeOK, NEW t \in Tables, NEW id \in Ids, NEW n \in Names,
           name' = [name EXCEPT ![t][id] = n]
    PROVE  \A u \in Tables : Rows(u)' = IF u = t THEN Rows(u) \cup {id} ELSE Rows(u)
<1>1. \A u \in Tables, i \in Ids : name'[u][i] = IF u = t /\ i = id THEN n ELSE name[u][i]
    BY NameSet
<1>2. QED
    BY <1>1, CodexAssumption DEF Rows

LEMMA RowsTaken ==
    ASSUME CodexTypeOK, NEW t \in Tables, NEW id \in Ids,
           name' = [name EXCEPT ![t][id] = NoName]
    PROVE  \A u \in Tables : Rows(u)' = IF u = t THEN Rows(u) \ {id} ELSE Rows(u)
<1>1. \A u \in Tables, i \in Ids :
        name'[u][i] = IF u = t /\ i = id THEN NoName ELSE name[u][i]
    BY NameSet
<1>2. QED
    BY <1>1 DEF Rows

LEMMA NameKept ==
    ASSUME CodexTypeOK, NamesUnique, NEW t \in Tables, NEW id \in Ids, NEW n \in Names,
           ~Taken(t, id, n), name' = [name EXCEPT ![t][id] = n]
    PROVE  NamesUnique'
<1>1. \A u \in Tables, i \in Ids : name'[u][i] = IF u = t /\ i = id THEN n ELSE name[u][i]
    BY NameSet
<1>2. \A u \in Tables : Rows(u)' = IF u = t THEN Rows(u) \cup {id} ELSE Rows(u)
    BY RowsAdded
<1>3. SUFFICES ASSUME NEW u \in Tables, NEW i \in Rows(u)', NEW j \in Rows(u)',
                      name'[u][i] = name'[u][j], i # j
               PROVE  FALSE
    BY DEF NamesUnique
<1>4. i \in Ids /\ j \in Ids
    BY DEF Rows
<1>5. CASE u # t
    BY <1>1, <1>2, <1>3, <1>4, <1>5 DEF NamesUnique
<1>6. CASE u = t /\ i # id /\ j # id
    BY <1>1, <1>2, <1>3, <1>4, <1>6 DEF NamesUnique
<1>7. CASE u = t /\ (i = id \/ j = id)
    BY <1>1, <1>2, <1>3, <1>4, <1>7 DEF Taken
<1>8. QED
    BY <1>5, <1>6, <1>7

LEMMA NameDropped ==
    ASSUME CodexTypeOK, NamesUnique, NEW t \in Tables, NEW id \in Ids,
           name' = [name EXCEPT ![t][id] = NoName]
    PROVE  NamesUnique'
<1>1. \A u \in Tables, i \in Ids :
        name'[u][i] = IF u = t /\ i = id THEN NoName ELSE name[u][i]
    BY NameSet
<1>2. \A u \in Tables : Rows(u)' = IF u = t THEN Rows(u) \ {id} ELSE Rows(u)
    BY RowsTaken
<1>3. \A u \in Tables : Rows(u)' \subseteq Rows(u) /\ Rows(u) \subseteq Ids
    BY <1>2 DEF Rows
<1>4. \A u \in Tables : \A i \in Rows(u)' : name'[u][i] = name[u][i]
    BY <1>1, <1>2, <1>3
<1>5. QED
    BY <1>3, <1>4 DEF NamesUnique

-----------------------------------------------------------------------------
(* races, classes                                                          *)

LEMMA SynergySaved ==
    ASSUME TablesInv, NEW t \in Synergies, NEW id \in Ids, NEW n \in Names, NEW tiers \in Ladders,
           ~Taken(t, id, n),
           name' = [name EXCEPT ![t][id] = n],
           ladder' = [ladder EXCEPT ![t][id] = tiers],
           UNCHANGED <<lineage, recipe, history>>
    PROVE  TablesInv'
<1> t \in Tables
    BY DEF Tables
<1>1. \A u \in Tables : Rows(u)' = IF u = t THEN Rows(u) \cup {id} ELSE Rows(u)
    BY RowsAdded DEF TablesInv
<1>2. CodexTypeOK'
    BY NameSet DEF TablesInv, CodexTypeOK
<1>3. NamesUnique'
    BY NameKept DEF TablesInv
<1>4. LineagesComplete'
    <2>1. \A h, u : LineageOf(h, u)' = LineageOf(h, u)
        BY DEF LineageOf
    <2>2. "heroes" \in Tables /\ Synergies \subseteq Tables /\ t # "heroes"
        BY DEF Tables, Synergies
    <2>3. QED
        BY <1>1, <2>1, <2>2 DEF TablesInv, LineagesComplete
<1>5. NoRemains'
    <2>1. \A u \in Synergies : \A i \in Ids \ Rows(u)' : ladder'[u][i] = NoLadder
        BY <1>1 DEF TablesInv, NoRemains, CodexTypeOK, Tables
    <2>2. \A u \in Tables : Rows(u) \subseteq Rows(u)'
        BY <1>1
    <2>3. \A x \in lineage : x.hero \in Rows("heroes")' /\ x.id \in Rows(x.table)'
        BY <2>2 DEF TablesInv, NoRemains, CodexTypeOK, Lineages, Tables
    <2>4. \A x \in recipe : {x.result, x.component} \subseteq Rows("items")'
        BY <2>2 DEF TablesInv, NoRemains, Tables
    <2>5. \A x \in history : x[2] \in Rows(x[1])'
        BY <2>2 DEF TablesInv, NoRemains, CodexTypeOK, Recorded, Tables
    <2>6. QED
        BY <2>1, <2>3, <2>4, <2>5 DEF NoRemains
<1>6. QED
    BY <1>2, <1>3, <1>4, <1>5 DEF TablesInv

LEMMA SynergyDeleted ==
    ASSUME TablesInv, NEW t \in Synergies, NEW id \in Ids, DeleteSynergy(t, id)
    PROVE  TablesInv'
<1> t \in Tables
    BY DEF Tables
<1>0. /\ name' = [name EXCEPT ![t][id] = NoName]
      /\ ladder' = [ladder EXCEPT ![t][id] = NoLadder]
      /\ UNCHANGED <<lineage, recipe, history>>
      /\ SynergyUnused(t, id)
    BY DEF DeleteSynergy
<1>1. \A u \in Tables : Rows(u)' = IF u = t THEN Rows(u) \ {id} ELSE Rows(u)
    BY <1>0, RowsTaken DEF TablesInv
<1>2. CodexTypeOK'
    <2>1. NoLadder \in Ladders
        BY DEF NoLadder, Ladders
    <2>2. QED
        BY <1>0, <2>1, NameSet DEF TablesInv, CodexTypeOK
<1>3. NamesUnique'
    BY <1>0, NameDropped DEF TablesInv
<1>4. LineagesComplete'
    <2>1. \A h, u : LineageOf(h, u)' = LineageOf(h, u)
        BY <1>0 DEF LineageOf
    <2>2. "heroes" \in Tables /\ Synergies \subseteq Tables /\ t # "heroes"
        BY DEF Tables, Synergies
    <2>3. \A h : id \notin LineageOf(h, t)
        BY <1>0 DEF SynergyUnused, LineageOf
    <2>4. QED
        BY <1>1, <2>1, <2>2, <2>3 DEF TablesInv, LineagesComplete
<1>5. NoRemains'
    <2>1. \A u \in Synergies : \A i \in Ids \ Rows(u)' : ladder'[u][i] = NoLadder
        BY <1>0, <1>1 DEF TablesInv, NoRemains, CodexTypeOK, Tables
    <2>2. \A u \in Tables \ {t} : Rows(u) = Rows(u)'
        BY <1>1
    <2>3. \A x \in lineage : x.hero \in Rows("heroes")' /\ x.id \in Rows(x.table)'
        BY <1>0, <1>1 DEF TablesInv, NoRemains, CodexTypeOK, Lineages, Tables, Synergies,
                          SynergyUnused
    <2>4. \A x \in recipe : {x.result, x.component} \subseteq Rows("items")'
        BY <2>2 DEF TablesInv, NoRemains, Tables, Synergies
    <2>5. \A x \in history : x[2] \in Rows(x[1])'
        <3>1. \A x \in history : x[1] \in Tables \ {t}
            BY DEF TablesInv, CodexTypeOK, Recorded, Plain, Tables, Synergies
        <3>2. QED
            BY <2>2, <3>1 DEF TablesInv, NoRemains
    <2>6. QED
        BY <1>0, <2>1, <2>3, <2>4, <2>5 DEF NoRemains
<1>6. QED
    BY <1>2, <1>3, <1>4, <1>5 DEF TablesInv

-----------------------------------------------------------------------------
(* heroes                                                                  *)

\* One or two select boxes, all different or not, name one or two rows.
LEMMA OneOrTwo ==
    ASSUME NEW ids \in SelectBoxes, Len(ids) \in 1..2
    PROVE  Cardinality({ids[k] : k \in DOMAIN ids}) \in 1..2
<1>1. PICK m \in 0..2 : ids \in [1..m -> Ids]
    BY DEF SelectBoxes
<1>2. m \in 1..2 /\ DOMAIN ids = 1..m
    BY <1>1
<1>3. CASE m = 1
    <2>1. {ids[k] : k \in DOMAIN ids} = {ids[1]}
        BY <1>2, <1>3
    <2>2. Cardinality({ids[1]}) = 1
        BY FS_Singleton
    <2>3. QED
        BY <2>1, <2>2
<1>4. CASE m = 2
    <2>1. {ids[k] : k \in DOMAIN ids} = {ids[1]} \cup {ids[2]}
        BY <1>2, <1>4
    <2>2. IsFiniteSet({ids[1]}) /\ Cardinality({ids[1]}) = 1
        BY FS_Singleton
    <2>3. Cardinality({ids[1]} \cup {ids[2]}) \in 1..2
        BY <2>2, FS_AddElement
    <2>4. QED
        BY <2>1, <2>3
<1>5. QED
    BY <1>2, <1>3, <1>4

LEMMA LineagesWritten ==
    ASSUME TablesInv, NEW h \in Ids, NEW races \in SelectBoxes, NEW classes \in SelectBoxes,
           WriteLineages(h, races, classes), Rows("races")' = Rows("races"),
           Rows("classes")' = Rows("classes")
    PROVE  /\ lineage' \subseteq Lineages
           /\ \A x \in lineage' : x.hero = h \/ x \in lineage
           /\ \A x \in lineage' : x.id \in Rows(x.table)
           /\ \A g \in Ids \ {h}, t \in Synergies : LineageOf(g, t)' = LineageOf(g, t)
           /\ LineageOf(h, "races")' = {races[k] : k \in DOMAIN races}
           /\ LineageOf(h, "classes")' = {classes[k] : k \in DOMAIN classes}
           /\ {races[k] : k \in DOMAIN races} \subseteq Rows("races")
           /\ {classes[k] : k \in DOMAIN classes} \subseteq Rows("classes")
<1>1. /\ lineage' = {x \in lineage : x.hero # h}
                        \cup Linked(h, "races", races) \cup Linked(h, "classes", classes)
      /\ \A k \in DOMAIN races : races[k] \in Rows("races")
      /\ \A k \in DOMAIN classes : classes[k] \in Rows("classes")
    BY DEF WriteLineages, Linkable
<1>2. Rows("races") \subseteq Ids /\ Rows("classes") \subseteq Ids
    BY DEF Rows
<1>3. \A x \in Linked(h, "races", races) :
        /\ x \in Lineages
        /\ x.hero = h /\ x.table = "races" /\ x.id \in Rows("races")
        /\ \E k \in DOMAIN races : x.id = races[k]
    BY <1>1, <1>2 DEF Linked, Lineages, Synergies
<1>4. \A x \in Linked(h, "classes", classes) :
        /\ x \in Lineages
        /\ x.hero = h /\ x.table = "classes" /\ x.id \in Rows("classes")
        /\ \E k \in DOMAIN classes : x.id = classes[k]
    BY <1>1, <1>2 DEF Linked, Lineages, Synergies
<1>5. \A x \in lineage : x \in Lineages /\ x.id \in Rows(x.table)
    BY DEF TablesInv, CodexTypeOK, NoRemains
<1>6. lineage' \subseteq Lineages
    BY <1>1, <1>3, <1>4, <1>5
<1>7. \A x \in lineage' : x.hero = h \/ x \in lineage
    BY <1>1, <1>3, <1>4
<1>8. \A x \in lineage' : x.id \in Rows(x.table)
    BY <1>1, <1>3, <1>4, <1>5
<1>9. \A g \in Ids \ {h}, t \in Synergies : LineageOf(g, t)' = LineageOf(g, t)
    <2>1. SUFFICES ASSUME NEW g \in Ids \ {h}, NEW t \in Synergies
                   PROVE  {y \in lineage' : y.hero = g /\ y.table = t}
                            = {y \in lineage : y.hero = g /\ y.table = t}
        BY DEF LineageOf
    <2>2. QED
        BY <1>1, <1>3, <1>4
<1>10. LineageOf(h, "races")' = {races[k] : k \in DOMAIN races}
    <2>1. {y \in lineage' : y.hero = h /\ y.table = "races"} = Linked(h, "races", races)
        BY <1>1, <1>3, <1>4
    <2>2. LineageOf(h, "races")' = {x.id : x \in Linked(h, "races", races)}
        BY <2>1 DEF LineageOf
    <2>3. \A k \in DOMAIN races :
            /\ [hero |-> h, table |-> "races", id |-> races[k]] \in Linked(h, "races", races)
            /\ [hero |-> h, table |-> "races", id |-> races[k]].id = races[k]
        BY DEF Linked
    <2>4. \A x \in Linked(h, "races", races) : x.id \in {races[k] : k \in DOMAIN races}
        BY <1>3
    <2>5. \A k \in DOMAIN races : races[k] \in {x.id : x \in Linked(h, "races", races)}
        BY <2>3
    <2>6. {x.id : x \in Linked(h, "races", races)} = {races[k] : k \in DOMAIN races}
        BY <2>4, <2>5
    <2>7. QED
        BY <2>2, <2>6
<1>11. LineageOf(h, "classes")' = {classes[k] : k \in DOMAIN classes}
    <2>1. {y \in lineage' : y.hero = h /\ y.table = "classes"} = Linked(h, "classes", classes)
        BY <1>1, <1>3, <1>4
    <2>2. LineageOf(h, "classes")' = {x.id : x \in Linked(h, "classes", classes)}
        BY <2>1 DEF LineageOf
    <2>3. \A k \in DOMAIN classes :
            /\ [hero |-> h, table |-> "classes", id |-> classes[k]]
                    \in Linked(h, "classes", classes)
            /\ [hero |-> h, table |-> "classes", id |-> classes[k]].id = classes[k]
        BY DEF Linked
    <2>4. \A x \in Linked(h, "classes", classes) : x.id \in {classes[k] : k \in DOMAIN classes}
        BY <1>4
    <2>5. \A k \in DOMAIN classes : classes[k] \in {x.id : x \in Linked(h, "classes", classes)}
        BY <2>3
    <2>6. {x.id : x \in Linked(h, "classes", classes)} = {classes[k] : k \in DOMAIN classes}
        BY <2>4, <2>5
    <2>7. QED
        BY <2>2, <2>6
<1>12. QED
    BY <1>1, <1>6, <1>7, <1>8, <1>9, <1>10, <1>11

LEMMA HeroSaved ==
    ASSUME TablesInv, NEW id \in Ids, NEW n \in Names,
           NEW races \in SelectBoxes, NEW classes \in SelectBoxes,
           ValidateHero(races, classes),
           CreateHero(id, n, races, classes) \/ UpdateHero(id, n, races, classes)
    PROVE  TablesInv'
<1>0. /\ name' = [name EXCEPT !["heroes"][id] = n]
      /\ ~Taken("heroes", id, n)
      /\ WriteLineages(id, races, classes)
      /\ UNCHANGED <<ladder, recipe, history>>
    BY DEF CreateHero, UpdateHero
<1> "heroes" \in Tables /\ Synergies \subseteq Tables /\ "heroes" \notin Synergies
    BY DEF Tables, Synergies
<1>1. \A u \in Tables : Rows(u)' = IF u = "heroes" THEN Rows(u) \cup {id} ELSE Rows(u)
    BY <1>0, RowsAdded DEF TablesInv
<1>2. \A u \in Synergies : Rows(u)' = Rows(u)
    BY <1>1
<1>3. /\ lineage' \subseteq Lineages
      /\ \A x \in lineage' : x.hero = id \/ x \in lineage
      /\ \A x \in lineage' : x.id \in Rows(x.table)
      /\ \A g \in Ids \ {id}, t \in Synergies : LineageOf(g, t)' = LineageOf(g, t)
      /\ LineageOf(id, "races")' = {races[k] : k \in DOMAIN races}
      /\ LineageOf(id, "classes")' = {classes[k] : k \in DOMAIN classes}
      /\ {races[k] : k \in DOMAIN races} \subseteq Rows("races")
      /\ {classes[k] : k \in DOMAIN classes} \subseteq Rows("classes")
    BY <1>0, <1>2, LineagesWritten DEF Synergies
<1>4. CodexTypeOK'
    BY <1>0, <1>3, NameSet DEF TablesInv, CodexTypeOK
<1>5. NamesUnique'
    BY <1>0, NameKept DEF TablesInv
<1>6. LineagesComplete'
    <2>1. SUFFICES ASSUME NEW h \in Rows("heroes")', NEW t \in Synergies
                   PROVE  /\ Cardinality(LineageOf(h, t)') \in 1..2
                          /\ LineageOf(h, t)' \subseteq Rows(t)
        BY <1>2 DEF LineagesComplete
    <2>2. CASE h # id
        <3>1. h \in Rows("heroes") /\ h \in Ids
            BY <1>1, <2>2 DEF Rows
        <3>2. LineageOf(h, t)' = LineageOf(h, t)
            BY <1>3, <2>2, <3>1
        <3>3. QED
            BY <3>1, <3>2 DEF TablesInv, LineagesComplete
    <2>3. CASE h = id /\ t = "races"
        BY <1>3, <2>3, OneOrTwo DEF ValidateHero
    <2>4. CASE h = id /\ t = "classes"
        BY <1>3, <2>4, OneOrTwo DEF ValidateHero
    <2>5. QED
        BY <2>2, <2>3, <2>4 DEF Synergies
<1>7. NoRemains'
    <2>1. \A u \in Synergies : \A i \in Ids \ Rows(u)' : ladder'[u][i] = NoLadder
        BY <1>0, <1>2 DEF TablesInv, NoRemains
    <2>2. \A u \in Tables : Rows(u) \subseteq Rows(u)'
        BY <1>1
    <2>3. \A x \in lineage' : x.hero \in Rows("heroes")' /\ x.id \in Rows(x.table)'
        <3>1. \A x \in lineage' : x.table \in Synergies
            BY <1>3 DEF Lineages
        <3>2. \A x \in lineage : x.hero \in Rows("heroes")
            BY DEF TablesInv, NoRemains
        <3>3. QED
            BY <1>1, <1>2, <1>3, <3>1, <3>2
    <2>4. \A x \in recipe : {x.result, x.component} \subseteq Rows("items")'
        BY <2>2 DEF TablesInv, NoRemains, Tables
    <2>5. \A x \in history : x[2] \in Rows(x[1])'
        BY <2>2 DEF TablesInv, NoRemains, CodexTypeOK, Recorded, Tables
    <2>6. QED
        BY <1>0, <2>1, <2>3, <2>4, <2>5 DEF NoRemains
<1>8. QED
    BY <1>4, <1>5, <1>6, <1>7 DEF TablesInv

LEMMA HeroDeleted ==
    ASSUME TablesInv, NEW id \in Ids, DeleteHero(id)
    PROVE  TablesInv'
<1>0. /\ name' = [name EXCEPT !["heroes"][id] = NoName]
      /\ lineage' = {x \in lineage : x.hero # id}
      /\ UNCHANGED <<ladder, recipe, history>>
      /\ Forgotten("heroes", id)
    BY DEF DeleteHero
<1> "heroes" \in Tables /\ Synergies \subseteq Tables /\ "heroes" \notin Synergies
    BY DEF Tables, Synergies
<1>1. \A u \in Tables : Rows(u)' = IF u = "heroes" THEN Rows(u) \ {id} ELSE Rows(u)
    BY <1>0, RowsTaken DEF TablesInv
<1>2. CodexTypeOK'
    BY <1>0, NameSet DEF TablesInv, CodexTypeOK
<1>3. NamesUnique'
    BY <1>0, NameDropped DEF TablesInv
<1>4. LineagesComplete'
    <2>1. SUFFICES ASSUME NEW h \in Rows("heroes")', NEW t \in Synergies
                   PROVE  /\ Cardinality(LineageOf(h, t)') \in 1..2
                          /\ LineageOf(h, t)' \subseteq Rows(t)
        BY <1>1 DEF LineagesComplete
    <2>2. h \in Rows("heroes") /\ h # id
        BY <1>1
    <2>3. {y \in lineage' : y.hero = h /\ y.table = t} = {y \in lineage : y.hero = h /\ y.table = t}
        BY <1>0, <2>2
    <2>4. LineageOf(h, t)' = LineageOf(h, t)
        BY <2>3 DEF LineageOf
    <2>5. QED
        BY <2>2, <2>4 DEF TablesInv, LineagesComplete
<1>5. NoRemains'
    <2>1. \A u \in Synergies : \A i \in Ids \ Rows(u)' : ladder'[u][i] = NoLadder
        BY <1>0, <1>1 DEF TablesInv, NoRemains
    <2>2. \A x \in lineage' : x.hero \in Rows("heroes")' /\ x.id \in Rows(x.table)'
        BY <1>0, <1>1 DEF TablesInv, NoRemains, CodexTypeOK, Lineages
    <2>3. \A x \in recipe : {x.result, x.component} \subseteq Rows("items")'
        BY <1>1 DEF TablesInv, NoRemains, Tables
    <2>4. \A x \in history : x[2] \in Rows(x[1])'
        <3>1. SUFFICES ASSUME NEW x \in history
                       PROVE  x[2] \in Rows(x[1])'
            OBVIOUS
        <3>2. x \in Recorded \X Ids /\ x[2] \in Rows(x[1]) /\ x[1] \in Tables
            BY DEF TablesInv, CodexTypeOK, NoRemains, Recorded, Plain, Tables
        <3>3. x = <<x[1], x[2]>>
            BY <3>2
        <3>4. ~(x[1] = "heroes" /\ x[2] = id)
            BY <1>0, <3>1, <3>3 DEF Forgotten
        <3>5. QED
            BY <1>1, <3>2, <3>4
    <2>5. QED
        BY <1>0, <2>1, <2>2, <2>3, <2>4 DEF NoRemains
<1>6. QED
    BY <1>2, <1>3, <1>4, <1>5 DEF TablesInv

-----------------------------------------------------------------------------
(* items, relics, patches, pros                                            *)

\* Rows that come, or get another name, disturb nobody who points at rows.
LEMMA MoreRows ==
    ASSUME TablesInv, \A u \in Tables : Rows(u) \subseteq Rows(u)',
           \A u \in Synergies : Rows(u)' = Rows(u), Rows("heroes")' = Rows("heroes"),
           UNCHANGED <<ladder, lineage>>
    PROVE  /\ LineagesComplete'
           /\ \A u \in Synergies : \A i \in Ids \ Rows(u)' : ladder'[u][i] = NoLadder
           /\ \A x \in lineage : x.hero \in Rows("heroes")' /\ x.id \in Rows(x.table)'
           /\ \A x \in history : x[2] \in Rows(x[1])'
           /\ \A x \in recipe : {x.result, x.component} \subseteq Rows("items")'
<1>1. \A h, u : LineageOf(h, u)' = LineageOf(h, u)
    BY DEF LineageOf
<1>2. LineagesComplete'
    BY <1>1 DEF TablesInv, LineagesComplete
<1>3. \A u \in Synergies : \A i \in Ids \ Rows(u)' : ladder'[u][i] = NoLadder
    BY DEF TablesInv, NoRemains
<1>4. \A x \in lineage : x.hero \in Rows("heroes")' /\ x.id \in Rows(x.table)'
    BY DEF TablesInv, NoRemains, CodexTypeOK, Lineages
<1>5. \A x \in history : x[2] \in Rows(x[1])'
    BY DEF TablesInv, NoRemains, CodexTypeOK, Recorded, Plain, Tables
<1>6. \A x \in recipe : {x.result, x.component} \subseteq Rows("items")'
    BY DEF TablesInv, NoRemains, Tables
<1>7. QED
    BY <1>2, <1>3, <1>4, <1>5, <1>6

LEMMA ItemSaved ==
    ASSUME TablesInv, NEW id \in Ids, NEW n \in Names, NEW ids \in PickLists,
           CreateItem(id, n, ids) \/ UpdateItem(id, n, ids)
    PROVE  TablesInv'
<1>0. /\ name' = [name EXCEPT !["items"][id] = n]
      /\ ~Taken("items", id, n)
      /\ \A k \in DOMAIN ids : ids[k] \in Rows("items") \cup {id}
      /\ recipe' = {x \in recipe : x.result # id} \cup Made(id, ids)
      /\ UNCHANGED <<ladder, lineage, history>>
    BY DEF CreateItem, UpdateItem, Linkable
<1> /\ "items" \in Tables /\ "heroes" \in Tables /\ Synergies \subseteq Tables
    /\ "items" \notin Synergies
    BY DEF Tables, Synergies
<1>1. \A u \in Tables : Rows(u)' = IF u = "items" THEN Rows(u) \cup {id} ELSE Rows(u)
    BY <1>0, RowsAdded DEF TablesInv
<1>2. \A x \in Made(id, ids) : x \in Recipes /\ {x.result, x.component} \subseteq Rows("items")'
    BY <1>0, <1>1 DEF Made, Recipes, Rows
<1>3. CodexTypeOK'
    BY <1>0, <1>2, NameSet DEF TablesInv, CodexTypeOK
<1>4. NamesUnique'
    BY <1>0, NameKept DEF TablesInv
<1>5. /\ LineagesComplete'
      /\ \A u \in Synergies : \A i \in Ids \ Rows(u)' : ladder'[u][i] = NoLadder
      /\ \A x \in lineage : x.hero \in Rows("heroes")' /\ x.id \in Rows(x.table)'
      /\ \A x \in history : x[2] \in Rows(x[1])'
      /\ \A x \in recipe : {x.result, x.component} \subseteq Rows("items")'
    <2>1. /\ \A u \in Tables : Rows(u) \subseteq Rows(u)'
          /\ \A u \in Synergies : Rows(u)' = Rows(u)
          /\ Rows("heroes")' = Rows("heroes")
        BY <1>1
    <2>2. QED
        BY <1>0, <2>1, MoreRows
<1>6. NoRemains'
    BY <1>0, <1>2, <1>5 DEF NoRemains
<1>7. QED
    BY <1>3, <1>4, <1>5, <1>6 DEF TablesInv

LEMMA PlainSaved ==
    ASSUME TablesInv, NEW t \in Plain, NEW id \in Ids, NEW n \in Names,
           CreatePlain(t, id, n) \/ UpdatePlain(t, id, n)
    PROVE  TablesInv'
<1>0. /\ name' = [name EXCEPT ![t][id] = n]
      /\ ~Taken(t, id, n)
      /\ UNCHANGED <<ladder, lineage, recipe, history>>
    BY DEF CreatePlain, UpdatePlain
<1> /\ t \in Tables /\ "heroes" \in Tables /\ Synergies \subseteq Tables
    /\ t \notin Synergies /\ t # "heroes"
    BY DEF Tables, Synergies, Plain
<1>1. \A u \in Tables : Rows(u)' = IF u = t THEN Rows(u) \cup {id} ELSE Rows(u)
    BY <1>0, RowsAdded DEF TablesInv
<1>2. CodexTypeOK'
    BY <1>0, NameSet DEF TablesInv, CodexTypeOK
<1>3. NamesUnique'
    BY <1>0, NameKept DEF TablesInv
<1>4. LineagesComplete' /\ NoRemains'
    <2>1. /\ \A u \in Tables : Rows(u) \subseteq Rows(u)'
          /\ \A u \in Synergies : Rows(u)' = Rows(u)
          /\ Rows("heroes")' = Rows("heroes")
        BY <1>1
    <2>2. QED
        BY <1>0, <2>1, MoreRows DEF NoRemains
<1>5. QED
    BY <1>2, <1>3, <1>4 DEF TablesInv

\* Items, relics, patches and pros are deleted when no match and no recipe of another item
\* names them.
LEMMA RowDeleted ==
    ASSUME TablesInv, NEW t \in Plain \cup {"items"}, NEW id \in Ids,
           Forgotten(t, id),
           name' = [name EXCEPT ![t][id] = NoName],
           recipe' \in SUBSET recipe,
           t = "items" => \A x \in recipe' : x.result # id /\ x.component # id,
           UNCHANGED <<ladder, lineage, history>>
    PROVE  TablesInv'
<1> /\ t \in Tables /\ "heroes" \in Tables /\ "items" \in Tables /\ Synergies \subseteq Tables
    /\ t \notin Synergies /\ t # "heroes"
    BY DEF Tables, Synergies, Plain
<1>1. \A u \in Tables : Rows(u)' = IF u = t THEN Rows(u) \ {id} ELSE Rows(u)
    BY RowsTaken DEF TablesInv
<1>2. CodexTypeOK'
    BY NameSet DEF TablesInv, CodexTypeOK
<1>3. NamesUnique'
    BY NameDropped DEF TablesInv
<1>4. LineagesComplete'
    <2>1. \A h, u : LineageOf(h, u)' = LineageOf(h, u)
        BY DEF LineageOf
    <2>2. QED
        BY <1>1, <2>1 DEF TablesInv, LineagesComplete
<1>5. NoRemains'
    <2>1. \A u \in Synergies : \A i \in Ids \ Rows(u)' : ladder'[u][i] = NoLadder
        BY <1>1 DEF TablesInv, NoRemains
    <2>2. \A x \in lineage' : x.hero \in Rows("heroes")' /\ x.id \in Rows(x.table)'
        BY <1>1 DEF TablesInv, NoRemains, CodexTypeOK, Lineages
    <2>3. \A x \in recipe' : {x.result, x.component} \subseteq Rows("items")'
        BY <1>1 DEF TablesInv, NoRemains
    <2>4. \A x \in history : x[2] \in Rows(x[1])'
        <3>1. SUFFICES ASSUME NEW x \in history
                       PROVE  x[2] \in Rows(x[1])'
            OBVIOUS
        <3>2. x \in Recorded \X Ids /\ x[2] \in Rows(x[1]) /\ x[1] \in Tables
            BY DEF TablesInv, CodexTypeOK, NoRemains, Recorded, Plain, Tables
        <3>3. x = <<x[1], x[2]>>
            BY <3>2
        <3>4. ~(x[1] = t /\ x[2] = id)
            BY <3>1, <3>3 DEF Forgotten
        <3>5. QED
            BY <1>1, <3>2, <3>4
    <2>5. QED
        BY <2>1, <2>2, <2>3, <2>4 DEF NoRemains
<1>6. QED
    BY <1>2, <1>3, <1>4, <1>5 DEF TablesInv

LEMMA AnyDeleted ==
    ASSUME TablesInv, NEW t, NEW id \in Ids, DeleteRow(t, id)
    PROVE  TablesInv'
<1>1. CASE t \in Synergies /\ DeleteSynergy(t, id)
    BY <1>1, SynergyDeleted
<1>2. CASE t = "heroes" /\ DeleteHero(id)
    BY <1>2, HeroDeleted
<1>3. CASE t = "items" /\ DeleteItem(id)
    <2>1. /\ Forgotten("items", id)
          /\ name' = [name EXCEPT !["items"][id] = NoName]
          /\ recipe' = {x \in recipe : x.result # id}
          /\ UNCHANGED <<ladder, lineage, history>>
          /\ \A x \in recipe : x.component = id => x.result = id
        BY <1>3 DEF DeleteItem, ComponentUnused
    <2>2. recipe' \in SUBSET recipe /\ \A x \in recipe' : x.result # id /\ x.component # id
        BY <2>1
    <2>3. QED
        BY <2>1, <2>2, RowDeleted
<1>4. CASE t \in Plain /\ DeletePlain(t, id)
    <2>1. /\ Forgotten(t, id)
          /\ name' = [name EXCEPT ![t][id] = NoName]
          /\ UNCHANGED <<ladder, lineage, recipe, history>>
          /\ t # "items"
        BY <1>4 DEF DeletePlain, Plain
    <2>2. QED
        BY <1>4, <2>1, RowDeleted
<1>5. QED
    BY <1>1, <1>2, <1>3, <1>4 DEF DeleteRow

\* Matches start and stop pointing at rows.
LEMMA HistoryWritten ==
    ASSUME TablesInv, UNCHANGED <<name, ladder, lineage, recipe>>,
           history' \subseteq Recorded \X Ids,
           \A x \in history' : x \in history \/ x[2] \in Rows(x[1])
    PROVE  TablesInv'
<1>1. \A u : Rows(u)' = Rows(u)
    BY DEF Rows
<1>2. \A h, u : LineageOf(h, u)' = LineageOf(h, u)
    BY DEF LineageOf
<1>3. CodexTypeOK'
    BY DEF TablesInv, CodexTypeOK
<1>4. NamesUnique' /\ LineagesComplete'
    BY <1>1, <1>2 DEF TablesInv, NamesUnique, LineagesComplete
<1>5. NoRemains'
    BY <1>1 DEF TablesInv, NoRemains
<1>6. QED
    BY <1>3, <1>4, <1>5 DEF TablesInv

LEMMA HistoryStep ==
    ASSUME TablesInv, NEW t \in Recorded, NEW id \in Ids, Record(t, id) \/ Erase(t, id)
    PROVE  TablesInv'
<1>1. CASE Record(t, id)
    <2>1. /\ id \in Rows(t)
          /\ history' = history \cup {<<t, id>>}
          /\ UNCHANGED <<name, ladder, lineage, recipe>>
        BY <1>1 DEF Record
    <2>2. history' \subseteq Recorded \X Ids
        BY <2>1 DEF TablesInv, CodexTypeOK
    <2>3. QED
        BY <2>1, <2>2, HistoryWritten
<1>2. CASE Erase(t, id)
    BY <1>2, HistoryWritten DEF Erase, TablesInv, CodexTypeOK
<1>3. QED
    BY <1>1, <1>2

-----------------------------------------------------------------------------
(* Requests of one step.                                                   *)

LEMMA RequestShape ==
    ASSUME NEW r \in Requests
    PROVE  /\ r.kind \in Edits \cup {"createSynergy", "addSlot", "heroList"}
           /\ r.kind \in Edits \cup {"createSynergy"} => r.table \in Synergies
           /\ r.kind \in Edits => r.id \in Ids
           /\ r.kind \in {"createSynergy", "rename"} => r.name \in Names
           /\ r.kind \in {"saveTier", "deleteTier"} => r.count \in Counts
           /\ r.kind = "saveTier" => r.effect \in Effects
<1>1. CASE r \in CreateSynergyForm
    BY <1>1 DEF CreateSynergyForm, Edits
<1>2. CASE r \in RenameForm
    BY <1>2 DEF RenameForm, Edits
<1>3. CASE r \in SaveTierForm
    BY <1>3 DEF SaveTierForm, Edits
<1>4. CASE r \in DeleteTierForm
    BY <1>4 DEF DeleteTierForm, Edits
<1>5. CASE r \in AddSlotForm
    BY <1>5 DEF AddSlotForm, Edits
<1>6. CASE r \in HeroListUrl
    BY <1>6 DEF HeroListUrl, Edits
<1>7. QED
    BY <1>1, <1>2, <1>3, <1>4, <1>5, <1>6 DEF Requests

LEMMA LadderTyped == NoLadder \in Ladders
BY DEF NoLadder, Ladders

LEMMA EditTyped ==
    ASSUME NEW r \in Requests, r.kind \in Edits, NEW v, v.name \in Names, v.ladder \in Ladders
    PROVE  EditedName(r, v) \in Names /\ EditedLadder(r, v) \in Ladders
<1>1. EditedName(r, v) \in Names
    BY RequestShape DEF EditedName
<1>2. CASE r.kind = "rename"
    BY <1>1, <1>2 DEF EditedLadder
<1>3. CASE r.kind = "saveTier"
    <2>1. SavedTier(r, v.ladder) \in Ladders
        BY <1>3, RequestShape DEF SavedTier, Ladders
    <2>2. QED
        BY <1>1, <1>3, <2>1 DEF EditedLadder
<1>4. CASE r.kind = "deleteTier"
    <2>1. KeptTiers(r, v.ladder) \in Ladders
        BY <1>4, RequestShape DEF KeptTiers, Ladders
    <2>2. QED
        BY <1>1, <1>4, <2>1 DEF EditedLadder
<1>5. QED
    BY <1>2, <1>3, <1>4 DEF Edits

LEMMA Written ==
    ASSUME TablesInv, NEW r \in Requests, NEW v, v.ladder \in Ladders,
           r.kind \in Edits /\ r.id \in Rows(r.table) => v.name \in Names,
           Write(r, v)
    PROVE  TablesInv'
<1>1. CASE r.kind = "createSynergy" /\ \E id \in Ids : CreateSynergy(r.table, id, r.name, NoLadder)
    <2>1. PICK id \in Ids : CreateSynergy(r.table, id, r.name, NoLadder)
        BY <1>1
    <2>2. r.table \in Synergies /\ r.name \in Names
        BY <1>1, RequestShape
    <2>3. QED
        BY <2>1, <2>2, SynergySaved, LadderTyped DEF CreateSynergy
<1>2. CASE r.kind \in Edits /\ UpdateSynergy(r.table, r.id, EditedName(r, v), EditedLadder(r, v))
    <2>1. r.table \in Synergies /\ r.id \in Ids
        BY <1>2, RequestShape
    <2>2. v.name \in Names
        BY <1>2 DEF UpdateSynergy
    <2>3. EditedName(r, v) \in Names /\ EditedLadder(r, v) \in Ladders
        BY <1>2, <2>2, EditTyped
    <2>4. QED
        BY <1>2, <2>1, <2>3, SynergySaved DEF UpdateSynergy
<1>3. CASE r.kind = "addSlot" /\ Record("heroes", v.id)
    <2>1. v.id \in Ids /\ "heroes" \in Recorded
        BY <1>3 DEF Record, Rows, Recorded
    <2>2. QED
        BY <1>3, <2>1, HistoryStep
<1>4. QED
    BY <1>1, <1>2, <1>3 DEF Write

LEMMA SynergyEdited ==
    ASSUME TablesInv, NEW r \in SynergyRequests, EditSynergy(r)
    PROVE  TablesInv'
<1> DEFINE v == IF r.kind \in Edits
                THEN [NoView EXCEPT !.name = name[r.table][r.id],
                                    !.ladder = ladder[r.table][r.id]]
                ELSE NoView
<1>1. r \in Requests
    BY DEF SynergyRequests
<1>2. CASE r.kind \in Edits
    <2>1. r.table \in Synergies /\ r.table \in Tables /\ r.id \in Ids
        BY <1>1, <1>2, RequestShape DEF Tables
    <2>2. v.name = name[r.table][r.id] /\ v.ladder = ladder[r.table][r.id]
        BY <1>2 DEF NoView
    <2>3. v.ladder \in Ladders
        BY <2>1, <2>2 DEF TablesInv, CodexTypeOK
    <2>4. r.id \in Rows(r.table) => v.name \in Names
        BY <2>1, <2>2 DEF TablesInv, CodexTypeOK, Rows
    <2>5. Write(r, v)
        BY DEF EditSynergy
    <2>6. QED
        BY <1>1, <2>3, <2>4, <2>5, Written
<1>3. CASE r.kind \notin Edits
    <2>1. v.ladder \in Ladders
        BY <1>3, LadderTyped DEF NoView
    <2>2. Write(r, v)
        BY DEF EditSynergy
    <2>3. QED
        BY <1>1, <1>3, <2>1, <2>2, Written
<1>4. QED
    BY <1>2, <1>3

\* Every handler of one step keeps the tables in order.
LEMMA FormsKeep ==
    ASSUME TablesInv, FormStep
    PROVE  TablesInv'
<1>1. ASSUME NEW r \in SynergyRequests, EditSynergy(r)
      PROVE  TablesInv'
    BY <1>1, SynergyEdited
<1>2. ASSUME NEW f \in HeroForm, SaveHero(f)
      PROVE  TablesInv'
    <2>1. f.name \in Names /\ f.races \in SelectBoxes /\ f.classes \in SelectBoxes
        BY <1>2 DEF HeroForm
    <2>2. PICK id \in Ids : \/ CreateHero(id, f.name, f.races, f.classes)
                            \/ UpdateHero(id, f.name, f.races, f.classes)
        BY <1>2 DEF SaveHero
    <2>3. ValidateHero(f.races, f.classes)
        BY <1>2 DEF SaveHero
    <2>4. QED
        BY <2>1, <2>2, <2>3, HeroSaved
<1>3. ASSUME NEW f \in ItemForm, SaveItem(f)
      PROVE  TablesInv'
    <2>1. f.name \in Names /\ f.components \in PickLists
        BY <1>3 DEF ItemForm
    <2>2. PICK id \in Ids : CreateItem(id, f.name, f.components) \/ UpdateItem(id, f.name, f.components)
        BY <1>3 DEF SaveItem
    <2>3. QED
        BY <2>1, <2>2, ItemSaved
<1>4. ASSUME NEW t \in Plain, NEW f, f.name \in Names, SavePlain(t, f)
      PROVE  TablesInv'
    BY <1>4, PlainSaved DEF SavePlain
<1>5. ASSUME NEW f \in RelicForm, SaveRelic(f)
      PROVE  TablesInv'
    BY <1>4, <1>5 DEF RelicForm, SaveRelic, Plain
<1>6. ASSUME NEW f \in PatchForm, SavePatch(f)
      PROVE  TablesInv'
    BY <1>4, <1>6 DEF PatchForm, SavePatch, Plain
<1>7. ASSUME NEW f \in ProForm, SavePro(f)
      PROVE  TablesInv'
    BY <1>4, <1>7 DEF ProForm, SavePro, Plain
<1>8. ASSUME NEW f \in DeleteForm, DeleteRow(f.table, f.id)
      PROVE  TablesInv'
    <2>1. f.id \in Ids
        BY DEF DeleteForm
    <2>2. QED
        BY <1>8, <2>1, AnyDeleted
<1>9. ASSUME NEW t \in FormTables \cap Recorded, NEW id \in Ids, Record(t, id) \/ Erase(t, id)
      PROVE  TablesInv'
    BY <1>9, HistoryStep
<1>10. QED
    BY <1>1, <1>2, <1>3, <1>5, <1>6, <1>7, <1>8, <1>9 DEF FormStep

-----------------------------------------------------------------------------
(* Requests of several steps: what a request has read is of its type, and  *)
(* is what the tables say as long as nobody has overtaken it.              *)

Views == [name : Names \cup {NoName}, ladder : Ladders, id : Ids \cup {0},
          todo : SUBSET Ids, bare : SUBSET Ids]

\* What each phase of each handler has read.
WorkerFits(w) ==
    /\ pc[w] = "idle" => view[w] = NoView /\ req[w] = NoRequest
    /\ pc[w] # "idle" => req[w] \in Requests
    /\ pc[w] \in {"row", "ladder"} => req[w].kind \in Edits
    /\ pc[w] = "check" => req[w].kind \in Edits \cup {"createSynergy"}
    /\ pc[w] = "lookup" => req[w].kind = "addSlot"
    /\ pc[w] \in {"ids", "hero", "races", "classes", "shown", "failed"} =>
            req[w].kind = "heroList"
    /\ pc[w] \in {"ladder", "check", "write"} /\ req[w].kind \in Edits => view[w].name \in Names
    /\ pc[w] \in {"races", "classes"} => view[w].todo # {}

ViewCurrent(w) ==
    ~overtaken[w] /\ pc[w] # "idle" =>
        /\ req[w].kind \in Edits /\ pc[w] \in {"ladder", "check", "write"} =>
                view[w].name = name[req[w].table][req[w].id]
        /\ req[w].kind \in Edits /\ pc[w] \in {"check", "write"} =>
                view[w].ladder = ladder[req[w].table][req[w].id]
        /\ req[w].kind = "addSlot" /\ pc[w] = "write" =>
                view[w].id \in Rows("heroes") /\ name["heroes"][view[w].id] = req[w].name
        /\ req[w].kind = "heroList" /\ pc[w] \in {"hero", "races", "classes"} =>
                view[w].todo \subseteq Rows("heroes")
        /\ req[w].kind = "heroList" => pc[w] # "failed" /\ view[w].bare = {}

DeskTyped ==
    /\ pc \in [Workers -> Phases]
    /\ req \in [Workers -> Requests \cup {NoRequest}]
    /\ view \in [Workers -> Views]
    /\ overtaken \in [Workers -> BOOLEAN]

DeskInv ==
    /\ TablesInv
    /\ DeskTyped
    /\ \A w \in Workers : WorkerFits(w) /\ ViewCurrent(w)

\* The part of the desk that one step of w changes.
OnlyWorker(w) ==
    \A u \in Workers \ {w} : pc'[u] = pc[u] /\ req'[u] = req[u] /\ view'[u] = view[u]

\* A worker that does not move keeps its view current, or is marked as overtaken.
LEMMA BystanderKeeps ==
    ASSUME DeskInv, NEW u \in Workers, Watch,
           pc'[u] = pc[u], req'[u] = req[u], view'[u] = view[u]
    PROVE  WorkerFits(u)' /\ ViewCurrent(u)'
<1>1. WorkerFits(u)'
    BY DEF DeskInv, WorkerFits
<1>2. SUFFICES ASSUME ~overtaken'[u], pc'[u] # "idle"
               PROVE  ViewCurrent(u)'
    BY <1>1 DEF ViewCurrent
<1>3. ~overtaken[u] /\ ~Disturbs(u) /\ pc[u] # "idle"
    BY <1>2 DEF Watch
<1>4. req[u] \in Requests
    BY <1>3 DEF DeskInv, WorkerFits
<1>5. CASE req[u].kind \in Edits
    <2>1. /\ name'[req[u].table][req[u].id] = name[req[u].table][req[u].id]
          /\ ladder'[req[u].table][req[u].id] = ladder[req[u].table][req[u].id]
        BY <1>3, <1>5 DEF Disturbs
    <2>2. req[u].kind # "addSlot" /\ req[u].kind # "heroList"
        BY <1>5 DEF Edits
    <2>3. QED
        BY <1>3, <1>5, <2>1, <2>2 DEF DeskInv, ViewCurrent
<1>6. CASE req[u].kind = "addSlot"
    <2>1. \A i \in Rows("heroes") : name["heroes"][i] = req[u].name => name'["heroes"][i] = req[u].name
        BY <1>3, <1>6 DEF Disturbs
    <2>2. req[u].kind \notin Edits /\ req[u].kind # "heroList"
        BY <1>6 DEF Edits
    <2>3. SUFFICES ASSUME pc[u] = "write"
                   PROVE  /\ view[u].id \in Rows("heroes")'
                          /\ name'["heroes"][view[u].id] = req[u].name
        BY <2>2 DEF ViewCurrent
    <2>4. view[u].id \in Rows("heroes") /\ name["heroes"][view[u].id] = req[u].name
        BY <1>3, <1>6, <2>3 DEF DeskInv, ViewCurrent
    <2>5. QED
        BY <2>1, <2>4 DEF Rows
<1>7. CASE req[u].kind = "heroList"
    <2>1. \A i \in Rows("heroes") : i \in Rows("heroes")'
        BY <1>3, <1>7 DEF Disturbs, Rows
    <2>2. req[u].kind \notin Edits /\ req[u].kind # "addSlot"
        BY <1>7 DEF Edits
    <2>3. QED
        BY <1>3, <1>7, <2>1, <2>2 DEF DeskInv, ViewCurrent
<1>8. CASE req[u].kind = "createSynergy"
    BY <1>8 DEF ViewCurrent, Edits
<1>9. QED
    BY <1>4, <1>5, <1>6, <1>7, <1>8, RequestShape

\* A step of w keeps the invariant when it keeps w's own part of it.
LEMMA WorkerStep ==
    ASSUME DeskInv, NEW w \in Workers, Watch, OnlyWorker(w), TablesInv',
           pc' \in [Workers -> Phases], req' \in [Workers -> Requests \cup {NoRequest}],
           view' \in [Workers -> Views], WorkerFits(w)', ViewCurrent(w)'
    PROVE  DeskInv'
<1>1. overtaken' \in [Workers -> BOOLEAN]
    BY DEF Watch, Disturbs
<1>2. \A u \in Workers \ {w} : WorkerFits(u)' /\ ViewCurrent(u)'
    BY BystanderKeeps DEF OnlyWorker
<1>3. QED
    BY <1>1, <1>2 DEF DeskInv, DeskTyped

LEMMA TablesKept ==
    ASSUME TablesInv, UNCHANGED codex
    PROVE  TablesInv' /\ \A t : Rows(t)' = Rows(t)
<1>1. name' = name /\ ladder' = ladder /\ lineage' = lineage /\ recipe' = recipe /\ history' = history
    BY DEF codex
<1>2. \A t : Rows(t)' = Rows(t)
    BY <1>1 DEF Rows
<1>3. \A h, t : LineageOf(h, t)' = LineageOf(h, t)
    BY <1>1 DEF LineageOf
<1>4. CodexTypeOK'
    BY <1>1 DEF TablesInv, CodexTypeOK
<1>5. NamesUnique' /\ LineagesComplete' /\ NoRemains'
    BY <1>1, <1>2, <1>3 DEF TablesInv, NamesUnique, LineagesComplete, NoRemains
<1>6. QED
    BY <1>2, <1>4, <1>5 DEF TablesInv

LEMMA WatchKeeps ==
    ASSUME NEW w \in Workers, Watch
    PROVE  pc'[w] # "idle" /\ ~overtaken'[w] => ~overtaken[w]
BY DEF Watch

\* A nonempty set of ids has a least one.
LEMMA NextInTodo ==
    ASSUME NEW S \in SUBSET Ids, S # {}
    PROVE  Next1(S) \in S
<1>1. S \subseteq Nat
    BY DEF Ids
<1>2. IsWellFoundedOn(OpToRel(<, Nat), Nat)
    BY NatLessThanWellFounded
<1>3. PICK x \in S : \A y \in S : <<y, x>> \notin OpToRel(<, Nat)
    BY <1>1, <1>2, WFMin
<1>4. ASSUME NEW y \in S PROVE x <= y
    <2>1. <<y, x>> \in Nat \X Nat /\ <<y, x>>[1] = y /\ <<y, x>>[2] = x
        BY <1>1
    <2>2. ~(<<y, x>>[1] < <<y, x>>[2])
        BY <1>3, <2>1, Zenon DEF OpToRel
    <2>3. x \in Nat /\ y \in Nat
        BY <1>1
    <2>4. QED
        BY <2>1, <2>2, <2>3
<1>5. QED
    BY <1>4 DEF Next1

LEMMA AcceptKeeps ==
    ASSUME DeskInv, NEW w \in Workers, NEW r \in Requests, Accept(w, r), Watch
    PROVE  DeskInv'
<1>1. /\ pc[w] = "idle" /\ pc' = [pc EXCEPT ![w] = FirstStep(r)]
      /\ req' = [req EXCEPT ![w] = r]
      /\ UNCHANGED codex /\ view' = view
    BY DEF Accept, Goto
<1> USE DEF DeskInv, DeskTyped
<1>2. TablesInv'
    BY <1>1, TablesKept
<1>3. /\ FirstStep(r) \in {"check", "row", "lookup", "ids"}
      /\ FirstStep(r) = "row" <=> r.kind \in Edits
      /\ FirstStep(r) = "check" => r.kind = "createSynergy"
      /\ FirstStep(r) = "lookup" => r.kind = "addSlot"
      /\ FirstStep(r) = "ids" => r.kind = "heroList"
    BY RequestShape DEF FirstStep, Edits
<1>4. FirstStep(r) \in Phases /\ FirstStep(r) # "idle"
    BY <1>3 DEF Phases
<1>5. pc'[w] = FirstStep(r) /\ req'[w] = r /\ view'[w] = NoView
    BY <1>1 DEF WorkerFits
<1>6. WorkerFits(w)'
    BY <1>3, <1>5 DEF WorkerFits
<1>7. ViewCurrent(w)'
    BY <1>3, <1>5 DEF ViewCurrent, NoView
<1>8. OnlyWorker(w)
    BY <1>1 DEF OnlyWorker
<1>9. /\ pc' \in [Workers -> Phases] /\ req' \in [Workers -> Requests \cup {NoRequest}]
      /\ view' \in [Workers -> Views]
    BY <1>1, <1>4
<1>10. QED
    BY <1>2, <1>6, <1>7, <1>8, <1>9, WorkerStep

\* The steps that only read share everything but what is read.
LEMMA ReadKeeps ==
    ASSUME DeskInv, NEW w \in Workers, Watch, UNCHANGED <<codex, req>>,
           pc[w] # "idle", NEW label \in Phases \ {"idle"}, NEW v \in Views,
           pc' = [pc EXCEPT ![w] = label], view' = [view EXCEPT ![w] = v],
           WorkerFits(w)', ViewCurrent(w)'
    PROVE  DeskInv'
<1>1. TablesInv'
    BY TablesKept DEF DeskInv
<1>2. OnlyWorker(w)
    BY DEF OnlyWorker, DeskInv, DeskTyped
<1>3. /\ pc' \in [Workers -> Phases] /\ req' \in [Workers -> Requests \cup {NoRequest}]
      /\ view' \in [Workers -> Views]
    BY DEF DeskInv, DeskTyped
<1>4. QED
    BY <1>1, <1>2, <1>3, WorkerStep

LEMMA ReadRowKeeps ==
    ASSUME DeskInv, NEW w \in Workers, ReadRow(w), Watch
    PROVE  DeskInv'
<1> DEFINE r == req[w]
           v == [view[w] EXCEPT !.name = name[r.table][r.id]]
<1>1. /\ pc[w] = "row" /\ r.id \in Rows(r.table)
      /\ pc' = [pc EXCEPT ![w] = "ladder"] /\ view' = [view EXCEPT ![w] = v]
      /\ UNCHANGED <<codex, req>>
    BY DEF ReadRow, Goto, See
<1>2. r \in Requests /\ r.kind \in Edits
    BY <1>1 DEF DeskInv, WorkerFits
<1>3. r.table \in Tables /\ r.id \in Ids
    BY <1>2, RequestShape DEF Tables
<1>4. name[r.table][r.id] \in Names
    BY <1>1, <1>3 DEF Rows, DeskInv, TablesInv, CodexTypeOK
<1>5. view[w] \in Views
    BY DEF DeskInv, DeskTyped
<1>6. v \in Views /\ v.name = name[r.table][r.id]
    BY <1>4, <1>5 DEF Views
<1>7. pc'[w] = "ladder" /\ req'[w] = r /\ view'[w] = v
    BY <1>1 DEF DeskInv, DeskTyped
<1>8. WorkerFits(w)'
    BY <1>2, <1>4, <1>6, <1>7 DEF WorkerFits
<1>9. ViewCurrent(w)'
    <2>1. r.kind # "addSlot" /\ r.kind # "heroList"
        BY <1>2 DEF Edits
    <2>2. name' = name
        BY <1>1 DEF codex
    <2>3. QED
        BY <1>6, <1>7, <2>1, <2>2 DEF ViewCurrent
<1>10. "ladder" \in Phases \ {"idle"}
    BY DEF Phases
<1>11. pc[w] # "idle"
    BY <1>1
<1> HIDE DEF v
<1>12. QED
    BY <1>1, <1>6, <1>8, <1>9, <1>10, <1>11, ReadKeeps

LEMMA ReadLadderKeeps ==
    ASSUME DeskInv, NEW w \in Workers, ReadLadder(w), Watch
    PROVE  DeskInv'
<1> DEFINE r == req[w]
           v == [view[w] EXCEPT !.ladder = ladder[r.table][r.id]]
           label == IF r.kind = "rename" THEN "check" ELSE "write"
<1>1. /\ pc[w] = "ladder"
      /\ pc' = [pc EXCEPT ![w] = label] /\ view' = [view EXCEPT ![w] = v]
      /\ UNCHANGED <<codex, req>>
    BY DEF ReadLadder, Goto, See
<1>2. r \in Requests /\ r.kind \in Edits /\ view[w].name \in Names
    BY <1>1 DEF DeskInv, WorkerFits
<1>3. r.table \in Synergies /\ r.id \in Ids
    BY <1>2, RequestShape
<1>4. ladder[r.table][r.id] \in Ladders
    BY <1>3 DEF DeskInv, TablesInv, CodexTypeOK
<1>5. view[w] \in Views
    BY DEF DeskInv, DeskTyped
<1>6. v \in Views /\ v.name = view[w].name /\ v.ladder = ladder[r.table][r.id]
    BY <1>4, <1>5 DEF Views
<1>7. pc'[w] = label /\ req'[w] = r /\ view'[w] = v
    BY <1>1 DEF DeskInv, DeskTyped
<1>8. WorkerFits(w)'
    BY <1>2, <1>6, <1>7 DEF WorkerFits
<1>9. ViewCurrent(w)'
    <2>1. r.kind # "addSlot" /\ r.kind # "heroList"
        BY <1>2 DEF Edits
    <2>2. name' = name /\ ladder' = ladder
        BY <1>1 DEF codex
    <2>3. ~overtaken'[w] => view[w].name = name[r.table][r.id]
        BY <1>1, <1>2, <1>7, WatchKeeps DEF DeskInv, ViewCurrent
    <2>4. QED
        BY <1>6, <1>7, <2>1, <2>2, <2>3 DEF ViewCurrent
<1>10. label \in Phases \ {"idle"}
    BY DEF Phases
<1>11. pc[w] # "idle"
    BY <1>1
<1> HIDE DEF v, label
<1>12. QED
    BY <1>1, <1>6, <1>8, <1>9, <1>10, <1>11, ReadKeeps

\* The steps that only move on.
LEMMA MoveKeeps ==
    ASSUME DeskInv, NEW w \in Workers, Watch, UNCHANGED <<codex, req, view>>,
           pc[w] # "idle", NEW label \in Phases \ {"idle"},
           pc' = [pc EXCEPT ![w] = label], WorkerFits(w)', ViewCurrent(w)'
    PROVE  DeskInv'
<1>1. view[w] \in Views /\ view' = [view EXCEPT ![w] = view[w]]
    BY DEF DeskInv, DeskTyped
<1>2. QED
    BY <1>1, ReadKeeps

LEMMA CheckNameKeeps ==
    ASSUME DeskInv, NEW w \in Workers, CheckName(w), Watch
    PROVE  DeskInv'
<1>1. /\ pc[w] = "check" /\ pc' = [pc EXCEPT ![w] = "write"]
      /\ UNCHANGED <<codex, req, view>>
    BY DEF CheckName, Goto
<1>2. /\ pc'[w] = "write" /\ req'[w] = req[w] /\ view'[w] = view[w]
      /\ name' = name /\ ladder' = ladder
    BY <1>1 DEF DeskInv, DeskTyped, codex
<1>3. WorkerFits(w)
    BY DEF DeskInv
<1>4. WorkerFits(w)'
    BY <1>1, <1>2, <1>3 DEF WorkerFits
<1>5. ~overtaken'[w] => ~overtaken[w]
    BY <1>2, WatchKeeps
<1>6. ViewCurrent(w)
    BY DEF DeskInv
<1>7. ViewCurrent(w)'
    <2>1. CASE req[w].kind = "addSlot"
        BY <2>1, <1>1, <1>2, <1>3, <1>4, <1>5, <1>6 DEF ViewCurrent, WorkerFits, Edits
    <2>2. CASE req[w].kind # "addSlot"
        BY <2>2, <1>1, <1>2, <1>5, <1>6 DEF ViewCurrent
    <2>3. QED
        BY <2>1, <2>2
<1>8. "write" \in Phases \ {"idle"} /\ pc[w] # "idle"
    BY <1>1 DEF Phases
<1>9. QED
    BY <1>1, <1>4, <1>7, <1>8, MoveKeeps

LEMMA LookUpHeroKeeps ==
    ASSUME DeskInv, NEW w \in Workers, LookUpHero(w), Watch
    PROVE  DeskInv'
<1>1. PICK id \in Rows("heroes") :
        /\ name["heroes"][id] = req[w].name
        /\ See(w, [view[w] EXCEPT !.id = id])
    BY DEF LookUpHero
<1> DEFINE v == [view[w] EXCEPT !.id = id]
<1>2. /\ pc[w] = "lookup" /\ pc' = [pc EXCEPT ![w] = "write"]
      /\ view' = [view EXCEPT ![w] = v] /\ UNCHANGED <<codex, req>>
    BY <1>1 DEF LookUpHero, Goto, See
<1>3. id \in Ids /\ view[w] \in Views
    BY DEF Rows, DeskInv, DeskTyped
<1>4. v \in Views /\ v.id = id
    BY <1>3 DEF Views
<1>5. req[w].kind = "addSlot" /\ req[w] \in Requests
    BY <1>2 DEF DeskInv, WorkerFits
<1>6. pc'[w] = "write" /\ req'[w] = req[w] /\ view'[w] = v /\ name' = name
    BY <1>2 DEF DeskInv, DeskTyped, codex
<1>7. req[w].kind \notin Edits /\ req[w].kind # "heroList"
    BY <1>5 DEF Edits
<1>8. WorkerFits(w)'
    BY <1>5, <1>6, <1>7 DEF WorkerFits
<1>9. Rows("heroes")' = Rows("heroes")
    BY <1>6 DEF Rows
<1>10. ViewCurrent(w)'
    BY <1>1, <1>4, <1>6, <1>7, <1>9 DEF ViewCurrent
<1>11. "write" \in Phases \ {"idle"} /\ pc[w] # "idle"
    BY <1>2 DEF Phases
<1> HIDE DEF v
<1>12. QED
    BY <1>2, <1>4, <1>8, <1>10, <1>11, ReadKeeps

LEMMA ReadIdsKeeps ==
    ASSUME DeskInv, NEW w \in Workers, ReadIds(w), Watch
    PROVE  DeskInv'
<1> DEFINE v == [view[w] EXCEPT !.todo = Rows("heroes")]
<1>1. /\ pc[w] = "ids" /\ pc' = [pc EXCEPT ![w] = "hero"]
      /\ view' = [view EXCEPT ![w] = v] /\ UNCHANGED <<codex, req>>
    BY DEF ReadIds, Goto, See
<1>2. Rows("heroes") \subseteq Ids /\ view[w] \in Views
    BY DEF Rows, DeskInv, DeskTyped
<1>3. v \in Views /\ v.todo = Rows("heroes") /\ v.bare = view[w].bare
    BY <1>2 DEF Views
<1>4. req[w].kind = "heroList" /\ req[w] \in Requests
    BY <1>1 DEF DeskInv, WorkerFits
<1>5. pc'[w] = "hero" /\ req'[w] = req[w] /\ view'[w] = v /\ name' = name
    BY <1>1 DEF DeskInv, DeskTyped, codex
<1>6. req[w].kind \notin Edits /\ req[w].kind # "addSlot"
    BY <1>4 DEF Edits
<1>7. WorkerFits(w)'
    BY <1>4, <1>5, <1>6 DEF WorkerFits
<1>8. Rows("heroes")' = Rows("heroes")
    BY <1>5 DEF Rows
<1>9. ~overtaken'[w] => view[w].bare = {}
    BY <1>1, <1>4, <1>5, WatchKeeps DEF DeskInv, ViewCurrent
<1>10. ViewCurrent(w)'
    BY <1>3, <1>5, <1>6, <1>8, <1>9 DEF ViewCurrent
<1>11. "hero" \in Phases \ {"idle"} /\ pc[w] # "idle"
    BY <1>1 DEF Phases
<1> HIDE DEF v
<1>12. QED
    BY <1>1, <1>3, <1>7, <1>10, <1>11, ReadKeeps

LEMMA ReadHeroKeeps ==
    ASSUME DeskInv, NEW w \in Workers, ReadHero(w), Watch
    PROVE  DeskInv'
<1> DEFINE label == IF Next1(view[w].todo) \in Rows("heroes") THEN "races" ELSE "failed"
<1>1. /\ pc[w] = "hero" /\ view[w].todo # {} /\ pc' = [pc EXCEPT ![w] = label]
      /\ UNCHANGED <<codex, req, view>>
    BY DEF ReadHero, Goto
<1>2. req[w].kind = "heroList" /\ req[w] \in Requests
    BY <1>1 DEF DeskInv, WorkerFits
<1>3. pc'[w] = label /\ req'[w] = req[w] /\ view'[w] = view[w] /\ name' = name
    BY <1>1 DEF DeskInv, DeskTyped, codex
<1>4. req[w].kind \notin Edits /\ req[w].kind # "addSlot"
    BY <1>2 DEF Edits
<1>5. Rows("heroes")' = Rows("heroes")
    BY <1>3 DEF Rows
<1>6. view[w].todo \in SUBSET Ids
    BY DEF DeskInv, DeskTyped, Views
<1>7. Next1(view[w].todo) \in view[w].todo
    BY <1>1, <1>6, NextInTodo
<1>8. WorkerFits(w)'
    BY <1>1, <1>2, <1>3, <1>4 DEF WorkerFits
<1>9. ~overtaken'[w] => view[w].todo \subseteq Rows("heroes") /\ view[w].bare = {}
    BY <1>1, <1>2, <1>3, WatchKeeps DEF DeskInv, ViewCurrent
<1>10. ViewCurrent(w)'
    BY <1>3, <1>4, <1>5, <1>7, <1>9 DEF ViewCurrent
<1>11. label \in Phases \ {"idle"} /\ pc[w] # "idle"
    BY <1>1 DEF Phases
<1> HIDE DEF label
<1>12. QED
    BY <1>1, <1>8, <1>10, <1>11, MoveKeeps

LEMMA ReadLineageKeeps ==
    ASSUME DeskInv, NEW w \in Workers, NEW t \in Synergies, ReadLineage(w, t), Watch,
           pc[w] = t, NEW label, label = IF t = "races" THEN "classes" ELSE "hero",
           pc' = [pc EXCEPT ![w] = label], UNCHANGED <<codex, req>>
    PROVE  DeskInv'
<1> DEFINE h == Next1(view[w].todo)
           v == [view[w] EXCEPT !.bare = IF LineageOf(h, t) = {} THEN @ \cup {h} ELSE @,
                                !.todo = IF t = "classes" THEN @ \ {h} ELSE @]
<1>1. view' = [view EXCEPT ![w] = v]
    BY DEF ReadLineage, See
<1>2. /\ pc[w] \in {"races", "classes"} /\ req[w].kind = "heroList" /\ req[w] \in Requests
      /\ view[w].todo # {}
    BY DEF DeskInv, WorkerFits, Synergies
<1>3. view[w] \in Views
    BY DEF DeskInv, DeskTyped
<1>4. view[w].todo \in SUBSET Ids /\ view[w].bare \in SUBSET Ids
    BY <1>3 DEF Views
<1>5. h \in view[w].todo /\ h \in Ids
    BY <1>2, <1>4, NextInTodo
<1>6. /\ v.bare = IF LineageOf(h, t) = {} THEN view[w].bare \cup {h} ELSE view[w].bare
      /\ v.todo = IF t = "classes" THEN view[w].todo \ {h} ELSE view[w].todo
    BY <1>3 DEF Views
<1>7. v \in Views
    <2>1. /\ v.bare \in SUBSET Ids /\ v.todo \in SUBSET Ids
        BY <1>4, <1>5, <1>6
    <2>2. v = [view[w] EXCEPT !.bare = v.bare, !.todo = v.todo]
        BY <1>3, <1>6 DEF Views
    <2> HIDE DEF v
    <2>3. QED
        BY <1>3, <2>1, <2>2 DEF Views
<1>8. pc'[w] = label /\ req'[w] = req[w] /\ view'[w] = v /\ name' = name
    BY <1>1 DEF DeskInv, DeskTyped, codex
<1>9. req[w].kind \notin Edits /\ req[w].kind # "addSlot"
    BY <1>2 DEF Edits
<1>10. Rows("heroes")' = Rows("heroes")
    BY <1>8 DEF Rows
<1> HIDE DEF v
<1>11. WorkerFits(w)'
    BY <1>2, <1>6, <1>8, <1>9 DEF WorkerFits, Synergies
<1>12. ~overtaken'[w] => v.todo \subseteq Rows("heroes") /\ v.bare = {}
    <2>1. SUFFICES ASSUME ~overtaken'[w]
                   PROVE  v.todo \subseteq Rows("heroes") /\ v.bare = {}
        OBVIOUS
    <2>2. ~overtaken[w]
        BY <1>8, <2>1, WatchKeeps DEF Synergies
    <2>3. view[w].todo \subseteq Rows("heroes") /\ view[w].bare = {}
        BY <1>2, <2>2 DEF DeskInv, ViewCurrent
    <2>4. Cardinality(LineageOf(h, t)) \in 1..2
        BY <1>5, <2>3 DEF DeskInv, TablesInv, LineagesComplete
    <2>5. LineageOf(h, t) # {}
        BY <2>4, FS_EmptySet
    <2>6. QED
        BY <1>6, <2>3, <2>5
<1>13. ViewCurrent(w)'
    BY <1>8, <1>9, <1>10, <1>12 DEF ViewCurrent
<1>14. label \in Phases \ {"idle"} /\ pc[w] # "idle"
    BY <1>2 DEF Phases
<1>15. QED
    BY <1>1, <1>7, <1>11, <1>13, <1>14, ReadKeeps

LEMMA ShowHeroesKeeps ==
    ASSUME DeskInv, NEW w \in Workers, ShowHeroes(w), Watch
    PROVE  DeskInv'
<1>1. /\ pc[w] = "hero" /\ pc' = [pc EXCEPT ![w] = "shown"]
      /\ UNCHANGED <<codex, req, view>>
    BY DEF ShowHeroes, Goto
<1>2. req[w].kind = "heroList" /\ req[w] \in Requests
    BY <1>1 DEF DeskInv, WorkerFits
<1>3. pc'[w] = "shown" /\ req'[w] = req[w] /\ view'[w] = view[w]
    BY <1>1 DEF DeskInv, DeskTyped
<1>4. WorkerFits(w)'
    BY <1>2, <1>3 DEF WorkerFits
<1>5. ~overtaken'[w] => view[w].bare = {}
    BY <1>1, <1>2, <1>3, WatchKeeps DEF DeskInv, ViewCurrent
<1>6. ViewCurrent(w)'
    BY <1>2, <1>3, <1>5 DEF ViewCurrent, Edits
<1>7. "shown" \in Phases \ {"idle"} /\ pc[w] # "idle"
    BY <1>1 DEF Phases
<1>8. QED
    BY <1>1, <1>4, <1>6, <1>7, MoveKeeps

LEMMA FinishKeeps ==
    ASSUME DeskInv, NEW w \in Workers, Finish(w), Watch, TablesInv'
    PROVE  DeskInv'
<1>1. /\ pc' = [pc EXCEPT ![w] = "idle"] /\ req' = [req EXCEPT ![w] = NoRequest]
      /\ view' = [view EXCEPT ![w] = NoView]
    BY DEF Finish, Goto, See
<1>2. pc'[w] = "idle" /\ req'[w] = NoRequest /\ view'[w] = NoView
    BY <1>1 DEF DeskInv, DeskTyped
<1>3. NoView \in Views /\ "idle" \in Phases
    BY LadderTyped DEF NoView, Views, Phases
<1>4. WorkerFits(w)' /\ ViewCurrent(w)'
    BY <1>2 DEF WorkerFits, ViewCurrent
<1>5. OnlyWorker(w)
    BY <1>1 DEF OnlyWorker, DeskInv, DeskTyped
<1>6. /\ pc' \in [Workers -> Phases] /\ req' \in [Workers -> Requests \cup {NoRequest}]
      /\ view' \in [Workers -> Views]
    BY <1>1, <1>3 DEF DeskInv, DeskTyped
<1>7. QED
    BY <1>4, <1>5, <1>6, WorkerStep

LEMMA CommitKeeps ==
    ASSUME DeskInv, NEW w \in Workers, Commit(w), Watch
    PROVE  DeskInv'
<1>1. pc[w] = "write" /\ Write(req[w], view[w]) /\ Finish(w)
    BY DEF Commit
<1>2. req[w] \in Requests /\ (req[w].kind \in Edits => view[w].name \in Names)
    BY <1>1 DEF DeskInv, WorkerFits
<1>3. view[w].ladder \in Ladders
    BY DEF DeskInv, DeskTyped, Views
<1>4. TablesInv'
    BY <1>1, <1>2, <1>3, Written DEF DeskInv
<1>5. QED
    BY <1>1, <1>4, FinishKeeps

LEMMA HandleKeeps ==
    ASSUME DeskInv, NEW w \in Workers, Handle(w), Watch
    PROVE  DeskInv'
<1>1. ASSUME NEW r \in Requests, Accept(w, r)
      PROVE  DeskInv'
    BY <1>1, AcceptKeeps
<1>2. CASE ReadHeroRaces(w)
    BY <1>2, ReadLineageKeeps DEF ReadHeroRaces, Goto, Synergies
<1>3. CASE ReadHeroClasses(w)
    BY <1>3, ReadLineageKeeps DEF ReadHeroClasses, Goto, Synergies
<1>4. CASE GiveUp(w)
    BY <1>4, FinishKeeps, TablesKept DEF GiveUp, DeskInv
<1>5. QED
    BY <1>1, <1>2, <1>3, <1>4, ReadRowKeeps, ReadLadderKeeps, CheckNameKeeps, LookUpHeroKeeps,
       ReadIdsKeeps, ReadHeroKeeps, ShowHeroesKeeps, CommitKeeps DEF Handle

LEMMA DeskStep ==
    ASSUME DeskInv, [DeskNext]_vars
    PROVE  DeskInv'
<1>1. ASSUME NEW w \in Workers, Handle(w), Watch
      PROVE  DeskInv'
    BY <1>1, HandleKeeps
<1>2. ASSUME FormStep, UNCHANGED <<pc, req, view>>, Watch
      PROVE  DeskInv'
    <2>1. TablesInv'
        BY <1>2, FormsKeep DEF DeskInv
    <2>2. \A u \in Workers : WorkerFits(u)' /\ ViewCurrent(u)'
        BY <1>2, BystanderKeeps
    <2>3. overtaken' \in [Workers -> BOOLEAN]
        BY <1>2 DEF Watch, Disturbs
    <2>4. QED
        BY <1>2, <2>1, <2>2, <2>3 DEF DeskInv, DeskTyped
<1>3. CASE UNCHANGED vars
    <2>1. UNCHANGED codex /\ UNCHANGED <<pc, req, view, overtaken>>
        BY <1>3 DEF vars, desk
    <2>2. TablesInv' /\ Rows("heroes")' = Rows("heroes") /\ name' = name /\ ladder' = ladder
        BY <2>1, TablesKept DEF DeskInv, codex
    <2>3. \A u \in Workers : WorkerFits(u)' /\ ViewCurrent(u)'
        BY <2>1, <2>2 DEF DeskInv, WorkerFits, ViewCurrent
    <2>4. QED
        BY <2>1, <2>2, <2>3 DEF DeskInv, DeskTyped
<1>4. QED
    BY <1>1, <1>2, <1>3 DEF DeskNext

LEMMA DeskStarts ==
    ASSUME DeskInit
    PROVE  DeskInv
<1>1. /\ name = [t \in Tables |-> [i \in Ids |-> NoName]]
      /\ ladder = [t \in Synergies |-> [i \in Ids |-> NoLadder]]
      /\ lineage = {} /\ recipe = {} /\ history = {}
    BY DEF DeskInit, Init
<1>2. \A t \in Tables : Rows(t) = {}
    BY <1>1 DEF Rows
<1>3. CodexTypeOK
    BY <1>1, LadderTyped DEF CodexTypeOK
<1>4. TablesInv
    BY <1>1, <1>2, <1>3 DEF TablesInv, NamesUnique, LineagesComplete, NoRemains, Tables
<1>5. DeskTyped
    BY LadderTyped DEF DeskInit, DeskTyped, NoView, Views, Phases
<1>6. \A w \in Workers : WorkerFits(w) /\ ViewCurrent(w)
    BY DEF DeskInit, WorkerFits, ViewCurrent
<1>7. QED
    BY <1>4, <1>5, <1>6 DEF DeskInv

LEMMA DeskAlways == DeskSpec => []DeskInv
<1>1. DeskInit => DeskInv
    BY DeskStarts
<1>2. DeskInv /\ [DeskNext]_vars => DeskInv'
    BY DeskStep
<1>3. QED
    BY <1>1, <1>2, PTL DEF DeskSpec

-----------------------------------------------------------------------------
(* The theorems.                                                           *)

\* Two rows of a table never share a name, however the looks at the names in use and the
\* writes of any number of requests interleave.
THEOREM NamesStayUnique == DeskSpec => []NamesUnique
<1>1. DeskInv => NamesUnique
    BY DEF DeskInv, TablesInv
<1>2. QED
    BY <1>1, DeskAlways, PTL

\* A hero always has one or two races and one or two classes, and they exist.
THEOREM LineagesStayComplete == DeskSpec => []LineagesComplete
<1>1. DeskInv => LineagesComplete
    BY DEF DeskInv, TablesInv
<1>2. QED
    BY <1>1, DeskAlways, PTL

\* A deleted row leaves no tier, junction row, recipe or mention in a match to the next
\* row that gets its id.
THEOREM NothingRemains == DeskSpec => []NoRemains
<1>1. DeskInv => NoRemains
    BY DEF DeskInv, TablesInv
<1>2. QED
    BY <1>1, DeskAlways, PTL

\* The hero list fails, or shows a hero without a race or a class, only when a hero was
\* deleted while it was put together.
THEOREM ListingsSound == DeskSpec => []ListingSound
<1>1. ASSUME DeskInv, NEW w \in Workers, req[w].kind = "heroList", ~overtaken[w]
      PROVE  pc[w] # "failed" /\ view[w].bare = {}
    <2>1. CASE pc[w] # "idle"
        BY <1>1, <2>1 DEF DeskInv, ViewCurrent
    <2>2. CASE pc[w] = "idle"
        BY <1>1, <2>2 DEF DeskInv, WorkerFits, NoView
    <2>3. QED
        BY <2>1, <2>2
<1>2. DeskInv => ListingSound
    BY <1>1 DEF ListingSound
<1>3. QED
    BY <1>2, DeskAlways, PTL

LEMMA CommitAsAsked ==
    ASSUME DeskInv, NEW w \in Workers, Commit(w), ~overtaken[w]
    PROVE  AsAsked(w)
<1> DEFINE r == req[w]
           v == view[w]
<1>1. pc[w] = "write" /\ Write(r, v) /\ r \in Requests
    BY DEF Commit, DeskInv, WorkerFits
<1>2. ASSUME r.kind \in Edits
      PROVE  /\ r.kind # "rename" => name'[r.table][r.id] = name[r.table][r.id]
             /\ \A c \in Counts :
                r.kind = "rename" \/ c # r.count =>
                    ladder'[r.table][r.id][c] = ladder[r.table][r.id][c]
    <2>1. UpdateSynergy(r.table, r.id, EditedName(r, v), EditedLadder(r, v))
        BY <1>1, <1>2 DEF Write, Edits
    <2>2. r.table \in Synergies /\ r.table \in Tables /\ r.id \in Ids
        BY <1>1, <1>2, RequestShape DEF Tables
    <2>3. /\ name' = [name EXCEPT ![r.table][r.id] = EditedName(r, v)]
          /\ ladder' = [ladder EXCEPT ![r.table][r.id] = EditedLadder(r, v)]
        BY <2>1 DEF UpdateSynergy
    <2>4. /\ name'[r.table][r.id] = EditedName(r, v)
          /\ ladder'[r.table][r.id] = EditedLadder(r, v)
        BY <2>2, <2>3 DEF DeskInv, TablesInv, CodexTypeOK
    <2>5. v.name = name[r.table][r.id] /\ v.ladder = ladder[r.table][r.id]
        BY <1>1, <1>2 DEF DeskInv, ViewCurrent
    <2>6. v.ladder \in Ladders
        BY DEF DeskInv, DeskTyped, Views
    <2>7. r.kind # "rename" => EditedName(r, v) = v.name
        BY DEF EditedName
    <2>8. ASSUME NEW c \in Counts, r.kind = "rename" \/ c # r.count
          PROVE  EditedLadder(r, v)[c] = v.ladder[c]
        <3>1. CASE r.kind = "rename"
            BY <3>1 DEF EditedLadder
        <3>2. CASE r.kind = "saveTier"
            BY <2>6, <2>8, <3>2 DEF EditedLadder, SavedTier, Ladders
        <3>3. CASE r.kind = "deleteTier"
            BY <2>6, <2>8, <3>3 DEF EditedLadder, KeptTiers, Ladders
        <3>4. QED
            BY <1>2, <3>1, <3>2, <3>3 DEF Edits
    <2>9. QED
        BY <2>4, <2>5, <2>7, <2>8
<1>3. r.kind = "addSlot" => name["heroes"][v.id] = r.name
    BY <1>1 DEF DeskInv, ViewCurrent
<1>4. QED
    BY <1>2, <1>3 DEF AsAsked

\* While nobody overtakes it, the edit of one tier writes back the name and every other
\* tier, a rename writes back the ladder, and a slot gets the hero that was typed.
THEOREM UndisturbedEditsExact == DeskSpec => UndisturbedExact
<1>1. ASSUME DeskInv, [DeskNext]_vars, NEW w \in Workers, Commits(w), ~overtaken[w]
      PROVE  AsAsked(w)
    <2>1. pc[w] = "write" /\ pc'[w] = "idle" /\ codex' # codex
        BY <1>1 DEF Commits
    <2>2. PICK u \in Workers : Handle(u)
        BY <1>1, <2>1 DEF DeskNext, vars, desk
    <2>3. Commit(u)
        <3>1. ASSUME NEW q \in Requests, Accept(u, q)
              PROVE  FALSE
            BY <2>1, <3>1 DEF Accept
        <3>2. ~(ReadRow(u) \/ ReadLadder(u) \/ CheckName(u) \/ LookUpHero(u))
            BY <2>1 DEF ReadRow, ReadLadder, CheckName, LookUpHero
        <3>3. ~(ReadIds(u) \/ ReadHero(u) \/ ReadHeroRaces(u) \/ ReadHeroClasses(u)
                    \/ ShowHeroes(u) \/ GiveUp(u))
            BY <2>1 DEF ReadIds, ReadHero, ReadHeroRaces, ReadHeroClasses, ShowHeroes, GiveUp
        <3>4. QED
            BY <2>2, <3>1, <3>2, <3>3 DEF Handle
    <2>4. u = w
        BY <2>1, <2>3 DEF Commit, Finish, Goto, DeskInv, DeskTyped
    <2>5. QED
        BY <1>1, <2>3, <2>4, CommitAsAsked
<1>2. DeskInv /\ [DeskNext]_vars =>
        [\A w \in Workers : Commits(w) /\ ~overtaken[w] => AsAsked(w)]_vars
    BY <1>1
<1>3. QED
    BY <1>2, DeskAlways, PTL DEF DeskSpec, UndisturbedExact
=============================================================================
