-------------------------- MODULE WorkerFilesProofs --------------------------
(***************************************************************************)
(* Theorems about WorkerFiles, for every set of keys, rows and callers and *)
(* any number of confirmations.                                            *)
(***************************************************************************)
EXTENDS WorkerFiles, TLAPS

\* What a caller has removed or will remove.
Purged(c) == sweep[c] \cup removed[c]

\* A call k of an operation carries its key or its row; what it purges is never the
\* key it confirms, and a document removed is the one its row still has.
CallOK(k, purged) ==
  /\ k.op = "confirmDoc"   => k.key \in DocKeys /\ purged = {}
  /\ k.op = "confirmImage" => k.key \in ImageKeys /\ purged \subseteq ImageKeys \ {k.key}
  /\ k.op = "removeDoc"    => /\ k.key = NoKey /\ k.row \in Rows /\ purged \subseteq DocKeys
                              /\ docs[k.row] # NoKey => purged \subseteq {docs[k.row]}
  /\ k.op = "removeWorker" => k.key = NoKey
CallInv ==
  \A c \in Callers :
    /\ call[c] = NoCall => Purged(c) = {}
    /\ call[c] # NoCall => CallOK(call[c], Purged(c))

\* Every reference to a key follows its confirmation; objects only disappear when they
\* are retired.
KeyInv ==
  \A k \in Keys :
    /\ confirms[k] = 0 =>
         /\ k \notin Referenced \cup saved
         /\ \A c \in Callers : k \notin Purged(c) /\ (call[c] # NoCall => call[c].key # k)
    /\ k \in uploaded \ objects => k \in retired /\ confirms[k] # 0

\* A key confirmed once is in one place: in its confirmation, with the object if one
\* was PUT, or in one row, and who removes a document has the row that refers to it.
OnceInv ==
  \A k \in Keys : confirms[k] <= 1 =>
    /\ \A r, s \in Rows : docs[r] = k /\ docs[s] = k => r = s
    /\ \A c \in Callers : call[c] # NoCall =>
         /\ call[c].key = k =>
              /\ k \notin Referenced \cup (uploaded \ objects)
              /\ \A d \in Callers : k \notin Purged(d)
              /\ \A d \in Callers : call[d] # NoCall /\ call[d].key = k => d = c
         /\ call[c].op = "removeDoc" /\ k \in Purged(c) =>
              \A r \in Rows : docs[r] = k => r = call[c].row

\* ReferencesOpen, without what KeyInv says.
OpenInv ==
  \A k \in Referenced :
    \/ k \in objects \cup broken \/ k \notin uploaded
    \/ \E c \in Callers : k \in removed[c]
    \/ confirms[k] > 1

\* Who overlaps a competing call is marked.
RivalInv ==
  \A c, d \in Callers :
    c # d /\ call[c] # NoCall /\ call[d] # NoCall /\ Compete(call[c], call[d]) =>
      {call[c].key, call[d].key} \ {NoKey} \subseteq astray

\* What a call k is about to unlink, it purges first.
Unlinks(k) ==
  IF k.op = "confirmImage" THEN {image} \ {NoKey, k.key}
  ELSE IF k.op = "removeDoc" THEN {docs[k.row]} \ {NoKey}
  ELSE IF k.op = "removeWorker" THEN Referenced
  ELSE {}
Handled(c, k) == k \in sweep[c] \/ k \notin objects \/ k \in astray
PurgeInv ==
  \A c \in Callers : call[c] # NoCall => \A k \in Unlinks(call[c]) : Handled(c, k)

IInv == /\ TypeOK /\ CallInv /\ KeyInv /\ OnceInv /\ OpenInv
        /\ RivalInv /\ PurgeInv /\ NoStrayObject

-----------------------------------------------------------------------------
LEMMA InReferenced ==
  \A k : k \in Referenced <=> k # NoKey /\ (k = image \/ \E r \in Rows : docs[r] = k)
BY DEF Referenced

LEMMA ReferencedKeys ==
  ASSUME TypeOK
  PROVE  Referenced \subseteq Keys
BY InReferenced DEF TypeOK, Keys

LEMMA CallFacts ==
  ASSUME TypeOK, CallInv, NEW c \in Callers, call[c] # NoCall
  PROVE  /\ call[c] \in Call
         /\ CallOK(call[c], Purged(c))
         /\ call[c].key \in Keys \cup {NoKey} /\ call[c].row \in Rows \cup {NoRow}
         /\ call[c].op \in {"confirmDoc", "removeDoc", "confirmImage", "removeWorker"}
         /\ call[c].key \notin Purged(c)
         /\ Purged(c) \subseteq Keys
<1>1. call[c] \in Call /\ CallOK(call[c], Purged(c)) /\ Purged(c) \subseteq Keys
  BY DEF TypeOK, CallInv, Purged
<1>2. /\ call[c].key \in Keys \cup {NoKey} /\ call[c].row \in Rows \cup {NoRow}
      /\ call[c].op \in {"confirmDoc", "removeDoc", "confirmImage", "removeWorker"}
  BY <1>1 DEF Call
<1>3. call[c].key \notin Purged(c)
  BY <1>1, <1>2, NullsAssumption DEF CallOK
<1> QED
  BY <1>1, <1>2, <1>3

LEMMA UnlinksReferenced ==
  ASSUME TypeOK, CallInv, NEW c \in Callers, call[c] # NoCall
  PROVE  Unlinks(call[c]) \subseteq Referenced
BY CallFacts, InReferenced DEF Unlinks, CallOK

LEMMA InitInv == Init => IInv
<1> SUFFICES ASSUME Init PROVE IInv
  OBVIOUS
<1>1. TypeOK
  <2>1. present \in BOOLEAN /\ present
    BY Zenon DEF Init
  <2>2. confirms \in [Keys -> 0..MaxConfirms]
    BY ConfirmsAssumption DEF Init
  <2> QED
    BY <2>1, <2>2 DEF Init, TypeOK
<1>2. Referenced = {} /\ \A c \in Callers : call[c] = NoCall /\ Purged(c) = {}
  BY InReferenced DEF Init, Purged
<1>3. CallInv /\ KeyInv /\ OpenInv /\ RivalInv /\ PurgeInv /\ NoStrayObject
  BY <1>2 DEF Init, CallInv, KeyInv, OpenInv, RivalInv, PurgeInv, NoStrayObject
<1>4. OnceInv
  BY <1>2, NullsAssumption DEF Init, OnceInv
<1> QED
  BY <1>1, <1>3, <1>4 DEF IInv

-----------------------------------------------------------------------------
(* The client.                                                             *)

\* An object arrives; if its key was confirmed before, it is marked.
LEMMA UploadInv ==
  ASSUME IInv, NEW k \in Keys, Upload(k)
  PROVE  IInv'
<1>0. TypeOK /\ CallInv /\ KeyInv
  BY DEF IInv
<1>1. /\ k \notin uploaded /\ uploaded' = uploaded \cup {k} /\ objects' = objects \cup {k}
      /\ astray' = IF confirms[k] > 0 THEN astray \cup {k} ELSE astray
      /\ UNCHANGED <<present, docs, image, confirms, call, sweep, removed, saved, retired, broken>>
  BY DEF Upload, calls
<1>2. Referenced' = Referenced /\ \A c \in Callers : Purged(c)' = Purged(c)
  BY <1>1 DEF Referenced, Purged
<1>3. astray \subseteq astray' /\ astray' \subseteq astray \cup {k}
  BY <1>1
<1>4. TypeOK'
  BY <1>0, <1>1, <1>3 DEF TypeOK
<1>5. KeyInv'
  BY <1>0, <1>1, <1>2 DEF KeyInv
<1>6. k \in Referenced \cup saved => k \in astray'
  <2>1. confirms[k] \in Nat
    BY <1>0, ConfirmsAssumption DEF TypeOK
  <2>2. k \in Referenced \cup saved => confirms[k] # 0
    BY <1>0 DEF KeyInv
  <2> QED
    BY <1>1, <2>1, <2>2
<1>7. NoStrayObject' /\ OpenInv'
  BY <1>1, <1>2, <1>3, <1>6 DEF IInv, NoStrayObject, OpenInv
<1>8. OnceInv'
  BY <1>1, <1>2 DEF IInv, OnceInv
<1>9. PurgeInv'
  <2>1. ASSUME NEW c \in Callers, NEW l \in Referenced, Handled(c, l)
        PROVE  Handled(c, l)'
    BY <1>1, <1>3, <1>6, <2>1 DEF Handled
  <2>2. ASSUME NEW c \in Callers, call[c] # NoCall
        PROVE  Unlinks(call[c])' = Unlinks(call[c]) /\ Unlinks(call[c]) \subseteq Referenced
    BY <1>0, <1>1, <1>2, <2>2, UnlinksReferenced DEF Unlinks
  <2> QED
    BY <1>1, <2>1, <2>2 DEF IInv, PurgeInv
<1>10. CallInv'
  BY <1>1, <1>2 DEF IInv, CallInv, CallOK
<1>11. RivalInv'
  BY <1>1, <1>3 DEF IInv, RivalInv, Compete
<1> QED
  BY <1>4, <1>5, <1>7, <1>8, <1>9, <1>10, <1>11 DEF IInv

-----------------------------------------------------------------------------
(* The back end: a call begins.                                            *)

Kept(c) == \A d \in Callers \ {c} :
  call'[d] = call[d] /\ sweep'[d] = sweep[d] /\ removed'[d] = removed[d]

LEMMA BeginFacts ==
  ASSUME IInv, NEW c \in Callers, NEW a \in Call, NEW ks \in SUBSET Keys, Begin(c, a, ks)
  PROVE  /\ call[c] = NoCall /\ call'[c] = a /\ a # NoCall
         /\ sweep'[c] = ks /\ Purged(c)' = ks
         /\ Kept(c) /\ \A d \in Callers \ {c} : Purged(d)' = Purged(d)
         /\ call' \in [Callers -> Call \cup {NoCall}] /\ sweep' \in [Callers -> SUBSET Keys]
         /\ UNCHANGED <<present, docs, image, objects, uploaded, removed, saved, retired, broken>>
         /\ Referenced' = Referenced
         /\ astray \subseteq astray' /\ astray' \subseteq Keys
         /\ \A d \in Callers : call[d] # NoCall /\ Compete(a, call[d]) =>
              {a.key, call[d].key} \ {NoKey} \subseteq astray'
<1>0. TypeOK /\ CallInv
  BY DEF IInv
<1>1. /\ call[c] = NoCall /\ call'[c] = a /\ a # NoCall
      /\ sweep'[c] = ks /\ removed[c] = {} /\ sweep[c] = {}
      /\ \A d \in Callers \ {c} : call'[d] = call[d] /\ sweep'[d] = sweep[d]
      /\ call' \in [Callers -> Call \cup {NoCall}] /\ sweep' \in [Callers -> SUBSET Keys]
      /\ UNCHANGED <<present, docs, image, objects, uploaded, removed, saved, retired, broken>>
  BY <1>0, NullsAssumption DEF Begin, TypeOK, CallInv, Purged, files
<1> DEFINE rivals == {b \in {call[d] : d \in Busy} : Compete(a, b)}
<1>2. rivals \subseteq Call
  BY <1>0 DEF Busy, TypeOK
<1>3. astray' = astray \cup IF rivals = {} THEN {} ELSE {b.key : b \in rivals \cup {a}} \ {NoKey}
  BY DEF Begin
<1>4. \A b \in rivals \cup {a} : b.key \in Keys \cup {NoKey}
  BY <1>2 DEF Call
<1>5. astray \subseteq astray' /\ astray' \subseteq Keys
  BY <1>0, <1>3, <1>4 DEF TypeOK
<1>6. ASSUME NEW d \in Callers, call[d] # NoCall, Compete(a, call[d])
      PROVE  {a.key, call[d].key} \ {NoKey} \subseteq astray'
  <2>1. call[d] \in rivals
    BY <1>6 DEF Busy
  <2> HIDE DEF rivals
  <2> QED
    BY <1>3, <2>1
<1>7. Referenced' = Referenced /\ Kept(c) /\ \A d \in Callers \ {c} : Purged(d)' = Purged(d)
  BY <1>1 DEF Referenced, Kept, Purged
<1>8. Purged(c)' = ks
  BY <1>1 DEF Purged
<1> QED
  BY <1>1, <1>5, <1>6, <1>7, <1>8

LEMMA BeginInv ==
  ASSUME IInv, NEW c \in Callers, NEW a \in Call, NEW ks \in SUBSET Keys, Begin(c, a, ks),
         CallOK(a, ks), Unlinks(a) \subseteq ks,
         confirms' \in [Keys -> 0..MaxConfirms], \A k \in Keys : confirms[k] <= confirms'[k]
  PROVE  TypeOK' /\ CallInv' /\ OpenInv' /\ RivalInv' /\ PurgeInv' /\ NoStrayObject'
<1>0. TypeOK /\ CallInv
  BY DEF IInv
<1>1. TypeOK'
  BY <1>0, BeginFacts DEF TypeOK
<1>2. CallInv'
  BY <1>0, BeginFacts DEF CallInv, CallOK, Kept
<1>3. OpenInv'
  <2>1. ASSUME NEW k \in Referenced, confirms[k] > 1
        PROVE  confirms'[k] > 1
    BY <1>0, <2>1, ReferencedKeys DEF TypeOK
  <2> QED
    BY <2>1, BeginFacts DEF IInv, OpenInv
<1>4. RivalInv'
  <2>1. ASSUME NEW d \in Callers, NEW e \in Callers, d # e, call'[d] # NoCall, call'[e] # NoCall,
               Compete(call'[d], call'[e])
        PROVE  {call'[d].key, call'[e].key} \ {NoKey} \subseteq astray'
    <3>1. CASE d # c /\ e # c
      <4>1. {call[d].key, call[e].key} \ {NoKey} \subseteq astray
        BY <2>1, <3>1, BeginFacts DEF IInv, RivalInv, Kept
      <4> QED
        BY <3>1, <4>1, BeginFacts DEF Kept
    <3>2. CASE d = c
      BY <2>1, <3>2, BeginFacts DEF Kept
    <3>3. CASE e = c
      <4>1. Compete(a, call[d])
        BY <2>1, <3>3, BeginFacts DEF Compete, Kept
      <4> QED
        BY <2>1, <3>3, <4>1, BeginFacts DEF Kept
    <3> QED
      BY <3>1, <3>2, <3>3
  <2> QED
    BY <2>1 DEF RivalInv, Compete
<1>5. PurgeInv'
  <2>1. ASSUME NEW d \in Callers, call'[d] # NoCall
        PROVE  /\ Unlinks(call[d])' = Unlinks(call'[d])
               /\ \A k \in Unlinks(call'[d]) : Handled(d, k)'
    <3>1. Unlinks(call[d])' = Unlinks(call'[d])
      BY BeginFacts DEF Unlinks
    <3>2. CASE d = c
      BY <3>1, <3>2, BeginFacts DEF Handled
    <3>3. CASE d # c
      <4>1. call'[d] = call[d] /\ sweep'[d] = sweep[d]
        BY <3>3, BeginFacts DEF Kept
      <4>2. \A k \in Unlinks(call[d]) : Handled(d, k)
        BY <2>1, <4>1 DEF IInv, PurgeInv
      <4> QED
        BY <3>1, <4>1, <4>2, BeginFacts DEF Handled
    <3> QED
      BY <3>1, <3>2, <3>3
  <2> QED
    BY <2>1 DEF PurgeInv
<1>6. NoStrayObject'
  BY BeginFacts DEF IInv, NoStrayObject
<1> QED
  BY <1>1, <1>2, <1>3, <1>4, <1>5, <1>6

\* The calls that confirm a key.
LEMMA ConfirmInv ==
  ASSUME IInv, NEW c \in Callers, NEW k \in Keys, NEW a \in Call, NEW ks \in SUBSET Keys,
         Confirming(k), Begin(c, a, ks), CallOK(a, ks), Unlinks(a) \subseteq ks,
         a.key = k, a.op # "removeDoc", ks \subseteq Referenced \ {k}
  PROVE  IInv'
<1>0. TypeOK /\ KeyInv /\ OnceInv
  BY DEF IInv
<1>1. /\ confirms' \in [Keys -> 0..MaxConfirms]
      /\ confirms'[k] = confirms[k] + 1 /\ \A l \in Keys \ {k} : confirms'[l] = confirms[l]
      /\ \A l \in Keys : confirms[l] \in Nat
  BY <1>0, ConfirmsAssumption DEF Confirming, TypeOK
<1>2. KeyInv'
  <2>1. ASSUME NEW l \in Keys
        PROVE  /\ confirms'[l] = 0 =>
                    /\ l \notin Referenced \cup saved
                    /\ \A d \in Callers : l \notin Purged(d)' /\ (call'[d] # NoCall => call'[d].key # l)
               /\ l \in uploaded \ objects => l \in retired /\ confirms'[l] # 0
    <3>1. CASE l = k
      BY <1>0, <1>1, <3>1 DEF KeyInv
    <3>2. CASE l # k
      <4>1. confirms'[l] = 0 => \A d \in Callers : l \notin Purged(d)' /\ (call'[d] # NoCall => call'[d].key # l)
        BY <1>0, <1>1, <3>2, BeginFacts DEF KeyInv, Kept
      <4> QED
        BY <1>0, <1>1, <3>2, <4>1 DEF KeyInv
    <3> QED
      BY <3>1, <3>2
  <2> QED
    BY <2>1, BeginFacts DEF KeyInv
<1>3. OnceInv'
  <2> SUFFICES ASSUME NEW l \in Keys, confirms'[l] <= 1
               PROVE  /\ \A r, s \in Rows : docs[r] = l /\ docs[s] = l => r = s
                      /\ \A d \in Callers : call'[d] # NoCall =>
                           /\ call'[d].key = l =>
                                /\ l \notin Referenced \cup (uploaded \ objects)
                                /\ \A e \in Callers : l \notin Purged(e)'
                                /\ \A e \in Callers : call'[e] # NoCall /\ call'[e].key = l => e = d
                           /\ call'[d].op = "removeDoc" /\ l \in Purged(d)' =>
                                \A r \in Rows : docs[r] = l => r = call'[d].row
    BY BeginFacts DEF OnceInv
  <2>1. confirms[l] <= 1
    BY <1>1
  <2>2. CASE l = k
    <3>1. confirms[k] = 0
      BY <1>1, <2>2
    <3>2. /\ k \notin Referenced \cup (uploaded \ objects)
          /\ \A d \in Callers : k \notin Purged(d)
          /\ \A d \in Callers : call[d] # NoCall => call[d].key # k
      BY <1>0, <1>1, <3>1 DEF KeyInv
    <3>3. \A d \in Callers : k \notin Purged(d)' /\ (call'[d] # NoCall /\ call'[d].key = k => d = c)
      BY <3>2, BeginFacts DEF Kept
    <3> QED
      BY <1>0, <2>1, <2>2, <3>2, <3>3 DEF OnceInv
  <2>3. CASE l # k
    <3>1. ASSUME NEW d \in Callers, call'[d] # NoCall, call'[d].key = l
          PROVE  /\ l \notin Referenced \cup (uploaded \ objects)
                 /\ \A e \in Callers : l \notin Purged(e)'
                 /\ \A e \in Callers : call'[e] # NoCall /\ call'[e].key = l => e = d
      <4>1. d # c /\ call[d] # NoCall /\ call[d].key = l
        BY <2>3, <3>1, BeginFacts DEF Kept
      <4>2. /\ l \notin Referenced \cup (uploaded \ objects)
            /\ \A e \in Callers : l \notin Purged(e)
            /\ \A e \in Callers : call[e] # NoCall /\ call[e].key = l => e = d
        BY <1>0, <2>1, <4>1 DEF OnceInv
      <4> QED
        BY <2>3, <4>2, BeginFacts DEF Kept
    <3>2. ASSUME NEW d \in Callers, call'[d] # NoCall, call'[d].op = "removeDoc", l \in Purged(d)'
          PROVE  \A r \in Rows : docs[r] = l => r = call'[d].row
      BY <1>0, <2>1, <3>2, BeginFacts DEF OnceInv, Kept
    <3> QED
      BY <1>0, <2>1, <3>1, <3>2 DEF OnceInv
  <2> QED
    BY <2>2, <2>3
<1>4. \A l \in Keys : confirms[l] <= confirms'[l]
  BY <1>1
<1> QED
  BY <1>1, <1>2, <1>3, <1>4, BeginInv DEF IInv

\* The calls that remove.
LEMMA RemovalInv ==
  ASSUME IInv, NEW c \in Callers, NEW a \in Call, NEW ks \in SUBSET Keys,
         Begin(c, a, ks), CallOK(a, ks), Unlinks(a) \subseteq ks, UNCHANGED confirms,
         a.key = NoKey, ks \subseteq Referenced, a.op = "removeDoc" => ks = {docs[a.row]} /\ a.row \in Rows
  PROVE  IInv'
<1>0. TypeOK /\ KeyInv /\ OnceInv
  BY DEF IInv
<1>1. KeyInv'
  <2>1. ASSUME NEW l \in Keys, confirms[l] = 0, NEW d \in Callers
        PROVE  l \notin Purged(d)' /\ (call'[d] # NoCall => call'[d].key # l)
    BY <1>0, <2>1, BeginFacts, NullsAssumption DEF KeyInv, Kept
  <2> QED
    BY <1>0, <2>1, BeginFacts DEF KeyInv
<1>2. OnceInv'
  <2> SUFFICES ASSUME NEW l \in Keys, confirms[l] <= 1
               PROVE  /\ \A r, s \in Rows : docs[r] = l /\ docs[s] = l => r = s
                      /\ \A d \in Callers : call'[d] # NoCall =>
                           /\ call'[d].key = l =>
                                /\ l \notin Referenced \cup (uploaded \ objects)
                                /\ \A e \in Callers : l \notin Purged(e)'
                                /\ \A e \in Callers : call'[e] # NoCall /\ call'[e].key = l => e = d
                           /\ call'[d].op = "removeDoc" /\ l \in Purged(d)' =>
                                \A r \in Rows : docs[r] = l => r = call'[d].row
    BY BeginFacts DEF OnceInv
  <2>1. ASSUME NEW d \in Callers, call'[d] # NoCall, call'[d].key = l
        PROVE  /\ l \notin Referenced \cup (uploaded \ objects)
               /\ \A e \in Callers : l \notin Purged(e)'
               /\ \A e \in Callers : call'[e] # NoCall /\ call'[e].key = l => e = d
    <3>1. d # c /\ call[d] # NoCall /\ call[d].key = l
      BY <2>1, BeginFacts, NullsAssumption DEF Kept
    <3>2. /\ l \notin Referenced \cup (uploaded \ objects)
          /\ \A e \in Callers : l \notin Purged(e)
          /\ \A e \in Callers : call[e] # NoCall /\ call[e].key = l => e = d
      BY <1>0, <3>1 DEF OnceInv
    <3> QED
      BY <3>2, BeginFacts, NullsAssumption DEF Kept
  <2>2. ASSUME NEW d \in Callers, call'[d] # NoCall, call'[d].op = "removeDoc", l \in Purged(d)'
        PROVE  \A r \in Rows : docs[r] = l => r = call'[d].row
    <3>1. CASE d = c
      BY <1>0, <2>2, <3>1, BeginFacts DEF OnceInv
    <3>2. CASE d # c
      BY <1>0, <2>2, <3>2, BeginFacts DEF OnceInv, Kept
    <3> QED
      BY <3>1, <3>2
  <2> QED
    BY <1>0, <2>1, <2>2 DEF OnceInv
<1>3. confirms' \in [Keys -> 0..MaxConfirms] /\ \A k \in Keys : confirms[k] <= confirms'[k]
  BY <1>0, ConfirmsAssumption DEF TypeOK
<1> QED
  BY <1>1, <1>2, <1>3, BeginInv DEF IInv

LEMMA StartInv ==
  ASSUME IInv, NEW c \in Callers, Start(c)
  PROVE  IInv'
<1>0. TypeOK /\ Referenced \subseteq Keys
  BY ReferencedKeys DEF IInv
<1>1. ASSUME NEW k \in DocKeys, StartConfirmDoc(c, k)
      PROVE  IInv'
  <2> DEFINE a == [op |-> "confirmDoc", key |-> k, row |-> NoRow]
  <2>1. a \in Call /\ k \in Keys /\ CallOK(a, {}) /\ Unlinks(a) = {}
    BY DEF Call, Keys, CallOK, Unlinks
  <2>2. Confirming(k) /\ Begin(c, a, {})
    BY <1>1 DEF StartConfirmDoc
  <2>3. a.key = k /\ a.op # "removeDoc"
    OBVIOUS
  <2> HIDE DEF a
  <2> QED
    BY <2>1, <2>2, <2>3, ConfirmInv
<1>2. ASSUME NEW k \in ImageKeys, StartConfirmImage(c, k)
      PROVE  IInv'
  <2> DEFINE a  == [op |-> "confirmImage", key |-> k, row |-> NoRow]
             ks == {image} \ {NoKey, k}
  <2>1. a \in Call /\ k \in Keys
    BY DEF Call, Keys
  <2>2. ks \subseteq ImageKeys \ {k} /\ ks \subseteq Referenced \ {k}
    BY <1>0, InReferenced DEF TypeOK
  <2>3. CallOK(a, ks) /\ Unlinks(a) \subseteq ks
    BY <2>2 DEF CallOK, Unlinks
  <2>4. Confirming(k) /\ Begin(c, a, ks)
    BY <1>2 DEF StartConfirmImage
  <2>5. a.key = k /\ a.op # "removeDoc"
    OBVIOUS
  <2> HIDE DEF a, ks
  <2> QED
    BY <1>0, <2>1, <2>2, <2>3, <2>4, <2>5, ConfirmInv
<1>3. ASSUME NEW r \in Rows, StartRemoveDoc(c, r)
      PROVE  IInv'
  <2> DEFINE a == [op |-> "removeDoc", key |-> NoKey, row |-> r]
  <2>1. a \in Call /\ a.key = NoKey /\ a.op = "removeDoc" /\ a.row = r
    BY DEF Call
  <2>2. {docs[r]} \subseteq Referenced
    BY <1>3, InReferenced DEF StartRemoveDoc
  <2>3. CallOK(a, {docs[r]}) /\ Unlinks(a) \subseteq {docs[r]}
    BY <1>0, <1>3 DEF CallOK, Unlinks, TypeOK, StartRemoveDoc
  <2>4. Begin(c, a, {docs[r]}) /\ UNCHANGED confirms
    BY <1>3 DEF StartRemoveDoc
  <2> HIDE DEF a
  <2> QED
    BY <1>0, <2>1, <2>2, <2>3, <2>4, RemovalInv
<1>4. ASSUME StartRemoveWorker(c)
      PROVE  IInv'
  <2> DEFINE a == [op |-> "removeWorker", key |-> NoKey, row |-> NoRow]
  <2>1. a \in Call /\ a.key = NoKey /\ a.op # "removeDoc"
    BY DEF Call
  <2>2. CallOK(a, Referenced) /\ Unlinks(a) \subseteq Referenced
    BY DEF CallOK, Unlinks
  <2>3. Begin(c, a, Referenced) /\ UNCHANGED confirms
    BY <1>4 DEF StartRemoveWorker
  <2> HIDE DEF a
  <2> QED
    BY <1>0, <2>1, <2>2, <2>3, RemovalInv
<1> QED
  BY <1>1, <1>2, <1>3, <1>4 DEF Start

-----------------------------------------------------------------------------
(* An object goes, or the store refuses.                                   *)

LEMMA RemoveObjectInv ==
  ASSUME IInv, NEW c \in Callers, RemoveObject(c)
  PROVE  IInv'
<1>0. TypeOK /\ CallInv
  BY DEF IInv
<1>1. PICK k \in sweep[c] :
        /\ sweep' = [sweep EXCEPT ![c] = @ \ {k}]
        /\ \/ /\ objects' = objects \ {k}
              /\ removed' = [removed EXCEPT ![c] = @ \cup {k}]
              /\ retired' = retired \cup ({k} \ {call[c].key})
              /\ UNCHANGED astray
           \/ /\ astray' = astray \cup {k}
              /\ UNCHANGED <<objects, removed, retired>>
        /\ UNCHANGED <<present, docs, image, uploaded, confirms, call, saved, broken>>
  BY DEF RemoveObject, Upcoming, client
<1>2. k \in Purged(c) /\ k \in Keys /\ call[c] # NoCall
  BY <1>0, <1>1 DEF Purged, CallInv, TypeOK
<1>3. k # call[c].key
  BY <1>0, <1>2, CallFacts
<1>4. /\ Referenced' = Referenced /\ astray \subseteq astray' /\ retired \subseteq retired'
      /\ objects' \subseteq objects /\ objects \ {k} \subseteq objects'
      /\ k \in objects' => k \in astray'
      /\ k \notin objects' => k \notin objects \/ (k \in retired' /\ k \in removed'[c])
      /\ \A d \in Callers : removed[d] \subseteq removed'[d] /\ sweep[d] \ {k} \subseteq sweep'[d]
  BY <1>0, <1>1, <1>3 DEF Referenced, TypeOK
<1>5. \A d \in Callers : Purged(d)' \subseteq Purged(d)
  BY <1>0, <1>1 DEF Purged, TypeOK
<1>6. TypeOK'
  <2>1. sweep' \in [Callers -> SUBSET Keys] /\ removed' \in [Callers -> SUBSET Keys]
    BY <1>0, <1>1, <1>2 DEF TypeOK
  <2> QED
    BY <1>0, <1>1, <1>2, <2>1 DEF TypeOK
<1>7. CallInv'
  BY <1>0, <1>1, <1>5 DEF CallInv, CallOK
<1>8. KeyInv'
  <2>1. confirms[k] # 0
    BY <1>2 DEF IInv, KeyInv
  <2> QED
    BY <1>1, <1>4, <1>5, <2>1 DEF IInv, KeyInv
<1>9. OnceInv'
  <2> SUFFICES ASSUME NEW l \in Keys, confirms[l] <= 1
               PROVE  /\ \A r, s \in Rows : docs[r] = l /\ docs[s] = l => r = s
                      /\ \A d \in Callers : call[d] # NoCall =>
                           /\ call[d].key = l =>
                                /\ l \notin Referenced \cup (uploaded \ objects')
                                /\ \A e \in Callers : l \notin Purged(e)'
                                /\ \A e \in Callers : call[e] # NoCall /\ call[e].key = l => e = d
                           /\ call[d].op = "removeDoc" /\ l \in Purged(d)' =>
                                \A r \in Rows : docs[r] = l => r = call[d].row
    BY <1>1, <1>4 DEF OnceInv
  <2> QED
    BY <1>2, <1>4, <1>5 DEF IInv, OnceInv
<1>10. OpenInv'
  BY <1>1, <1>4 DEF IInv, OpenInv
<1>11. RivalInv'
  <2>1. \A d, e \in Callers :
          d # e /\ call[d] # NoCall /\ call[e] # NoCall /\ Compete(call[d], call[e]) =>
            {call[d].key, call[e].key} \ {NoKey} \subseteq astray'
    BY <1>4 DEF IInv, RivalInv
  <2> QED
    BY <1>1, <2>1 DEF RivalInv, Compete
<1>12. PurgeInv'
  <2>1. \A d \in Callers, l \in Keys : Handled(d, l) => Handled(d, l)'
    BY <1>4 DEF Handled
  <2>2. \A d \in Callers : call[d] # NoCall =>
          Unlinks(call[d])' = Unlinks(call[d]) /\ Unlinks(call[d]) \subseteq Keys
    BY <1>0, <1>1, <1>4, UnlinksReferenced, ReferencedKeys DEF Unlinks
  <2> QED
    BY <1>1, <2>1, <2>2 DEF IInv, PurgeInv
<1>13. NoStrayObject'
  BY <1>1, <1>4 DEF IInv, NoStrayObject
<1> QED
  BY <1>6, <1>7, <1>8, <1>9, <1>10, <1>11, <1>12, <1>13 DEF IInv

-----------------------------------------------------------------------------
(* A call ends.                                                            *)

LEMMA ReturnFacts ==
  ASSUME IInv, NEW c \in Callers, Return(c)
  PROVE  /\ call'[c] = NoCall /\ Purged(c)' = {} /\ removed'[c] = {}
         /\ Kept(c) /\ \A d \in Callers \ {c} : Purged(d)' = Purged(d)
         /\ \A d \in Callers : call'[d] # NoCall =>
              d # c /\ call'[d] = call[d] /\ call[d] # NoCall /\ sweep'[d] = sweep[d]
         /\ \A d \in Callers : Purged(d)' \subseteq Purged(d)
         /\ call' \in [Callers -> Call \cup {NoCall}]
         /\ sweep' \in [Callers -> SUBSET Keys] /\ removed' \in [Callers -> SUBSET Keys]
BY DEF IInv, Return, TypeOK, Kept, Purged

\* Ending a call that leaves rows and marks alone, but for keys it may have broken.
LEMMA IdleInv ==
  ASSUME IInv, NEW c \in Callers, call[c] # NoCall, Return(c),
         UNCHANGED <<files, client, saved, astray, retired>>,
         broken \subseteq broken', broken' \subseteq Keys,
         \A k \in Referenced : k \in removed[c] => k \in broken' \/ confirms[k] > 1
  PROVE  IInv'
<1>0. TypeOK /\ CallInv
  BY DEF IInv
<1>1. /\ UNCHANGED <<present, docs, image, objects, uploaded, confirms, saved, astray, retired>>
      /\ Referenced' = Referenced
  BY DEF files, client, Referenced
<1>2. TypeOK'
  BY <1>0, <1>1, ReturnFacts DEF TypeOK
<1>3. CallInv'
  <2>1. \A d \in Callers : call'[d] = NoCall => Purged(d)' = {}
    BY <1>0, ReturnFacts DEF CallInv, Kept
  <2>2. \A d \in Callers : call'[d] # NoCall => CallOK(call'[d], Purged(d)')
    BY <1>0, ReturnFacts DEF CallInv
  <2> QED
    BY <1>1, <2>1, <2>2 DEF CallInv, CallOK
<1>4. KeyInv'
  BY <1>1, ReturnFacts DEF IInv, KeyInv
<1>5. OnceInv'
  BY <1>1, ReturnFacts DEF IInv, OnceInv
<1>6. OpenInv'
  BY <1>1, ReturnFacts DEF IInv, OpenInv, Kept
<1>7. RivalInv'
  BY <1>1, ReturnFacts DEF IInv, RivalInv, Compete
<1>8. PurgeInv'
  <2>1. \A d \in Callers : call[d] # NoCall => Unlinks(call[d])' = Unlinks(call'[d])
    BY <1>1 DEF Unlinks
  <2>2. ASSUME NEW d \in Callers, call'[d] # NoCall
        PROVE  \A k \in Unlinks(call[d])' : Handled(d, k)'
    BY <1>1, <2>1, <2>2, ReturnFacts DEF IInv, PurgeInv, Handled
  <2> QED
    BY <2>2 DEF PurgeInv
<1>9. NoStrayObject'
  BY <1>1 DEF IInv, NoStrayObject
<1> QED
  BY <1>2, <1>3, <1>4, <1>5, <1>6, <1>7, <1>8, <1>9 DEF IInv

LEMMA CrashInv ==
  ASSUME IInv, NEW c \in Callers, Crash(c)
  PROVE  IInv'
<1>1. removed[c] \subseteq Keys /\ broken \subseteq Keys
  BY DEF IInv, TypeOK
<1> QED
  BY <1>1, IdleInv DEF Crash

\* The row is gone, and with it every reference to what was purged for it.
LEMMA WriteRefusedInv ==
  ASSUME IInv, NEW c \in Callers, WriteRefused(c)
  PROVE  IInv'
<1>0. TypeOK /\ CallInv /\ call[c] # NoCall
  BY DEF IInv, WriteRefused
<1>1. ASSUME NEW k \in Referenced, k \in removed[c]
      PROVE  confirms[k] > 1
  <2>1. k \in Keys /\ k \in Purged(c) /\ k # NoKey
    BY <1>0, <1>1, ReferencedKeys, InReferenced DEF Purged
  <2>2. CASE call[c].op = "removeDoc" /\ docs[call[c].row] = NoKey
    <3>1. k # image
      BY <1>0, <2>1, <2>2, CallFacts, KeysAssumption DEF CallOK, TypeOK
    <3> QED
      BY <1>0, <1>1, <2>1, <2>2, <3>1, InReferenced DEF IInv, OnceInv, TypeOK
  <2>3. CASE ~present
    BY <1>0, <1>1, <2>3, InReferenced DEF TypeOK
  <2> QED
    BY <2>2, <2>3 DEF WriteRefused
<1>2. UNCHANGED <<files, client, saved, astray, retired, broken>> /\ Return(c)
  BY DEF WriteRefused, history
<1> QED
  BY <1>0, <1>1, <1>2, IdleInv DEF IInv, TypeOK

\* What every write leaves alone.
WritesRows(c) ==
  /\ call[c] # NoCall /\ sweep[c] = {} /\ Return(c)
  /\ UNCHANGED <<objects, uploaded, confirms, astray, retired, broken>>
  /\ Referenced' \subseteq Referenced \cup {call[c].key}
  /\ saved' \subseteq saved \cup ({call[c].key} \ {NoKey})

LEMMA WriteCommon ==
  ASSUME IInv, NEW c \in Callers, WritesRows(c)
  PROVE  RivalInv' /\ KeyInv'
<1>1. RivalInv'
  BY ReturnFacts DEF IInv, RivalInv, Compete, WritesRows
<1>2. KeyInv'
  <2>1. \A l \in Keys : confirms[l] = 0 => call[c].key # l
    BY DEF IInv, KeyInv, WritesRows
  <2> QED
    BY <2>1, ReturnFacts DEF IInv, KeyInv, WritesRows
<1> QED
  BY <1>1, <1>2

\* A purge that is over: what the call unlinks has left the store or is marked.
LEMMA PurgeOver ==
  ASSUME IInv, NEW c \in Callers, call[c] # NoCall, sweep[c] = {},
         NEW l \in Unlinks(call[c]), l \in objects
  PROVE  l \in astray
BY DEF IInv, PurgeInv, Handled

LEMMA WriteDocInv ==
  ASSUME IInv, NEW c \in Callers, WriteDoc(c)
  PROVE  IInv'
<1>0. TypeOK /\ CallInv
  BY DEF IInv
<1> DEFINE k == call[c].key
<1>1. PICK r \in FreeRows : docs' = [docs EXCEPT ![r] = k]
  BY DEF WriteDoc
<1>2. /\ call[c] # NoCall /\ call[c].op = "confirmDoc" /\ sweep[c] = {} /\ present /\ Return(c)
      /\ saved' = saved \cup {k}
      /\ UNCHANGED <<present, image, objects, uploaded, confirms, astray, retired, broken>>
  BY DEF WriteDoc, AtWrite, client
<1>3. k \in DocKeys /\ k \in Keys /\ k # NoKey /\ Purged(c) = {} /\ removed[c] = {}
  BY <1>0, <1>2, CallFacts, NullsAssumption DEF CallOK, Keys, Purged
<1>4. /\ r \in Rows /\ docs[r] = NoKey /\ \A d \in Callers : call[d] # NoCall => call[d].row # r
      /\ docs'[r] = k /\ \A s \in Rows \ {r} : docs'[s] = docs[s]
  BY <1>0, <1>1 DEF FreeRows, Busy, TypeOK
<1>5. k = call[c].key
  OBVIOUS
<1> HIDE DEF k
<1>6. Referenced' = Referenced \cup {k}
  <2>1. \A l : l \in Referenced' <=> l # NoKey /\ (l = image \/ \E s \in Rows : docs'[s] = l)
    BY <1>2 DEF Referenced
  <2> QED
    BY <1>3, <1>4, <2>1, InReferenced
<1>7. TypeOK'
  BY <1>0, <1>1, <1>2, <1>3, ReturnFacts DEF TypeOK
<1>8. KeyInv' /\ RivalInv'
  BY <1>2, <1>3, <1>5, <1>6, WriteCommon DEF WritesRows
<1>9. CallInv'
  <2>1. ASSUME NEW d \in Callers, call'[d] # NoCall
        PROVE  CallOK(call[d], Purged(d))'
    <3>1. call'[d] = call[d] /\ CallOK(call[d], Purged(d)) /\ Purged(d)' = Purged(d)
      BY <1>0, <1>2, <2>1, ReturnFacts DEF CallInv
    <3>2. call[d].op = "removeDoc" => docs'[call[d].row] = docs[call[d].row]
      BY <1>4, <2>1, <3>1 DEF CallOK
    <3> QED
      BY <3>1, <3>2 DEF CallOK
  <2>2. \A d \in Callers : call'[d] = NoCall => Purged(d)' = {}
    BY <1>0, <1>2, ReturnFacts DEF CallInv, Kept
  <2> QED
    BY <2>1, <2>2 DEF CallInv
<1>10. k \notin Referenced \cup (uploaded \ objects) \/ confirms[k] > 1
  BY <1>0, <1>2, <1>3, <1>5 DEF IInv, OnceInv, TypeOK
<1>11. OpenInv'
  BY <1>2, <1>3, <1>6, <1>10, ReturnFacts DEF IInv, OpenInv, Kept
<1>12. OnceInv'
  <2> SUFFICES ASSUME NEW l \in Keys, confirms[l] <= 1
               PROVE  /\ \A s, t \in Rows : docs'[s] = l /\ docs'[t] = l => s = t
                      /\ \A d \in Callers : call'[d] # NoCall =>
                           /\ call'[d].key = l =>
                                /\ l \notin Referenced' \cup (uploaded \ objects)
                                /\ \A e \in Callers : l \notin Purged(e)'
                                /\ \A e \in Callers : call'[e] # NoCall /\ call'[e].key = l => e = d
                           /\ call'[d].op = "removeDoc" /\ l \in Purged(d)' =>
                                \A s \in Rows : docs'[s] = l => s = call'[d].row
    BY <1>2 DEF OnceInv
  <2>1. CASE l = k
    <3>1. /\ k \notin Referenced /\ \A d \in Callers : k \notin Purged(d)
          /\ \A d \in Callers : call[d] # NoCall /\ call[d].key = k => d = c
      BY <1>2, <1>5, <2>1 DEF IInv, OnceInv
    <3>2. \A s \in Rows : docs'[s] = k => s = r
      BY <1>3, <1>4, <3>1, InReferenced
    <3> QED
      BY <1>2, <2>1, <3>1, <3>2, ReturnFacts
  <2>2. CASE l # k
    <3>1. \A s \in Rows : docs'[s] = l => docs[s] = l
      BY <1>4, <2>2
    <3> QED
      BY <1>2, <1>6, <2>2, <3>1, ReturnFacts DEF IInv, OnceInv
  <2> QED
    BY <2>1, <2>2
<1>13. PurgeInv'
  <2>1. ASSUME NEW d \in Callers, call'[d] # NoCall
        PROVE  \A l \in Unlinks(call[d])' : Handled(d, l)'
    <3>1. d # c /\ call'[d] = call[d] /\ call[d] # NoCall /\ sweep'[d] = sweep[d]
      BY <1>2, <2>1, ReturnFacts
    <3>2. \A l \in Unlinks(call[d]) : Handled(d, l)'
      BY <1>2, <3>1 DEF IInv, PurgeInv, Handled
    <3>3. CASE call[d].op = "removeWorker"
      <4>1. k \in astray
        BY <1>2, <1>3, <1>5, <3>1, <3>3 DEF IInv, RivalInv, Compete
      <4>2. Unlinks(call[d])' \subseteq Unlinks(call[d]) \cup {k}
        BY <1>6, <3>1, <3>3 DEF Unlinks
      <4> QED
        BY <1>2, <3>2, <4>1, <4>2 DEF Handled
    <3>4. CASE call[d].op = "removeDoc"
      <4>1. docs'[call[d].row] = docs[call[d].row]
        BY <1>0, <1>4, <3>1, <3>4, CallFacts DEF CallOK
      <4>2. Unlinks(call[d])' = Unlinks(call[d])
        BY <3>1, <3>4, <4>1 DEF Unlinks
      <4> QED
        BY <3>2, <4>2
    <3>5. CASE call[d].op \notin {"removeWorker", "removeDoc"}
      <4>1. Unlinks(call[d])' = Unlinks(call[d])
        BY <1>2, <3>1, <3>5 DEF Unlinks
      <4> QED
        BY <3>2, <4>1
    <3> QED
      BY <3>3, <3>4, <3>5
  <2> QED
    BY <2>1 DEF PurgeInv
<1>14. NoStrayObject'
  BY <1>2, <1>6 DEF IInv, NoStrayObject
<1> QED
  BY <1>7, <1>8, <1>9, <1>11, <1>12, <1>13, <1>14 DEF IInv

LEMMA WriteImageInv ==
  ASSUME IInv, NEW c \in Callers, WriteImage(c)
  PROVE  IInv'
<1>0. TypeOK /\ CallInv
  BY DEF IInv
<1> DEFINE k == call[c].key
<1>2. /\ call[c] # NoCall /\ call[c].op = "confirmImage" /\ sweep[c] = {} /\ present /\ Return(c)
      /\ saved' = saved \cup {k} /\ image' = k
      /\ UNCHANGED <<present, docs, objects, uploaded, confirms, astray, retired, broken>>
  BY DEF WriteImage, AtWrite, client
<1>3. /\ k \in ImageKeys /\ k \in Keys /\ k # NoKey
      /\ removed[c] \subseteq ImageKeys \ {k}
  BY <1>0, <1>2, CallFacts, NullsAssumption DEF CallOK, Keys, Purged
<1>5. k = call[c].key
  OBVIOUS
<1> HIDE DEF k
<1>6. /\ \A l : l \in Referenced' <=> l # NoKey /\ (l = k \/ \E s \in Rows : docs[s] = l)
      /\ Referenced' \subseteq Referenced \cup {k}
      /\ Referenced \subseteq Referenced' \cup {image}
  <2>1. \A l : l \in Referenced' <=> l # NoKey /\ (l = k \/ \E s \in Rows : docs[s] = l)
    BY <1>2 DEF Referenced
  <2> QED
    BY <1>3, <2>1, InReferenced
<1>7. TypeOK'
  BY <1>0, <1>2, <1>3, ReturnFacts DEF TypeOK
<1>8. KeyInv' /\ RivalInv'
  BY <1>2, <1>3, <1>5, <1>6, WriteCommon DEF WritesRows
<1>9. CallInv'
  <2>1. \A d \in Callers : call'[d] # NoCall => CallOK(call'[d], Purged(d)')
    BY <1>0, <1>2, ReturnFacts DEF CallInv
  <2>2. \A d \in Callers : call'[d] = NoCall => Purged(d)' = {}
    BY <1>0, <1>2, ReturnFacts DEF CallInv, Kept
  <2> QED
    BY <1>2, <2>1, <2>2 DEF CallInv, CallOK
<1>10. k \notin Referenced \cup (uploaded \ objects) \/ confirms[k] > 1
  BY <1>0, <1>2, <1>3, <1>5 DEF IInv, OnceInv, TypeOK
<1>11. OpenInv'
  <2>1. ASSUME NEW l \in Referenced', l # k
        PROVE  l \in Referenced /\ l \notin removed[c]
    BY <1>0, <1>3, <1>6, <2>1, KeysAssumption DEF TypeOK
  <2> QED
    BY <1>2, <1>10, <2>1, ReturnFacts DEF IInv, OpenInv, Kept
<1>12. OnceInv'
  <2> SUFFICES ASSUME NEW l \in Keys, confirms[l] <= 1
               PROVE  /\ \A s, t \in Rows : docs[s] = l /\ docs[t] = l => s = t
                      /\ \A d \in Callers : call'[d] # NoCall =>
                           /\ call'[d].key = l =>
                                /\ l \notin Referenced' \cup (uploaded \ objects)
                                /\ \A e \in Callers : l \notin Purged(e)'
                                /\ \A e \in Callers : call'[e] # NoCall /\ call'[e].key = l => e = d
                           /\ call'[d].op = "removeDoc" /\ l \in Purged(d)' =>
                                \A s \in Rows : docs[s] = l => s = call'[d].row
    BY <1>2 DEF OnceInv
  <2>1. CASE l = k
    <3>1. /\ k \notin Referenced /\ \A d \in Callers : k \notin Purged(d)
          /\ \A d \in Callers : call[d] # NoCall /\ call[d].key = k => d = c
      BY <1>2, <1>5, <2>1 DEF IInv, OnceInv
    <3> QED
      BY <1>2, <1>3, <2>1, <3>1, InReferenced, ReturnFacts
  <2>2. CASE l # k
    BY <1>2, <1>6, <2>2, ReturnFacts DEF IInv, OnceInv
  <2> QED
    BY <2>1, <2>2
<1>13. PurgeInv'
  <2>1. ASSUME NEW d \in Callers, call'[d] # NoCall
        PROVE  \A l \in Unlinks(call[d])' : Handled(d, l)'
    <3>1. d # c /\ call'[d] = call[d] /\ call[d] # NoCall /\ sweep'[d] = sweep[d]
      BY <1>2, <2>1, ReturnFacts
    <3>2. \A l \in Unlinks(call[d]) : Handled(d, l)'
      BY <1>2, <3>1 DEF IInv, PurgeInv, Handled
    <3>3. CASE call[d].op \in {"removeWorker", "confirmImage"}
      <4>1. k \in astray
        BY <1>2, <1>3, <1>5, <3>1, <3>3 DEF IInv, RivalInv, Compete
      <4>2. Unlinks(call[d])' \subseteq Unlinks(call[d]) \cup {k}
        BY <1>2, <1>6, <3>1, <3>3 DEF Unlinks
      <4> QED
        BY <1>2, <3>2, <4>1, <4>2 DEF Handled
    <3>4. CASE call[d].op \notin {"removeWorker", "confirmImage"}
      <4>1. Unlinks(call[d])' = Unlinks(call[d])
        BY <1>2, <3>1, <3>4 DEF Unlinks
      <4> QED
        BY <3>2, <4>1
    <3> QED
      BY <3>3, <3>4
  <2> QED
    BY <2>1 DEF PurgeInv
<1>14. NoStrayObject'
  <2>1. image # k /\ image \in objects \cap Keys => image \in astray
    <3>1. image # k /\ image # NoKey => image \in Unlinks(call[c])
      BY <1>2, <1>5 DEF Unlinks
    <3> QED
      BY <1>2, <3>1, PurgeOver, NullsAssumption
  <2> QED
    BY <1>0, <1>2, <1>3, <1>6, <2>1 DEF IInv, NoStrayObject, TypeOK
<1> QED
  BY <1>7, <1>8, <1>9, <1>11, <1>12, <1>13, <1>14 DEF IInv

LEMMA DeleteDocInv ==
  ASSUME IInv, NEW c \in Callers, DeleteDoc(c)
  PROVE  IInv'
<1>0. TypeOK /\ CallInv
  BY DEF IInv
<1>1. PICK r \in Rows : r = call[c].row
  BY <1>0, CallFacts DEF DeleteDoc, AtWrite, CallOK
<1>2. /\ call[c] # NoCall /\ call[c].op = "removeDoc" /\ sweep[c] = {} /\ Return(c)
      /\ docs' = [docs EXCEPT ![r] = NoKey] /\ docs[r] # NoKey
      /\ UNCHANGED <<present, image, objects, uploaded, confirms, saved, astray, retired, broken>>
  BY <1>1 DEF DeleteDoc, AtWrite, client, history
<1>3. call[c].key = NoKey /\ removed[c] \subseteq {docs[r]} /\ docs[r] \in DocKeys
  BY <1>0, <1>1, <1>2, CallFacts DEF CallOK, Purged, TypeOK
<1>4. docs'[r] = NoKey /\ \A s \in Rows \ {r} : docs'[s] = docs[s]
  BY <1>0, <1>2 DEF TypeOK
<1>6. /\ \A l : l \in Referenced' <=> l # NoKey /\ (l = image \/ \E s \in Rows : docs'[s] = l)
      /\ Referenced' \subseteq Referenced
      /\ Referenced \subseteq Referenced' \cup {docs[r]}
  <2>1. \A l : l \in Referenced' <=> l # NoKey /\ (l = image \/ \E s \in Rows : docs'[s] = l)
    BY <1>2 DEF Referenced
  <2> QED
    BY <1>4, <2>1, InReferenced
<1>7. TypeOK'
  BY <1>0, <1>2, ReturnFacts DEF TypeOK
<1>8. KeyInv' /\ RivalInv'
  BY <1>2, <1>6, WriteCommon DEF WritesRows
<1>9. CallInv'
  <2>1. ASSUME NEW d \in Callers, call'[d] # NoCall
        PROVE  CallOK(call[d], Purged(d))'
    <3>1. call'[d] = call[d] /\ CallOK(call[d], Purged(d)) /\ Purged(d)' = Purged(d)
      BY <1>0, <1>2, <2>1, ReturnFacts DEF CallInv
    <3>2. call[d].op = "removeDoc" => docs'[call[d].row] \in {docs[call[d].row], NoKey}
      BY <1>4, <2>1, <3>1 DEF CallOK
    <3> QED
      BY <3>1, <3>2 DEF CallOK
  <2>2. \A d \in Callers : call'[d] = NoCall => Purged(d)' = {}
    BY <1>0, <1>2, ReturnFacts DEF CallInv, Kept
  <2> QED
    BY <2>1, <2>2 DEF CallInv
<1>11. OpenInv'
  <2>1. ASSUME NEW l \in Referenced', l \in removed[c]
        PROVE  confirms[l] > 1
    <3>1. l = docs[r] /\ l \in Keys /\ l # image
      BY <1>0, <1>3, <2>1, KeysAssumption, NullsAssumption DEF TypeOK, Keys
    <3>2. PICK s \in Rows : docs'[s] = l /\ l # NoKey
      BY <1>6, <2>1, <3>1
    <3>3. s # r /\ docs[s] = l
      BY <1>4, <3>2
    <3> QED
      BY <1>0, <3>1, <3>3 DEF IInv, OnceInv, TypeOK
  <2> QED
    BY <1>2, <1>6, <2>1, ReturnFacts DEF IInv, OpenInv, Kept
<1>12. OnceInv'
  <2>1. \A l \in Keys : \A s \in Rows : docs'[s] = l => docs[s] = l
    BY <1>4, NullsAssumption
  <2> QED
    BY <1>2, <1>6, <2>1, ReturnFacts DEF IInv, OnceInv
<1>13. PurgeInv'
  <2>1. ASSUME NEW d \in Callers, call'[d] # NoCall
        PROVE  \A l \in Unlinks(call[d])' : Handled(d, l)'
    <3>1. d # c /\ call'[d] = call[d] /\ call[d] # NoCall /\ sweep'[d] = sweep[d]
      BY <1>2, <2>1, ReturnFacts
    <3>2. \A l \in Unlinks(call[d]) : Handled(d, l)'
      BY <1>2, <3>1 DEF IInv, PurgeInv, Handled
    <3>3. call[d].op = "removeDoc" => docs'[call[d].row] \in {docs[call[d].row], NoKey}
      BY <1>0, <1>4, <3>1, CallFacts DEF CallOK
    <3>4. Unlinks(call[d])' \subseteq Unlinks(call[d])
      BY <1>2, <1>6, <3>1, <3>3 DEF Unlinks
    <3> QED
      BY <3>2, <3>4
  <2> QED
    BY <2>1 DEF PurgeInv
<1>14. NoStrayObject'
  <2>1. docs[r] \in objects => docs[r] \in astray
    <3>1. docs[r] \in Unlinks(call[c])
      BY <1>1, <1>2 DEF Unlinks
    <3> QED
      BY <1>2, <3>1, PurgeOver
  <2> QED
    BY <1>2, <1>6, <2>1 DEF IInv, NoStrayObject
<1> QED
  BY <1>7, <1>8, <1>9, <1>11, <1>12, <1>13, <1>14 DEF IInv

LEMMA DeleteWorkerInv ==
  ASSUME IInv, NEW c \in Callers, DeleteWorker(c)
  PROVE  IInv'
<1>0. TypeOK /\ CallInv
  BY DEF IInv
<1>2. /\ call[c] # NoCall /\ call[c].op = "removeWorker" /\ sweep[c] = {} /\ Return(c)
      /\ present' = FALSE /\ docs' = [s \in Rows |-> NoKey] /\ image' = NoKey
      /\ UNCHANGED <<objects, uploaded, confirms, saved, astray, retired, broken>>
  BY DEF DeleteWorker, AtWrite, client, history
<1>6. Referenced' = {}
  BY <1>2 DEF Referenced
<1>7. TypeOK'
  <2>1. present' \in BOOLEAN
    BY <1>2
  <2> QED
    BY <1>0, <1>2, <2>1, ReturnFacts DEF TypeOK
<1>8. KeyInv' /\ RivalInv'
  BY <1>2, <1>6, WriteCommon DEF WritesRows
<1>9. CallInv'
  <2>1. ASSUME NEW d \in Callers, call'[d] # NoCall
        PROVE  CallOK(call[d], Purged(d))'
    <3>1. call'[d] = call[d] /\ CallOK(call[d], Purged(d)) /\ Purged(d)' = Purged(d)
      BY <1>0, <1>2, <2>1, ReturnFacts DEF CallInv
    <3>2. call[d].op = "removeDoc" => docs'[call[d].row] = NoKey
      BY <1>2, <3>1 DEF CallOK
    <3> QED
      BY <3>1, <3>2 DEF CallOK
  <2>2. \A d \in Callers : call'[d] = NoCall => Purged(d)' = {}
    BY <1>0, <1>2, ReturnFacts DEF CallInv, Kept
  <2> QED
    BY <2>1, <2>2 DEF CallInv
<1>11. OpenInv'
  BY <1>6 DEF OpenInv
<1>12. OnceInv'
  <2>1. \A l \in Keys : \A s \in Rows : docs'[s] # l
    BY <1>2, NullsAssumption
  <2> QED
    BY <1>2, <1>6, <2>1, ReturnFacts DEF IInv, OnceInv
<1>13. PurgeInv'
  <2>1. \A d \in Callers : call'[d] # NoCall => Unlinks(call[d])' = {}
    BY <1>0, <1>2, <1>6, ReturnFacts, CallFacts DEF Unlinks, CallOK
  <2> QED
    BY <2>1 DEF PurgeInv
<1>14. NoStrayObject'
  <2>1. Unlinks(call[c]) = Referenced
    BY <1>2 DEF Unlinks
  <2>2. \A l \in Referenced : l \in objects => l \in astray
    BY <1>2, <2>1, PurgeOver
  <2> QED
    BY <1>2, <1>6, <2>2 DEF IInv, NoStrayObject
<1> QED
  BY <1>7, <1>8, <1>9, <1>11, <1>12, <1>13, <1>14 DEF IInv

LEMMA StepInv == IInv /\ [Next]_vars => IInv'
<1> SUFFICES ASSUME IInv, [Next]_vars PROVE IInv'
  OBVIOUS
<1>1. CASE UNCHANGED vars
  BY <1>1 DEF vars, files, client, calls, history, IInv, TypeOK, CallInv, CallOK, KeyInv, OnceInv,
              OpenInv, RivalInv, Compete, PurgeInv, Unlinks, Handled, NoStrayObject, Referenced, Purged
<1>2. ASSUME NEW c \in Callers, Start(c) \/ Step(c) \/ Crash(c)
      PROVE  IInv'
  BY <1>2, StartInv, RemoveObjectInv, WriteDocInv, WriteImageInv, DeleteDocInv, DeleteWorkerInv,
     WriteRefusedInv, CrashInv DEF Step
<1> QED
  BY <1>1, <1>2, UploadInv DEF Next

LEMMA Invariance == Spec => []IInv
BY InitInv, StepInv, PTL DEF Spec

\* Rows, objects and uploads belong together: no row without its worker, no object
\* without an uploaded, whatever was removed under the calls in flight.
THEOREM TypeCorrect == Spec => []TypeOK
BY Invariance, PTL DEF IInv

\* confirmDoc, confirmImage, removeDoc and remove purge before they write: a reference
\* that cannot be opened is one of the exceptions ReferencesOpen names, and no other,
\* for keys confirmed before, after or without their PUT.
THEOREM ReferencesStayOpen == Spec => []ReferencesOpen
<1>1. IInv => ReferencesOpen
  <2> SUFFICES ASSUME IInv, NEW k \in Referenced
               PROVE  \/ Readable(k)
                      \/ k \notin uploaded \/ k \in broken
                      \/ \E c \in Callers : k \in removed[c]
                      \/ confirms[k] > 1 /\ k \in retired
    BY DEF ReferencesOpen
  <2>1. k \in Keys
    BY ReferencedKeys DEF IInv
  <2>2. k \in uploaded \ objects => k \in retired
    BY <2>1 DEF IInv, KeyInv
  <2> QED
    BY <2>2 DEF IInv, OpenInv, Readable
<1> QED
  BY <1>1, Invariance, PTL

\* "Purge the old object to avoid orphaned bytes": what no row refers to any more has
\* left the store, but for the objects of competing calls and refused removals.
THEOREM NoObjectGoesAstray == Spec => []NoStrayObject
BY Invariance, PTL DEF IInv
=============================================================================
