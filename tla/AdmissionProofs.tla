-------------------------- MODULE AdmissionProofs --------------------------
(***************************************************************************)
(* The admission counts are exact, the per-client cap holds and the global  *)
(* cap is exceeded by at most one connection per other loop, for any number *)
(* of connections, loops and addresses.                                     *)
(***************************************************************************)
EXTENDS Admission, FiniteSetTheorems, TLAPS

-----------------------------------------------------------------------------
(* The inductive invariant.                                                 *)

\* A loop inside a callback works on a connection of its own, which is in
\* the state the callback left it in.
PointsConsistent ==
    \A l \in Loops :
       \/ point[l] = "idle"
       \/ /\ serving[l] \in Conns
          /\ owner[serving[l]] = l
          /\ \/ /\ point[l] \in {"readLive", "takeSlot", "count"}
                /\ conn[serving[l]] = "accepting"
             \/ /\ point[l] = "giveSlot"
                /\ conn[serving[l]] = "closing"

\* Who holds a slot: nobody before takeSlot, exactly the reported client
\* afterwards.
SlotOwners ==
    /\ \A l \in Loops :
          /\ point[l] \in {"readLive", "takeSlot"} => peerIp[serving[l]] = NoIp
          /\ point[l] = "count" /\ MaxPerIp > 0 =>
                peerIp[serving[l]] = clientIp[serving[l]]
    /\ \A c \in Conns : MaxPerIp > 0 /\ conn[c] = "open" => peerIp[c] = clientIp[c]

SlotsCapped == MaxPerIp > 0 => \A ip \in IPs : ipCounts[ip] <= MaxPerIp

\* The loops past the check of the global cap that have not counted yet.
Admitting == {l \in Loops : point[l] \in {"takeSlot", "count"}}

AdmittingBound ==
    MaxConn > 0 => liveConns + Cardinality(Admitting) <= MaxConn + Cardinality(Loops) - 1

IInv ==
    /\ TypeOK
    /\ PointsConsistent
    /\ SlotOwners
    /\ LiveCountExact
    /\ SlotsExact
    /\ SlotsCapped
    /\ AdmittingBound

-----------------------------------------------------------------------------
(* Counting.                                                                *)

\* Moving one loop between points changes the number of admitting loops by
\* at most one, and there are never more of them than loops.
LEMMA AdmittingStep ==
    ASSUME TypeOK, NEW l \in Loops, NEW p \in Points,
           point' = [point EXCEPT ![l] = p]
    PROVE  /\ Cardinality(Admitting) \in Nat
           /\ Cardinality(Admitting') \in Nat
           /\ Cardinality(Loops) \in Nat
           /\ Cardinality(Admitting') <= Cardinality(Loops)
           /\ p \in {"takeSlot", "count"} /\ point[l] \in {"takeSlot", "count"}
                 => Cardinality(Admitting') = Cardinality(Admitting)
           /\ p \notin {"takeSlot", "count"} /\ point[l] \in {"takeSlot", "count"}
                 => Cardinality(Admitting') = Cardinality(Admitting) - 1
           /\ p \notin {"takeSlot", "count"} /\ point[l] \notin {"takeSlot", "count"}
                 => Cardinality(Admitting') = Cardinality(Admitting)
<1>1. IsFiniteSet(Admitting) /\ IsFiniteSet(Admitting')
  BY LoopsAssumption, FS_Subset DEF Admitting
<1>2. /\ Cardinality(Admitting) \in Nat
      /\ Cardinality(Admitting') \in Nat
      /\ Cardinality(Loops) \in Nat
  BY <1>1, LoopsAssumption, FS_CardinalityType
<1>3. Cardinality(Admitting') <= Cardinality(Loops)
  <2>1. Admitting' \in SUBSET Loops
    BY DEF Admitting
  <2>2. QED
    BY <2>1, LoopsAssumption, FS_Subset
<1>4. p \in {"takeSlot", "count"} /\ point[l] \in {"takeSlot", "count"}
         => Admitting' = Admitting
  BY DEF Admitting, TypeOK
<1>5. p \notin {"takeSlot", "count"} /\ point[l] \in {"takeSlot", "count"}
         => Admitting' = Admitting \ {l} /\ l \in Admitting
  BY DEF Admitting, TypeOK
<1>6. p \notin {"takeSlot", "count"} /\ point[l] \notin {"takeSlot", "count"}
         => Admitting' = Admitting
  BY DEF Admitting, TypeOK
<1>7. QED
  BY <1>1, <1>2, <1>3, <1>4, <1>5, <1>6, FS_RemoveElement

-----------------------------------------------------------------------------
(* Init and every action establish the invariant.                           *)

\* The start state, with no connections, satisfies the invariant.
LEMMA InitIInv == Init => IInv
<1> SUFFICES ASSUME Init PROVE IInv
  OBVIOUS
<1>1. TypeOK
  BY Zenon DEF Init, TypeOK, ConnStates, Points
<1>2. PointsConsistent /\ SlotOwners /\ SlotsCapped
  BY AddressAssumption, CapAssumption
     DEF Init, PointsConsistent, SlotOwners, SlotsCapped
<1>3. LiveCountExact
  BY FS_EmptySet DEF Init, LiveCountExact
<1>4. SlotsExact
  <2>1. \A ip \in IPs : Holders(ip) = {}
    BY AddressAssumption DEF Init, Holders
  <2>2. QED
    BY <2>1, FS_EmptySet DEF Init, SlotsExact
<1>5. AdmittingBound
  <2>1. Admitting = {}
    BY DEF Init, Admitting
  <2>2. Cardinality(Loops) \in Nat /\ Cardinality(Loops) # 0
    BY LoopsAssumption, FS_CardinalityType, FS_EmptySet
  <2>3. QED
    BY <2>1, <2>2, CapAssumption, FS_EmptySet DEF Init, AdmittingBound
<1>6. QED
  BY <1>1, <1>2, <1>3, <1>4, <1>5 DEF IInv

\* The steps that touch neither counter: only who is where has to be checked.
LEMMA QuietStep ==
    ASSUME IInv, UNCHANGED <<peerIp, counted, liveConns, ipCounts>>,
           \A c \in Conns :
              /\ conn'[c] = "open" => conn[c] = "open"
              /\ conn'[c] \in {"new", "accepting", "closing", "closed"} =>
                    conn[c] \in {"new", "accepting", "closing", "closed"}
              /\ conn'[c] \in {"new", "closed"} => conn[c] \in {"new", "closed"}
    PROVE  LiveCountExact' /\ SlotsExact' /\ SlotsCapped'
  BY DEF IInv, LiveCountExact, SlotsExact, SlotsCapped, Holders

\* onConnection's entry only moves a connection and the loop that runs it.
LEMMA OnConnectionStep ==
    ASSUME IInv, NEW l \in Loops, NEW c \in Conns, NEW ip \in IPs \cup {NoIp},
           OnConnection(l, c, ip)
    PROVE  IInv'
<1> USE DEF IInv
<1>1. TypeOK'
  BY DEF TypeOK, OnConnection, Refuse, GoTo, ConnStates, Points
<1>2. PointsConsistent'
  BY DEF TypeOK, PointsConsistent, OnConnection, Refuse, GoTo
<1>3. SlotOwners'
  BY DEF TypeOK, PointsConsistent, SlotOwners, SlotsExact, OnConnection, Refuse, GoTo
<1>4. LiveCountExact' /\ SlotsExact' /\ SlotsCapped'
  BY QuietStep DEF TypeOK, OnConnection, Refuse
<1>5. AdmittingBound'
  <2>1. PICK p \in Points :
           point' = [point EXCEPT ![l] = p] /\ p \in {"idle", "readLive"}
    BY DEF OnConnection, Refuse, GoTo, Points
  <2>2. Cardinality(Admitting') = Cardinality(Admitting)
    BY <2>1, AdmittingStep, Zenon DEF OnConnection
  <2>3. QED
    BY <2>2 DEF AdmittingBound, OnConnection
<1>6. QED
  BY <1>1, <1>2, <1>3, <1>4, <1>5

\* The check of liveConns_ leaves one more loop past it, or refuses.
LEMMA ReadLiveStep ==
    ASSUME IInv, NEW l \in Loops, ReadLive(l)
    PROVE  IInv'
<1> USE DEF IInv
<1>1. serving[l] \in Conns /\ conn[serving[l]] = "accepting" /\ owner[serving[l]] = l
  BY DEF PointsConsistent, ReadLive
<1>2. TypeOK'
  BY <1>1 DEF TypeOK, ReadLive, Refuse, GoTo, ConnStates, Points
<1>3. PointsConsistent'
  BY <1>1 DEF TypeOK, PointsConsistent, ReadLive, Refuse, GoTo
<1>4. SlotOwners'
  BY <1>1 DEF TypeOK, PointsConsistent, SlotOwners, ReadLive, Refuse, GoTo
<1>5. LiveCountExact' /\ SlotsExact' /\ SlotsCapped'
  BY <1>1, QuietStep DEF TypeOK, ReadLive, Refuse
<1>6. AdmittingBound'
  <2>1. PICK p \in Points :
           /\ point' = [point EXCEPT ![l] = p]
           /\ \/ p = "idle"
              \/ p = "takeSlot" /\ ~(MaxConn > 0 /\ liveConns >= MaxConn)
    <3>1. CASE MaxConn > 0 /\ liveConns >= MaxConn
      BY <3>1 DEF ReadLive, Refuse, GoTo, Points
    <3>2. CASE ~(MaxConn > 0 /\ liveConns >= MaxConn)
      BY <1>1, <3>2 DEF ReadLive, GoTo, Points
    <3>3. QED
      BY <3>1, <3>2
  <2>2. point[l] = "readLive" /\ liveConns' = liveConns
    BY DEF ReadLive
  <2>3. CASE p = "idle"
    <3>1. Cardinality(Admitting') = Cardinality(Admitting)
      BY <2>1, <2>2, <2>3, AdmittingStep, Zenon
    <3>2. QED
      BY <2>2, <3>1 DEF AdmittingBound
  <2>4. CASE p = "takeSlot" /\ ~(MaxConn > 0 /\ liveConns >= MaxConn)
    <3>1. /\ Cardinality(Admitting') <= Cardinality(Loops)
          /\ Cardinality(Admitting') \in Nat
          /\ Cardinality(Loops) \in Nat
      BY <2>1, AdmittingStep, Zenon
    <3>2. QED
      BY <2>2, <2>4, <3>1, CapAssumption DEF AdmittingBound, TypeOK
  <2>5. QED
    BY <2>1, <2>3, <2>4
<1>7. QED
  BY <1>2, <1>3, <1>4, <1>5, <1>6

\* One connection's slot goes from old to new, and the counts follow: the
\* shape of every step that touches ipCounts_.
LEMMA SlotStep ==
    ASSUME TypeOK, SlotsExact, SlotsCapped, NEW c \in Conns,
           NEW new \in IPs \cup {NoIp}, new # peerIp[c],
           peerIp' = [peerIp EXCEPT ![c] = new],
           ipCounts' \in [IPs -> Int],
           \A ip \in IPs : ipCounts'[ip] = IF ip = new THEN ipCounts[ip] + 1
                                           ELSE IF ip = peerIp[c] THEN ipCounts[ip] - 1
                                           ELSE ipCounts[ip],
           MaxPerIp > 0 /\ new \in IPs => ipCounts[new] < MaxPerIp
    PROVE  /\ \A ip \in IPs : ipCounts'[ip] = Cardinality(Holders(ip)')
           /\ ipCounts' \in [IPs -> Nat]
           /\ SlotsCapped'
<1>1. ASSUME NEW ip \in IPs
      PROVE  ipCounts'[ip] = Cardinality(Holders(ip)') /\ Cardinality(Holders(ip)') \in Nat
  <2> DEFINE old == Holders(ip)
             now == Holders(ip)'
  <2>1. IsFiniteSet(old) /\ IsFiniteSet(now)
    BY ConnsAssumption, FS_Subset DEF Holders
  <2>2. Cardinality(old) \in Nat /\ Cardinality(now) \in Nat
    BY <2>1, FS_CardinalityType
  <2>3. new = ip => now = old \cup {c} /\ c \notin old
    BY DEF Holders, TypeOK
  <2>4. peerIp[c] = ip => now = old \ {c} /\ c \in old
    BY DEF Holders, TypeOK
  <2>5. new # ip /\ peerIp[c] # ip => now = old
    BY DEF Holders, TypeOK
  <2>6. ipCounts[ip] = Cardinality(old)
    BY DEF SlotsExact
  <2> HIDE DEF old, now
  <2>7. ipCounts'[ip] = Cardinality(now)
    BY <2>1, <2>2, <2>3, <2>4, <2>5, <2>6, FS_AddElement, FS_RemoveElement
  <2>8. QED
    BY <2>2, <2>7 DEF now
<1>2. ipCounts' \in [IPs -> Nat]
  BY <1>1
<1>3. SlotsCapped'
  BY CapAssumption DEF SlotsCapped, TypeOK
<1>4. QED
  BY <1>1, <1>2, <1>3

\* The per-address slot is taken below the cap, or the connection is refused.
LEMMA TakeSlotStep ==
    ASSUME IInv, NEW l \in Loops, TakeSlot(l)
    PROVE  IInv'
<1> USE DEF IInv
<1> DEFINE c == serving[l]
           ip == clientIp[c]
<1>1. c \in Conns /\ conn[c] = "accepting" /\ owner[c] = l /\ peerIp[c] = NoIp
  BY DEF PointsConsistent, SlotOwners, TakeSlot
<1>2. /\ ip \in IPs \cup {NoIp}
      /\ point[l] = "takeSlot"
      /\ UNCHANGED <<owner, clientIp, counted, proxyDone, liveConns, draining>>
  BY <1>1 DEF TypeOK, TakeSlot
<1>3. PICK p \in Points :
         point' = [point EXCEPT ![l] = p] /\ p \in {"count", "idle"}
  BY DEF TakeSlot, Refuse, GoTo, Points
<1>4. AdmittingBound'
  <2>1. /\ Cardinality(Admitting') <= Cardinality(Admitting)
        /\ Cardinality(Admitting') \in Nat
        /\ Cardinality(Admitting) \in Nat
        /\ Cardinality(Loops) \in Nat
    <3>1. /\ Cardinality(Admitting') \in Nat
          /\ Cardinality(Admitting) \in Nat
          /\ Cardinality(Loops) \in Nat
      BY <1>3, AdmittingStep, Zenon
    <3>2. CASE p = "count"
      <4>1. Cardinality(Admitting') = Cardinality(Admitting)
        BY <1>2, <1>3, <3>2, AdmittingStep, Zenon
      <4>2. QED
        BY <3>1, <4>1
    <3>3. CASE p = "idle"
      <4>1. Cardinality(Admitting') = Cardinality(Admitting) - 1
        BY <1>2, <1>3, <3>3, AdmittingStep, ZenonT(30)
      <4>2. QED
        BY <3>1, <4>1
    <3>4. QED
      BY <1>3, <3>2, <3>3
  <2>2. QED
    BY <1>2, <2>1, CapAssumption DEF AdmittingBound, TypeOK
<1>5. CASE peerIp' = peerIp /\ ipCounts' = ipCounts
  <2>1. TypeOK'
    BY SMTT(30), <1>1, <1>2, <1>5 DEF TypeOK, TakeSlot, Refuse, GoTo, ConnStates, Points
  <2>2. PointsConsistent'
    BY SMTT(30), <1>1, <1>2, <1>5 DEF TypeOK, PointsConsistent, TakeSlot, Refuse, GoTo
  <2>3. SlotOwners'
    BY <1>1, <1>2, <1>5, CapAssumption
       DEF TypeOK, PointsConsistent, SlotOwners, TakeSlot, Refuse, GoTo
  <2>4. LiveCountExact' /\ SlotsExact' /\ SlotsCapped'
    BY <1>1, <1>2, <1>5, QuietStep DEF TypeOK, TakeSlot, Refuse, GoTo
  <2>5. QED
    BY <1>4, <2>1, <2>2, <2>3, <2>4
<1>6. CASE /\ MaxPerIp > 0 /\ ip # NoIp /\ ipCounts[ip] < MaxPerIp
           /\ ipCounts' = [ipCounts EXCEPT ![ip] = @ + 1]
           /\ peerIp' = [peerIp EXCEPT ![c] = ip]
           /\ GoTo(l, "count", c) /\ conn' = conn
  <2>1. /\ \A a \in IPs : ipCounts'[a] = Cardinality(Holders(a)')
        /\ ipCounts' \in [IPs -> Nat]
        /\ SlotsCapped'
    <3>1. ipCounts' \in [IPs -> Int]
      BY <1>2, <1>6 DEF TypeOK
    <3>2. \A a \in IPs : ipCounts'[a] = IF a = ip THEN ipCounts[a] + 1
                                        ELSE IF a = peerIp[c] THEN ipCounts[a] - 1
                                        ELSE ipCounts[a]
      BY <1>1, <1>2, <1>6, AddressAssumption DEF TypeOK
    <3>3. QED
      BY <1>1, <1>2, <1>6, <3>1, <3>2, SlotStep, ZenonT(30)
  <2>2. TypeOK'
    BY <1>1, <1>2, <1>6, <2>1 DEF TypeOK, GoTo, Points
  <2>3. PointsConsistent'
    BY <1>1, <1>2, <1>6 DEF TypeOK, PointsConsistent, GoTo
  <2>4. SlotOwners'
    BY SMTT(30), <1>1, <1>2, <1>6 DEF TypeOK, PointsConsistent, SlotOwners, GoTo
  <2>5. LiveCountExact'
    BY <1>1, <1>2, <1>6 DEF LiveCountExact
  <2>6. SlotsExact'
    BY <1>1, <1>2, <1>6, <2>1 DEF SlotsExact, TypeOK
  <2>7. QED
    BY <1>4, <2>1, <2>2, <2>3, <2>4, <2>5, <2>6, SMTT(30)
<1>7. QED
  BY <1>5, <1>6 DEF TakeSlot

\* Counting a connection uses up the headroom of its loop.
LEMMA CountStep ==
    ASSUME IInv, NEW l \in Loops, Count(l)
    PROVE  IInv'
<1> USE DEF IInv
<1> DEFINE c == serving[l]
<1>1. /\ c \in Conns /\ conn[c] = "accepting" /\ owner[c] = l
      /\ c \notin counted
      /\ MaxPerIp > 0 => peerIp[c] = clientIp[c]
  BY DEF PointsConsistent, SlotOwners, LiveCountExact, Count
<1>2. PICK next \in {"open", "doomed"} : conn' = [conn EXCEPT ![c] = next]
  BY Zenon DEF Count
<1>3. TypeOK'
  BY <1>1, <1>2 DEF TypeOK, Count, GoTo, ConnStates, Points
<1>4. PointsConsistent'
  BY <1>1, <1>2 DEF TypeOK, PointsConsistent, Count, GoTo
<1>5. SlotOwners'
  BY <1>1, <1>2 DEF TypeOK, PointsConsistent, SlotOwners, Count, GoTo
<1>6. LiveCountExact'
  <2>1. IsFiniteSet(counted)
    BY ConnsAssumption, FS_Subset DEF TypeOK
  <2>2. Cardinality(counted \cup {c}) = Cardinality(counted) + 1
    BY <1>1, <2>1, FS_AddElement, Zenon
  <2>3. liveConns' = Cardinality(counted')
    BY <2>2 DEF Count, LiveCountExact
  <2>4. QED
    BY <1>1, <1>2, <2>3 DEF TypeOK, LiveCountExact, Count
<1>7. SlotsExact' /\ SlotsCapped'
  BY <1>1, <1>2 DEF TypeOK, SlotsExact, SlotsCapped, Holders, Count
<1>8. AdmittingBound'
  <2>1. "idle" \in Points /\ point' = [point EXCEPT ![l] = "idle"] /\ point[l] = "count"
    BY DEF Count, GoTo, Points
  <2>2. Cardinality(Admitting) \in Nat /\ Cardinality(Loops) \in Nat
    BY <2>1, AdmittingStep, Zenon
  <2>3. Cardinality(Admitting') = Cardinality(Admitting) - 1
    BY <2>1, AdmittingStep, Zenon
  <2>4. liveConns' = liveConns + 1 /\ liveConns \in Nat
    BY DEF Count, TypeOK
  <2>5. QED
    BY <2>2, <2>3, <2>4, CapAssumption DEF AdmittingBound
<1>9. QED
  BY <1>3, <1>4, <1>5, <1>6, <1>7, <1>8

\* Giving a slot back, if there is one, keeps the counts exact and capped.
LEMMA ReleaseStep ==
    ASSUME TypeOK, SlotsExact, SlotsCapped, NEW c \in Conns,
           peerIp' = [peerIp EXCEPT ![c] = NoIp], ipCounts' = ReleasedCounts(c)
    PROVE  /\ \A ip \in IPs : ipCounts'[ip] = Cardinality(Holders(ip)')
           /\ ipCounts' \in [IPs -> Nat]
           /\ SlotsCapped'
<1>1. CASE peerIp[c] = NoIp
  <2>1. peerIp' = peerIp /\ ipCounts' = ipCounts
    BY <1>1 DEF ReleasedCounts, TypeOK
  <2>2. QED
    BY <2>1 DEF SlotsExact, SlotsCapped, Holders, TypeOK
<1>2. CASE peerIp[c] # NoIp
  <2>1. peerIp[c] \in IPs /\ ipCounts' = [ipCounts EXCEPT ![peerIp[c]] = @ - 1]
    BY <1>2 DEF ReleasedCounts, TypeOK
  <2>2. ipCounts' \in [IPs -> Int]
    BY <2>1 DEF TypeOK
  <2>3. \A a \in IPs : ipCounts'[a] = IF a = NoIp THEN ipCounts[a] + 1
                                      ELSE IF a = peerIp[c] THEN ipCounts[a] - 1
                                      ELSE ipCounts[a]
    BY SMTT(30), <2>1, AddressAssumption DEF TypeOK
  <2> DEFINE new == NoIp
  <2>4. /\ new \in IPs \cup {NoIp} /\ new # peerIp[c]
        /\ peerIp' = [peerIp EXCEPT ![c] = new]
        /\ MaxPerIp > 0 /\ new \in IPs => ipCounts[new] < MaxPerIp
        /\ \A a \in IPs : ipCounts'[a] = IF a = new THEN ipCounts[a] + 1
                                         ELSE IF a = peerIp[c] THEN ipCounts[a] - 1
                                         ELSE ipCounts[a]
    BY <1>2, <2>3, AddressAssumption
  <2> HIDE DEF new
  <2>5. QED
    BY <2>2, <2>4, SlotStep, ZenonT(30)
<1>3. QED
  BY <1>1, <1>2

\* The PROXY header moves a slot, or closes the connection that finds none.
LEMMA ProxyHeaderStep ==
    ASSUME IInv, NEW l \in Loops, NEW c \in Conns, NEW ip \in IPs \cup {NoIp},
           ProxyHeader(l, c, ip)
    PROVE  IInv'
<1> USE DEF IInv
<1>1. /\ point[l] = "idle" /\ conn[c] = "open" /\ owner[c] = l
      /\ UNCHANGED <<owner, counted, liveConns, draining, point, serving>>
      /\ MaxPerIp > 0 => peerIp[c] = clientIp[c]
  BY DEF ProxyHeader, SlotOwners
<1>2. AdmittingBound'
  BY <1>1 DEF AdmittingBound, Admitting
<1>3. conn' = conn \/ conn' = [conn EXCEPT ![c] = "doomed"]
  BY DEF ProxyHeader
<1>4. LiveCountExact'
  BY <1>1, <1>3 DEF LiveCountExact, TypeOK
<1>5. PointsConsistent'
  BY <1>1, <1>3, SMTT(30) DEF PointsConsistent, TypeOK
<1>6. /\ \A a \in IPs : ipCounts'[a] = Cardinality(Holders(a)')
      /\ ipCounts' \in [IPs -> Nat]
      /\ SlotsCapped'
  <2>1. CASE ~Moves(c, ip)
    <3>1. peerIp' = peerIp /\ ipCounts' = ipCounts
      BY <2>1 DEF ProxyHeader
    <3>2. QED
      BY <3>1 DEF SlotsExact, SlotsCapped, Holders, TypeOK
  <2>2. CASE /\ Moves(c, ip)
             /\ ipCounts' = ReleasedCounts(c)
             /\ peerIp' = [peerIp EXCEPT ![c] = NoIp]
    BY <2>2, ReleaseStep, Zenon
  <2>3. CASE /\ Moves(c, ip)
             /\ ReleasedCounts(c)[ip] < MaxPerIp
             /\ ipCounts' = [ReleasedCounts(c) EXCEPT ![ip] = @ + 1]
             /\ peerIp' = [peerIp EXCEPT ![c] = ip]
    <3>1. ip \in IPs /\ ip # peerIp[c] /\ MaxPerIp > 0
      BY <2>3 DEF Moves
    <3>2. /\ ReleasedCounts(c) \in [IPs -> Int]
          /\ \A a \in IPs : ReleasedCounts(c)[a] = IF a = peerIp[c] THEN ipCounts[a] - 1
                                                   ELSE ipCounts[a]
      BY AddressAssumption DEF ReleasedCounts, TypeOK
    <3>3. ipCounts' \in [IPs -> Int]
      BY <2>3, <3>1, <3>2
    <3>4. \A a \in IPs : ipCounts'[a] = IF a = ip THEN ipCounts[a] + 1
                                        ELSE IF a = peerIp[c] THEN ipCounts[a] - 1
                                        ELSE ipCounts[a]
      BY <2>3, <3>1, <3>2
    <3>5. ipCounts[ip] < MaxPerIp
      BY <2>3, <3>1, <3>2
    <3>6. QED
      BY <2>3, <3>1, <3>3, <3>4, <3>5, SlotStep, ZenonT(30)
  <2>4. QED
    BY <2>1, <2>2, <2>3 DEF ProxyHeader
<1>7. peerIp' \in [Conns -> IPs \cup {NoIp}]
  BY DEF ProxyHeader, TypeOK
<1>8. TypeOK'
  BY <1>1, <1>3, <1>6, <1>7 DEF ProxyHeader, TypeOK, ConnStates
<1>9. SlotsExact'
  <2>1. \A x \in Conns : conn'[x] \in {"new", "closed"} => x # c /\ conn[x] = conn'[x]
    BY <1>1, <1>3 DEF TypeOK
  <2>2. \A x \in Conns : x # c => peerIp'[x] = peerIp[x]
    BY DEF ProxyHeader, TypeOK
  <2>3. QED
    BY <1>6, <2>1, <2>2 DEF SlotsExact
<1>10. SlotOwners'
  <2>1. \A x \in Conns : x # c => /\ peerIp'[x] = peerIp[x]
                                  /\ clientIp'[x] = clientIp[x]
                                  /\ conn'[x] = conn[x]
    BY <1>3 DEF ProxyHeader, TypeOK
  <2>2. \A k \in Loops : point[k] # "idle" => serving[k] \in Conns /\ serving[k] # c
    BY <1>1 DEF PointsConsistent
  <2>3. MaxPerIp > 0 /\ conn'[c] = "open" => peerIp'[c] = clientIp'[c]
    <3>1. CASE ~Moves(c, ip)
      BY <1>1, <3>1 DEF ProxyHeader, Moves, TypeOK
    <3>2. CASE Moves(c, ip)
      BY <1>1, <3>2 DEF ProxyHeader, Moves, TypeOK
    <3>3. QED
      BY <3>1, <3>2
  <2>4. QED
    BY <1>1, <2>1, <2>2, <2>3 DEF SlotOwners
<1>11. QED
  BY SMTT(30), <1>2, <1>4, <1>5, <1>6, <1>8, <1>9, <1>10

\* A close that starts changes no count.
LEMMA CloseStep ==
    ASSUME IInv, NEW l \in Loops, NEW c \in Conns, Close(l, c)
    PROVE  IInv'
<1> USE DEF IInv
<1>1. TypeOK'
  BY DEF TypeOK, Close, ConnStates
<1>2. PointsConsistent'
  BY DEF TypeOK, PointsConsistent, Close
<1>3. SlotOwners'
  BY DEF TypeOK, PointsConsistent, SlotOwners, Close
<1>4. LiveCountExact' /\ SlotsExact' /\ SlotsCapped'
  BY QuietStep DEF TypeOK, Close
<1>5. AdmittingBound'
  BY DEF AdmittingBound, Admitting, Close
<1>6. QED
  BY <1>1, <1>2, <1>3, <1>4, <1>5

\* The close callback takes back the count, if there was one.
LEMMA OnCloseConnStep ==
    ASSUME IInv, NEW l \in Loops, NEW c \in Conns, OnCloseConn(l, c)
    PROVE  IInv'
<1> USE DEF IInv
<1>1. liveConns' \in Nat /\ liveConns' <= liveConns /\ liveConns' = Cardinality(counted')
  <2>1. IsFiniteSet(counted) /\ liveConns = Cardinality(counted) /\ liveConns \in Nat
    BY ConnsAssumption, FS_Subset DEF TypeOK, LiveCountExact
  <2>2. liveConns' = Cardinality(counted')
    BY <2>1, FS_RemoveElement, Zenon DEF OnCloseConn
  <2>3. Cardinality(counted') \in Nat
    BY <2>1, FS_RemoveElement, FS_CardinalityType DEF OnCloseConn
  <2>4. QED
    BY <2>1, <2>2, <2>3 DEF OnCloseConn
<1>2. TypeOK'
  BY <1>1 DEF TypeOK, OnCloseConn, GoTo, ConnStates, Points
<1>3. PointsConsistent'
  BY DEF TypeOK, PointsConsistent, OnCloseConn, GoTo
<1>4. SlotOwners'
  BY DEF TypeOK, PointsConsistent, SlotOwners, OnCloseConn, GoTo
<1>5. LiveCountExact'
  BY <1>1 DEF TypeOK, LiveCountExact, OnCloseConn
<1>6. SlotsExact' /\ SlotsCapped'
  BY DEF TypeOK, SlotsExact, SlotsCapped, Holders, OnCloseConn
<1>7. AdmittingBound'
  <2>1. "giveSlot" \in Points /\ point' = [point EXCEPT ![l] = "giveSlot"] /\ point[l] = "idle"
    BY DEF OnCloseConn, GoTo, Points
  <2>2. Cardinality(Admitting) \in Nat /\ Cardinality(Loops) \in Nat
    BY <2>1, AdmittingStep, Zenon
  <2>3. Cardinality(Admitting') = Cardinality(Admitting)
    BY <2>1, AdmittingStep, ZenonT(30)
  <2>4. QED
    BY <1>1, <2>2, <2>3, CapAssumption DEF AdmittingBound, TypeOK
<1>8. QED
  BY <1>2, <1>3, <1>4, <1>5, <1>6, <1>7

\* releaseAdmission then gives the slot back, if there was one.
LEMMA GiveSlotStep ==
    ASSUME IInv, NEW l \in Loops, GiveSlot(l)
    PROVE  IInv'
<1> USE DEF IInv
<1> DEFINE c == serving[l]
<1>1. c \in Conns /\ conn[c] = "closing" /\ owner[c] = l
  BY DEF PointsConsistent, GiveSlot
<1>2. /\ \A ip \in IPs : ipCounts'[ip] = Cardinality(Holders(ip)')
      /\ ipCounts' \in [IPs -> Nat]
      /\ SlotsCapped'
  BY <1>1, ReleaseStep, Zenon DEF GiveSlot
<1>3. TypeOK'
  BY <1>1, <1>2 DEF TypeOK, GiveSlot, GoTo, ConnStates, Points
<1>4. PointsConsistent'
  BY <1>1 DEF TypeOK, PointsConsistent, GiveSlot, GoTo
<1>5. SlotOwners'
  BY <1>1 DEF TypeOK, PointsConsistent, SlotOwners, GiveSlot, GoTo
<1>6. LiveCountExact'
  BY <1>1 DEF TypeOK, LiveCountExact, GiveSlot
<1>7. SlotsExact'
  BY SMTT(30), <1>1, <1>2 DEF TypeOK, SlotsExact, GiveSlot
<1>8. AdmittingBound'
  <2>1. "idle" \in Points /\ point' = [point EXCEPT ![l] = "idle"] /\ point[l] = "giveSlot"
    BY DEF GiveSlot, GoTo, Points
  <2>2. Cardinality(Admitting') = Cardinality(Admitting)
    BY <2>1, AdmittingStep, ZenonT(30)
  <2>3. QED
    BY <2>2 DEF AdmittingBound, GiveSlot
<1>9. QED
  BY SMTT(30), <1>2, <1>3, <1>4, <1>5, <1>6, <1>7, <1>8

\* Every step preserves the invariant.
LEMMA NextIInv == IInv /\ [Next]_vars => IInv'
<1> SUFFICES ASSUME IInv, [Next]_vars PROVE IInv'
  OBVIOUS
<1>1. ASSUME NEW l \in Loops, Finish(l) PROVE IInv'
  BY <1>1, ReadLiveStep, TakeSlotStep, CountStep, GiveSlotStep, OnCloseConnStep DEF Finish
<1>2. ASSUME NEW l \in Loops, NEW c \in Conns, NEW ip \in IPs \cup {NoIp},
             OnConnection(l, c, ip) \/ ProxyHeader(l, c, ip)
      PROVE  IInv'
  BY <1>2, OnConnectionStep, ProxyHeaderStep
<1>3. ASSUME NEW l \in Loops, NEW c \in Conns, Close(l, c) PROVE IInv'
  BY SMTT(30), <1>3, CloseStep
<1>4. CASE BeginDrain
  BY SMTT(30), <1>4 DEF BeginDrain, IInv, TypeOK, PointsConsistent, SlotOwners, LiveCountExact,
     SlotsExact, SlotsCapped, AdmittingBound, Admitting, Holders
<1>5. CASE UNCHANGED vars
  BY <1>5 DEF vars, IInv, TypeOK, PointsConsistent, SlotOwners, LiveCountExact,
     SlotsExact, SlotsCapped, AdmittingBound, Admitting, Holders
<1>6. QED
  BY <1>1, <1>2, <1>3, <1>4, <1>5 DEF Next

\* The inductive invariant holds in every reachable state.
THEOREM Invariance == Spec => []IInv
  BY InitIInv, NextIInv, PTL DEF Spec

-----------------------------------------------------------------------------
(* The theorems.                                                            *)

\* Both counts of onConnection and releaseAdmission are exact and typed,
\* whatever the loops interleave.
THEOREM CountsExact == Spec => []CountsMatch
<1>1. IInv => CountsMatch
  BY DEF IInv, CountsMatch
<1>2. QED
  BY <1>1, Invariance, PTL

\* maxConnectionsPerIp bounds the open connections of every client, with and
\* without the PROXY protocol.
THEOREM PerClientCapHolds == Spec => []PerClientCap
<1>1. IInv => PerClientCap
  <2> SUFFICES ASSUME IInv, MaxPerIp > 0, NEW ip \in IPs
               PROVE  Cardinality({c \in Conns : conn[c] = "open" /\ clientIp[c] = ip}) <= MaxPerIp
    BY SMTT(30) DEF PerClientCap
  <2> DEFINE open == {c \in Conns : conn[c] = "open" /\ clientIp[c] = ip}
  <2>1. open \in SUBSET Holders(ip)
    BY DEF IInv, SlotOwners, Holders
  <2>2. IsFiniteSet(Holders(ip))
    BY ConnsAssumption, FS_Subset DEF Holders
  <2>3. Cardinality(open) <= Cardinality(Holders(ip))
    BY <2>1, <2>2, FS_Subset
  <2>4. Cardinality(open) \in Nat /\ Cardinality(Holders(ip)) \in Nat
    BY <2>1, <2>2, FS_Subset, FS_CardinalityType
  <2>5. Cardinality(Holders(ip)) <= MaxPerIp
    BY DEF IInv, SlotsExact, SlotsCapped
  <2> HIDE DEF open
  <2>6. Cardinality(open) <= MaxPerIp
    BY <2>3, <2>4, <2>5, CapAssumption
  <2>7. QED
    BY <2>6 DEF open
<1>2. QED
  BY <1>1, Invariance, PTL

\* maxConnections is exceeded by at most one connection per other loop.
THEOREM LiveBoundHolds == Spec => []LiveBound
<1>1. IInv => LiveBound
  <2>1. IsFiniteSet(Admitting)
    BY LoopsAssumption, FS_Subset DEF Admitting
  <2>2. Cardinality(Admitting) \in Nat /\ Cardinality(Loops) \in Nat
    BY <2>1, LoopsAssumption, FS_CardinalityType
  <2>3. QED
    BY <2>2, CapAssumption DEF IInv, AdmittingBound, LiveBound, TypeOK
<1>2. QED
  BY <1>1, Invariance, PTL

\* Both caps hold in every reachable state, for any number of loops: the one per
\* client strictly, the global one up to what other loops have past its check.
THEOREM CapsHoldAlways == Spec => []CapsHold
<1>1. PerClientCap /\ LiveBound => CapsHold
  BY DEF CapsHold
<1>2. QED
  BY <1>1, PerClientCapHolds, LiveBoundHolds, PTL

\* beginDrain closes the door: the action property, from the guards alone.
THEOREM DrainHolds == Spec => DrainAdmitsNobody
<1>1. ASSUME IInv, [Next]_vars
      PROVE  [draining => \A c \in Conns :
                 conn'[c] \in {"accepting", "open"} => conn[c] \in {"accepting", "open"}]_vars
  <2>1. SUFFICES ASSUME draining, Next, NEW c \in Conns, conn'[c] \in {"accepting", "open"}
                 PROVE  conn[c] \in {"accepting", "open"}
    BY <1>1
  <2>2. ASSUME NEW l \in Loops, Finish(l) PROVE conn[c] \in {"accepting", "open"}
    <3>1. CASE ReadLive(l) \/ TakeSlot(l)
      BY <1>1, <2>1, <3>1, Zenon DEF ReadLive, TakeSlot, Refuse, IInv, TypeOK
    <3>2. CASE Count(l)
      BY <1>1, <2>1, <3>2 DEF Count, IInv, TypeOK, PointsConsistent
    <3>3. CASE GiveSlot(l) \/ \E x \in Conns : OnCloseConn(l, x)
      BY <1>1, <2>1, <3>3, Zenon DEF GiveSlot, OnCloseConn, IInv, TypeOK
    <3>4. QED
      BY <2>2, <3>1, <3>2, <3>3, SMTT(30) DEF Finish
  <2>3. ASSUME NEW l \in Loops, NEW x \in Conns, NEW ip \in IPs \cup {NoIp},
               OnConnection(l, x, ip) \/ ProxyHeader(l, x, ip)
        PROVE  conn[c] \in {"accepting", "open"}
    BY <1>1, <2>1, <2>3, Zenon DEF OnConnection, ProxyHeader, Refuse, IInv, TypeOK
  <2>4. ASSUME NEW l \in Loops, NEW x \in Conns, Close(l, x)
        PROVE  conn[c] \in {"accepting", "open"}
    BY <1>1, <2>1, <2>4 DEF Close, IInv, TypeOK
  <2>5. CASE BeginDrain
    BY <2>1, <2>5 DEF BeginDrain
  <2>6. QED
    BY <2>1, <2>2, <2>3, <2>4, <2>5 DEF Next
<1>2. QED
  BY <1>1, Invariance, PTL DEF Spec, DrainAdmitsNobody
=============================================================================
