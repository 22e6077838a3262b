------------------------ MODULE RpmsgEndpointProofs ------------------------
(***************************************************************************)
(* For any number of endpoints, names and addresses: the address bitmap of *)
(* an rpmsg device is exact, its list of endpoints is exact, and the       *)
(* channels of the remote follow the endpoints.                            *)
(***************************************************************************)
EXTENDS RpmsgEndpoint, FiniteSetTheorems, FunctionTheorems, SequenceTheorems, TLAPS

OpStates == {"closed", "announce", "open", "announced", "unregister"}

\* An endpoint is registered exactly while some call of the API holds it; the
\* bitmap is only exact because no thread closes an endpoint twice.
EptInv ==
  /\ rdev \in [Epts -> BOOLEAN]
  /\ addr \in [Epts -> Addrs]
  /\ op \in [Epts -> OpStates]
  /\ bitmap \subseteq Bits
  /\ \A e \in Epts : rdev[e] <=> op[e] # "closed"
  /\ \A e \in Epts :
       rdev[e] => addr[e] < RPMSG_RESERVED_ADDRESSES + RPMSG_ADDR_BMP_SIZE
  /\ AddressesExact

\* What rpmsg_create_ept may claim: a predefined address, or one whose bit is
\* clear.
LEMMA ClaimFree ==
  ASSUME bitmap \subseteq Bits, NEW src \in Addrs \cup {ANY},
         NEW a \in ClaimAddress(src)
  PROVE  /\ a \in Addrs
         /\ a < RPMSG_RESERVED_ADDRESSES + RPMSG_ADDR_BMP_SIZE
         /\ a >= RPMSG_RESERVED_ADDRESSES =>
              a - RPMSG_RESERVED_ADDRESSES \in Bits \ bitmap
<1>1. CASE src = ANY
  <2>1. PICK b \in Bits \ bitmap : a = RPMSG_RESERVED_ADDRESSES + b
    BY <1>1 DEF ClaimAddress, GetAddress
  <2> QED
    BY <2>1, EptAssumption DEF Bits, Addrs
<1>2. CASE src # ANY
  <2>1. src \in Addrs /\ a = src
    BY <1>2 DEF ClaimAddress
  <2>2. a >= RPMSG_RESERVED_ADDRESSES =>
          a - RPMSG_RESERVED_ADDRESSES \in Bits \ bitmap
    BY <1>2 DEF ClaimAddress
  <2> QED
    BY <2>1, <2>2, EptAssumption DEF Bits, Addrs
<1> QED
  BY <1>1, <1>2

\* Creating an endpoint claims the bit of its address, and no other endpoint
\* has it.
LEMMA CreateInv ==
  ASSUME EptInv, NEW e \in Epts, NEW n, NEW src \in Addrs \cup {ANY}, NEW d,
         CreateEpt(e, n, src, d)
  PROVE  EptInv'
<1>1. PICK a \in ClaimAddress(src) :
        /\ op[e] = "closed"
        /\ bitmap' = bitmap \cup BitOf(a)
        /\ rdev' = [rdev EXCEPT ![e] = TRUE]
        /\ addr' = [addr EXCEPT ![e] = a]
        /\ op' = [op EXCEPT ![e] = "announce"]
  BY DEF CreateEpt
<1>2. /\ a \in Addrs
      /\ a < RPMSG_RESERVED_ADDRESSES + RPMSG_ADDR_BMP_SIZE
      /\ a >= RPMSG_RESERVED_ADDRESSES =>
           a - RPMSG_RESERVED_ADDRESSES \in Bits \ bitmap
  BY ClaimFree DEF EptInv
<1>3. /\ rdev' \in [Epts -> BOOLEAN]
      /\ addr' \in [Epts -> Addrs]
      /\ op' \in [Epts -> OpStates]
      /\ bitmap' \subseteq Bits
      /\ \A f \in Epts : rdev'[f] <=> op'[f] # "closed"
      /\ \A f \in Epts :
           rdev'[f] => addr'[f] < RPMSG_RESERVED_ADDRESSES + RPMSG_ADDR_BMP_SIZE
  BY <1>1, <1>2 DEF EptInv, OpStates, BitOf
<1>4. rdev[e] = FALSE
  BY <1>1 DEF EptInv
<1>5. Registered' = Registered \cup {e}
  BY <1>1, <1>3 DEF Registered, EptInv
<1>6. \A f \in Registered : f # e /\ addr'[f] = addr[f]
  BY <1>1, <1>4 DEF Registered, EptInv
<1>7. addr'[e] = a
  BY <1>1 DEF EptInv
<1>8. \A b \in Bits : b \in bitmap' <=> \/ b \in bitmap
                                       \/ a = RPMSG_RESERVED_ADDRESSES + b
  BY <1>1, <1>2, EptAssumption DEF BitOf, Bits, Addrs
<1>9. bitmap' = {b \in Bits : \E f \in Registered' :
                   addr'[f] = RPMSG_RESERVED_ADDRESSES + b}
  BY <1>3, <1>5, <1>6, <1>7, <1>8 DEF EptInv, AddressesExact
<1>10. ASSUME NEW f \in Registered, addr[f] = a, a >= RPMSG_RESERVED_ADDRESSES
       PROVE  FALSE
  <2>1. a = RPMSG_RESERVED_ADDRESSES + (a - RPMSG_RESERVED_ADDRESSES)
    BY <1>2, EptAssumption DEF Addrs
  <2>2. a - RPMSG_RESERVED_ADDRESSES \in bitmap
    BY <1>2, <1>10, <2>1 DEF EptInv, AddressesExact
  <2> QED
    BY <1>2, <1>10, <2>2
<1>11. \A f, g \in Registered' :
         addr'[f] = addr'[g] /\ addr'[f] >= RPMSG_RESERVED_ADDRESSES => f = g
  BY <1>5, <1>6, <1>7, <1>10 DEF EptInv, AddressesExact
<1> QED
  BY <1>3, <1>9, <1>11 DEF EptInv, AddressesExact, Registered

\* Unregistering an endpoint clears its bit, which is no other's.
LEMMA UnregisterInv ==
  ASSUME EptInv, NEW e \in Epts, Unregister(e)
  PROVE  EptInv'
<1>1. /\ op[e] = "unregister"
      /\ bitmap' = bitmap \ BitOf(addr[e])
      /\ rdev' = [rdev EXCEPT ![e] = FALSE]
      /\ op' = [op EXCEPT ![e] = "closed"]
      /\ addr' = addr
  BY DEF Unregister
<1>2. /\ rdev' \in [Epts -> BOOLEAN]
      /\ addr' \in [Epts -> Addrs]
      /\ op' \in [Epts -> OpStates]
      /\ bitmap' \subseteq Bits
      /\ \A f \in Epts : rdev'[f] <=> op'[f] # "closed"
      /\ \A f \in Epts :
           rdev'[f] => addr'[f] < RPMSG_RESERVED_ADDRESSES + RPMSG_ADDR_BMP_SIZE
  BY <1>1 DEF EptInv, OpStates
<1>3. Registered' = Registered \ {e} /\ e \in Registered
  BY <1>1, <1>2 DEF Registered, EptInv
<1>4. \A b \in Bits : b \in BitOf(addr[e]) <=>
                        addr[e] = RPMSG_RESERVED_ADDRESSES + b
  BY EptAssumption DEF EptInv, BitOf, Bits, Addrs
<1>5. \A b \in Bits, f \in Registered \ {e} :
        addr[f] = RPMSG_RESERVED_ADDRESSES + b =>
          addr[e] # RPMSG_RESERVED_ADDRESSES + b
  BY <1>3, EptAssumption DEF EptInv, AddressesExact, Bits
<1>6. bitmap' = {b \in Bits : \E f \in Registered' :
                   addr'[f] = RPMSG_RESERVED_ADDRESSES + b}
  BY <1>1, <1>2, <1>3, <1>4, <1>5 DEF EptInv, AddressesExact
<1>7. \A f, g \in Registered' :
        addr'[f] = addr'[g] /\ addr'[f] >= RPMSG_RESERVED_ADDRESSES => f = g
  BY <1>1, <1>3 DEF EptInv, AddressesExact
<1> QED
  BY <1>2, <1>6, <1>7 DEF EptInv, AddressesExact, Registered

\* A step that only moves the thread of an endpoint in use keeps the invariant.
LEMMA ThreadInv ==
  ASSUME EptInv, UNCHANGED device, NEW e \in Epts, op[e] # "closed",
         NEW s \in OpStates \ {"closed"}, op' = [op EXCEPT ![e] = s]
  PROVE  EptInv'
<1>1. AddressesExact'
  BY DEF EptInv, AddressesExact, Registered, device
<1> QED
  BY <1>1 DEF EptInv, device

\* A step that leaves endpoints and threads alone keeps the invariant.
LEMMA IdleInv ==
  ASSUME EptInv, UNCHANGED <<device, op>>
  PROVE  EptInv'
BY DEF EptInv, AddressesExact, Registered, device

\* Calls of the API keep EptInv.
LEMMA EptInvariant == Spec => []EptInv
<1>1. Init => EptInv
  BY EptAssumption
  DEF Init, EptInv, AddressesExact, Registered, OpStates, Addrs, Bits
<1>2. EptInv /\ [Next]_vars => EptInv'
  <2> SUFFICES ASSUME EptInv, [Next]_vars PROVE EptInv'
    OBVIOUS
  <2>1. ASSUME NEW e \in Epts, NEW n \in Names, NEW s \in Addrs \cup {ANY},
               NEW d \in RemoteAddrs \cup {ANY}, CreateEpt(e, n, s, d)
        PROVE  EptInv'
    BY <2>1, CreateInv
  <2>2. ASSUME NEW e \in Epts, NotAnnounced(e) PROVE EptInv'
    BY <2>2, ThreadInv DEF NotAnnounced, OpStates
  <2>3. ASSUME NEW e \in Epts, Announce(e) PROVE EptInv'
    BY <2>3, ThreadInv DEF Announce, OpStates
  <2>4. ASSUME NEW e \in Epts, AnnounceFails(e) PROVE EptInv'
    BY <2>4, ThreadInv DEF AnnounceFails, OpStates
  <2>5. ASSUME NEW e \in Epts, DestroyEpt(e) PROVE EptInv'
    BY <2>5, ThreadInv DEF DestroyEpt, OpStates
  <2>6. ASSUME NEW e \in Epts, Unregister(e) PROVE EptInv'
    BY <2>6, UnregisterInv
  <2>7. ASSUME NEW r \in RemoteAddrs, NEW a \in Addrs, RxLookup(r, a)
        PROVE  EptInv'
    BY <2>7, IdleInv DEF RxLookup
  <2>8. CASE RxDeliver
    BY <2>8, IdleInv DEF RxDeliver
  <2>9. CASE NsCallback
    BY <2>9, IdleInv DEF NsCallback
  <2>10. CASE RemoteNs
    BY <2>10, IdleInv DEF RemoteNs
  <2>11. ASSUME NEW r \in RemoteAddrs, NEW n \in Names \ {NONAME},
                RemoteCreate(r, n)
         PROVE  EptInv'
    BY <2>11, IdleInv DEF RemoteCreate
  <2>12. ASSUME NEW r \in RemoteAddrs, RemoteDestroy(r) PROVE EptInv'
    BY <2>12, IdleInv DEF RemoteDestroy
  <2>13. CASE UNCHANGED vars
    BY <2>13, IdleInv DEF vars
  <2> QED
    BY <2>1, <2>2, <2>3, <2>4, <2>5, <2>6, <2>7, <2>8, <2>9, <2>10, <2>11,
       <2>12, <2>13 DEF Next
<1> QED
  BY <1>1, <1>2, PTL DEF Spec

\* The address bitmap is exact in every reachable state: no address leaks, in
\* particular when the announcement of a new endpoint fails, and none is given
\* to two endpoints.
THEOREM BitmapExact == Spec => []AddressesExact
<1>1. EptInv => AddressesExact
  BY DEF EptInv
<1> QED
  BY <1>1, EptInvariant, PTL

-----------------------------------------------------------------------------
(* Types.                                                                  *)

Kinds == {"CREATE", "DESTROY"}

\* The messages in flight have their types too.
TypeInv ==
  /\ TypeOK
  /\ toRemote \in Seq(Kinds \X Names \X Addrs)
  /\ fromRemote \in Seq(Kinds \X Names \X RemoteAddrs)

\* A list without one of its nodes: the rest, in order.
LEMMA UnlinkProperties ==
  ASSUME NEW S, NEW s \in Seq(S), NEW e, \E i \in DOMAIN s : s[i] = e
  PROVE  /\ Unlink(s, e) \in Seq(S)
         /\ (\A i, j \in DOMAIN s : s[i] = s[j] => i = j) =>
              /\ \A i, j \in DOMAIN Unlink(s, e) :
                   Unlink(s, e)[i] = Unlink(s, e)[j] => i = j
              /\ \A i \in DOMAIN Unlink(s, e) :
                   Unlink(s, e)[i] # e /\ \E j \in DOMAIN s : s[j] = Unlink(s, e)[i]
              /\ \A j \in DOMAIN s : s[j] # e =>
                   \E i \in DOMAIN Unlink(s, e) : s[j] = Unlink(s, e)[i]
<1> DEFINE k == CHOOSE i \in DOMAIN s : s[i] = e
           u == [i \in 1..(Len(s) - 1) |-> IF i < k THEN s[i] ELSE s[i + 1]]
<1>1. k \in 1..Len(s) /\ s[k] = e
  OBVIOUS
<1>2. Unlink(s, e) = u
  BY DEF Unlink
<1> HIDE DEF k
<1>3. Len(s) \in Nat /\ DOMAIN s = 1..Len(s) /\ \A i \in 1..Len(s) : s[i] \in S
  OBVIOUS
<1>4. DOMAIN u = 1..(Len(s) - 1)
  OBVIOUS
<1>5. \A i \in 1..(Len(s) - 1) :
        /\ i < k => u[i] = s[i] /\ i \in 1..Len(s)
        /\ ~(i < k) => u[i] = s[i + 1] /\ i + 1 \in 1..Len(s)
  BY <1>1, <1>3
<1>6. u \in [1..(Len(s) - 1) -> S]
  BY <1>3, <1>5
<1>7. Len(s) - 1 \in Nat
  BY <1>1, <1>3
<1>8. u \in Seq(S)
  BY <1>6, <1>7, SeqDef
<1> HIDE DEF u
<1>9. ASSUME \A i, j \in DOMAIN s : s[i] = s[j] => i = j
      PROVE  /\ \A i, j \in 1..(Len(s) - 1) : u[i] = u[j] => i = j
             /\ \A i \in 1..(Len(s) - 1) :
                  u[i] # e /\ \E j \in DOMAIN s : s[j] = u[i]
             /\ \A j \in DOMAIN s : s[j] # e =>
                  \E i \in 1..(Len(s) - 1) : s[j] = u[i]
  <2>1. ASSUME NEW i \in 1..(Len(s) - 1), NEW j \in 1..(Len(s) - 1), u[i] = u[j]
        PROVE  i = j
    BY <1>1, <1>3, <1>5, <1>9, <2>1
  <2>2. ASSUME NEW i \in 1..(Len(s) - 1)
        PROVE  u[i] # e /\ \E j \in DOMAIN s : s[j] = u[i]
    <3>1. PICK j \in 1..Len(s) : u[i] = s[j] /\ j # k
      <4>1. CASE i < k
        BY <1>1, <1>3, <1>5, <4>1
      <4>2. CASE ~(i < k)
        <5>1. i + 1 # k
          BY <1>1, <1>3, <4>2
        <5> QED
          BY <1>5, <4>2, <5>1
      <4> QED
        BY <4>1, <4>2
    <3> QED
      BY <1>1, <1>3, <1>9, <3>1
  <2>3. ASSUME NEW j \in DOMAIN s, s[j] # e
        PROVE  \E i \in 1..(Len(s) - 1) : s[j] = u[i]
    <3>1. j # k
      BY <1>1, <2>3
    <3>2. CASE j < k
      BY <1>1, <1>3, <1>5, <3>2
    <3>3. CASE j > k
      <4>1. j - 1 \in 1..(Len(s) - 1) /\ ~(j - 1 < k) /\ (j - 1) + 1 = j
        BY <1>1, <1>3, <3>3
      <4> QED
        BY <1>5, <4>1
    <3> QED
      BY <1>1, <1>3, <3>1, <3>2, <3>3
  <2> QED
    BY <2>1, <2>2, <2>3
<1> QED
  BY <1>2, <1>4, <1>8, <1>9


\* Every step keeps the types.  It is unregistering that needs EptInv and the
\* list to hold the endpoint.
LEMMA TypeStep ==
  ASSUME TypeInv, EptInv, [Next]_vars,
         \A e \in Registered : \E i \in DOMAIN endpoints : endpoints[i] = e
  PROVE  TypeInv'
<1> USE DEF TypeInv, TypeOK
<1>1. ASSUME NEW e \in Epts, NEW n \in Names, NEW s \in Addrs \cup {ANY},
             NEW d \in RemoteAddrs \cup {ANY}, CreateEpt(e, n, s, d)
      PROVE  TypeInv'
  <2>1. PICK a \in ClaimAddress(s) :
          /\ bitmap' = bitmap \cup BitOf(a)
          /\ endpoints' = Append(endpoints, e)
          /\ rdev' = [rdev EXCEPT ![e] = TRUE]
          /\ name' = [name EXCEPT ![e] = n]
          /\ addr' = [addr EXCEPT ![e] = a]
          /\ dest' = [dest EXCEPT ![e] = d]
          /\ op' = [op EXCEPT ![e] = "announce"]
          /\ UNCHANGED <<rx, wire>>
    BY <1>1 DEF CreateEpt
  <2>2. a \in Addrs
    BY ClaimFree
  <2>3. BitOf(a) \subseteq Bits
    BY DEF BitOf
  <2>4. endpoints' \in Seq(Epts)
    BY <2>1
  <2> QED
    BY <2>1, <2>2, <2>3, <2>4 DEF wire
<1>2. ASSUME NEW e \in Epts, NotAnnounced(e) PROVE TypeInv'
  BY <1>2 DEF NotAnnounced, device, wire
<1>3. ASSUME NEW e \in Epts, Announce(e) PROVE TypeInv'
  <2>1. <<"CREATE", name[e], addr[e]>> \in Kinds \X Names \X Addrs
    BY DEF Kinds
  <2>2. toRemote' \in Seq(Kinds \X Names \X Addrs)
    BY <1>3, <2>1 DEF Announce
  <2> QED
    BY <1>3, <2>2 DEF Announce, device
<1>4. ASSUME NEW e \in Epts, AnnounceFails(e) PROVE TypeInv'
  BY <1>4 DEF AnnounceFails, device, wire
<1>5. ASSUME NEW e \in Epts, DestroyEpt(e) PROVE TypeInv'
  <2>1. <<"DESTROY", name[e], addr[e]>> \in Kinds \X Names \X Addrs
    BY DEF Kinds
  <2>2. toRemote' \in Seq(Kinds \X Names \X Addrs)
    <3>1. \/ toRemote' = toRemote
          \/ toRemote' = Append(toRemote, <<"DESTROY", name[e], addr[e]>>)
      BY <1>5 DEF DestroyEpt, TellsRemote
    <3>2. Append(toRemote, <<"DESTROY", name[e], addr[e]>>)
            \in Seq(Kinds \X Names \X Addrs)
      BY <2>1
    <3> QED
      BY <3>1, <3>2, Zenon
  <2>3. lost' \subseteq Names \X Addrs
    BY <1>5 DEF DestroyEpt
  <2> QED
    BY <1>5, <2>2, <2>3 DEF DestroyEpt, device
<1>6. ASSUME NEW e \in Epts, Unregister(e) PROVE TypeInv'
  <2>1. rdev[e]
    BY <1>6 DEF Unregister, EptInv
  <2>2. endpoints' \in Seq(Epts)
    BY <1>6, <2>1, UnlinkProperties DEF Unregister, Registered
  <2> QED
    BY <1>6, <2>2 DEF Unregister, wire
<1>7. ASSUME NEW r \in RemoteAddrs, NEW a \in Addrs, RxLookup(r, a)
      PROVE  TypeInv'
  <2>1. PICK e \in GetEndpoint({f \in Epts : addr[f] = a}) : rx' = {<<e, r>>}
    BY <1>7 DEF RxLookup
  <2>2. e \in Epts
    BY <2>1 DEF GetEndpoint
  <2> QED
    BY <1>7, <2>1, <2>2 DEF RxLookup, device, wire
<1>8. CASE RxDeliver
  BY <1>8 DEF RxDeliver, device, wire
<1>9. CASE NsCallback
  <2>1. fromRemote # <<>>
    BY <1>9 DEF NsCallback
  <2>2. /\ Head(fromRemote) \in Kinds \X Names \X RemoteAddrs
        /\ Tail(fromRemote) \in Seq(Kinds \X Names \X RemoteAddrs)
    BY <2>1
  <2>3. Head(fromRemote)[3] \in RemoteAddrs
    BY <2>2
  <2>4. dest' \in [Epts -> RemoteAddrs \cup {ANY}]
    BY <1>9, <2>3 DEF NsCallback
  <2> QED
    BY <1>9, <2>2, <2>4 DEF NsCallback, device
<1>10. CASE RemoteNs
  <2>1. toRemote # <<>>
    BY <1>10 DEF RemoteNs
  <2>2. /\ Head(toRemote) \in Kinds \X Names \X Addrs
        /\ Tail(toRemote) \in Seq(Kinds \X Names \X Addrs)
    BY <2>1
  <2>3. channels' \subseteq Names \X Addrs
    BY <1>10, <2>2 DEF RemoteNs, Apply
  <2> QED
    BY <1>10, <2>2, <2>3 DEF RemoteNs, device
<1>11. ASSUME NEW r \in RemoteAddrs, NEW n \in Names \ {NONAME},
              RemoteCreate(r, n)
       PROVE  TypeInv'
  <2>1. <<"CREATE", n, r>> \in Kinds \X Names \X RemoteAddrs
    BY DEF Kinds
  <2>2. fromRemote' \in Seq(Kinds \X Names \X RemoteAddrs)
    BY <1>11, <2>1 DEF RemoteCreate
  <2> QED
    BY <1>11, <2>2 DEF RemoteCreate, device
<1>12. ASSUME NEW r \in RemoteAddrs, RemoteDestroy(r) PROVE TypeInv'
  <2>1. <<"DESTROY", remote[r], r>> \in Kinds \X Names \X RemoteAddrs
    BY <1>12 DEF RemoteDestroy, Kinds
  <2>2. fromRemote' \in Seq(Kinds \X Names \X RemoteAddrs)
    BY <1>12, <2>1 DEF RemoteDestroy
  <2> QED
    BY <1>12, <2>2 DEF RemoteDestroy, device
<1>13. CASE UNCHANGED vars
  BY <1>13 DEF vars, device, wire
<1> QED
  BY <1>1, <1>2, <1>3, <1>4, <1>5, <1>6, <1>7, <1>8, <1>9, <1>10, <1>11,
     <1>12, <1>13 DEF Next

-----------------------------------------------------------------------------
(* The list of endpoints.                                                  *)

\* The list holds the registered endpoints, each at one place.
Listed ==
  /\ \A i \in DOMAIN endpoints : endpoints[i] \in Registered
  /\ \A e \in Registered : \E i \in DOMAIN endpoints : endpoints[i] = e
  /\ \A i, j \in DOMAIN endpoints : endpoints[i] = endpoints[j] => i = j

\* A new endpoint is not in the list yet.
LEMMA CreateListed ==
  ASSUME TypeInv, EptInv, Listed, NEW e \in Epts, NEW n, NEW s, NEW d,
         CreateEpt(e, n, s, d)
  PROVE  Listed'
<1>1. /\ op[e] = "closed"
      /\ endpoints' = Append(endpoints, e)
      /\ rdev' = [rdev EXCEPT ![e] = TRUE]
  BY DEF CreateEpt
<1>2. endpoints \in Seq(Epts)
  BY DEF TypeInv, TypeOK
<1>3. Registered' = Registered \cup {e} /\ e \notin Registered
  BY <1>1 DEF EptInv, Registered
<1>4. /\ Len(endpoints) \in Nat
      /\ DOMAIN endpoints = 1..Len(endpoints)
      /\ DOMAIN endpoints' = 1..(Len(endpoints) + 1)
      /\ endpoints'[Len(endpoints) + 1] = e
      /\ \A i \in 1..Len(endpoints) : endpoints'[i] = endpoints[i]
  BY <1>1, <1>2
<1>5. \A i \in 1..(Len(endpoints) + 1) :
        i \in 1..Len(endpoints) \/ i = Len(endpoints) + 1
  BY <1>4
<1>6. \A i \in 1..Len(endpoints) : i \in 1..(Len(endpoints) + 1)
  BY <1>4
<1>7. Len(endpoints) + 1 \in 1..(Len(endpoints) + 1)
  BY <1>4
<1> HIDE DEF Registered
<1>8. \A i \in DOMAIN endpoints' : endpoints'[i] \in Registered'
  BY <1>3, <1>4, <1>5 DEF Listed
<1>9. \A f \in Registered' : \E i \in DOMAIN endpoints' : endpoints'[i] = f
  BY <1>3, <1>4, <1>6, <1>7 DEF Listed
<1>10. \A i, j \in DOMAIN endpoints' : endpoints'[i] = endpoints'[j] => i = j
  BY <1>3, <1>4, <1>5 DEF Listed
<1> QED
  BY <1>8, <1>9, <1>10 DEF Listed

\* An unregistered endpoint was in the list once, and no longer is.
LEMMA UnregisterListed ==
  ASSUME TypeInv, EptInv, Listed, NEW e \in Epts, Unregister(e)
  PROVE  Listed'
<1>1. /\ op[e] = "unregister"
      /\ endpoints' = Unlink(endpoints, e)
      /\ rdev' = [rdev EXCEPT ![e] = FALSE]
  BY DEF Unregister
<1>2. endpoints \in Seq(Epts)
  BY DEF TypeInv, TypeOK
<1>3. Registered' = Registered \ {e} /\ e \in Registered
  BY <1>1 DEF EptInv, Registered
<1>4. \E i \in DOMAIN endpoints : endpoints[i] = e
  BY <1>3 DEF Listed
<1>5. /\ \A i, j \in DOMAIN endpoints' : endpoints'[i] = endpoints'[j] => i = j
      /\ \A i \in DOMAIN endpoints' :
           endpoints'[i] # e /\ \E j \in DOMAIN endpoints : endpoints[j] = endpoints'[i]
      /\ \A j \in DOMAIN endpoints : endpoints[j] # e =>
           \E i \in DOMAIN endpoints' : endpoints[j] = endpoints'[i]
  BY <1>1, <1>2, <1>4, UnlinkProperties DEF Listed
<1> QED
  BY <1>3, <1>5 DEF Listed

\* The other steps touch neither the list nor what is registered.
LEMMA IdleListed ==
  ASSUME Listed, UNCHANGED device
  PROVE  Listed'
BY DEF Listed, Registered, device

ListInv == TypeInv /\ Listed

\* The list and the types, together inductive on top of EptInv.
LEMMA ListInvariant == Spec => []ListInv
<1>1. Init => ListInv
  BY EptAssumption
  DEF Init, ListInv, TypeInv, TypeOK, Listed, Registered, Addrs
<1>2. EptInv /\ ListInv /\ [Next]_vars => ListInv'
  <2> SUFFICES ASSUME EptInv, ListInv, [Next]_vars PROVE ListInv'
    OBVIOUS
  <2>1. TypeInv'
    BY TypeStep DEF ListInv, Listed
  <2>2. Listed'
    <3>1. ASSUME NEW e \in Epts, NEW n \in Names, NEW s \in Addrs \cup {ANY},
                 NEW d \in RemoteAddrs \cup {ANY}, CreateEpt(e, n, s, d)
          PROVE  Listed'
      BY <3>1, CreateListed DEF ListInv
    <3>2. ASSUME NEW e \in Epts, Unregister(e) PROVE Listed'
      BY <3>2, UnregisterListed DEF ListInv
    <3>3. CASE UNCHANGED device
      BY <3>3, IdleListed DEF ListInv
    <3> QED
      BY <3>1, <3>2, <3>3
      DEF Next, NotAnnounced, Announce, AnnounceFails, DestroyEpt, RxLookup,
          RxDeliver, NsCallback, RemoteNs, RemoteCreate, RemoteDestroy, vars
  <2> QED
    BY <2>1, <2>2 DEF ListInv
<1> QED
  BY <1>1, <1>2, EptInvariant, PTL DEF Spec

\* The list of endpoints is exact in every reachable state: a lookup of the
\* receive path finds every registered endpoint, and none that was destroyed.
THEOREM EndpointListExact == Spec => []ListExact
<1>1. ListInv => ListExact
  <2> SUFFICES ASSUME ListInv PROVE ListExact
    OBVIOUS
  <2>1. endpoints \in Seq(Epts)
    BY DEF ListInv, TypeInv, TypeOK
  <2>2. {endpoints[i] : i \in DOMAIN endpoints} = Registered
    BY DEF ListInv, Listed
  <2>3. endpoints \in [1..Len(endpoints) -> Registered]
    BY <2>1 DEF ListInv, Listed
  <2>4. endpoints \in Bijection(1..Len(endpoints), Registered)
    <3>1. DOMAIN endpoints = 1..Len(endpoints)
      BY <2>1
    <3>2. \A i, j \in 1..Len(endpoints) : endpoints[i] = endpoints[j] => i = j
      BY <3>1 DEF ListInv, Listed
    <3>3. \A e \in Registered : \E i \in 1..Len(endpoints) : endpoints[i] = e
      BY <3>1 DEF ListInv, Listed
    <3> QED
      BY <2>3, <3>2, <3>3, Zenon
      DEF Bijection, Injection, IsInjective, Surjection
  <2>5. ExistsBijection(1..Len(endpoints), Registered)
    BY <2>4 DEF ExistsBijection
  <2>6. Len(endpoints) \in Nat
    BY <2>1
  <2>7. /\ IsFiniteSet(1..Len(endpoints))
        /\ Cardinality(1..Len(endpoints)) = Len(endpoints)
    <3>1. Len(endpoints) \in Int /\ 1 \in Int
      BY <2>6
    <3>2. /\ IsFiniteSet(1..Len(endpoints))
          /\ Cardinality(1..Len(endpoints)) =
               IF 1 > Len(endpoints) THEN 0 ELSE Len(endpoints) - 1 + 1
      BY <3>1, FS_Interval, Zenon
    <3> QED
      BY <2>6, <3>2
  <2>8. Cardinality(Registered) = Len(endpoints)
    BY <2>5, <2>7, FS_Bijection
  <2> QED
    BY <2>2, <2>8 DEF ListExact, ListInv, TypeInv
<1> QED
  BY <1>1, ListInvariant, PTL

-----------------------------------------------------------------------------
(* The channels of the remote.                                             *)

Msgs == Kinds \X Names \X Addrs

Opens(c)  == <<"CREATE", c[1], c[2]>>
Closes(c) == <<"DESTROY", c[1], c[2]>>

\* The remote has channel c once it has handled q, with channels chans before.
Holds(c, chans, q) ==
  \E i \in 0..Len(q) :
    /\ IF i = 0 THEN c \in chans ELSE q[i] = Opens(c)
    /\ \A j \in (i + 1)..Len(q) : q[j] # Closes(c)

\* Announcing a channel and announcing its end are different messages.
LEMMA MessageOf ==
  ASSUME NEW c \in Names \X Addrs
  PROVE  /\ Opens(c) \in Msgs /\ Closes(c) \in Msgs
         /\ Opens(c) # Closes(c)
BY DEF Opens, Closes, Msgs, Kinds

\* Settled, the statement of ChannelsFollow, in terms of Holds.
LEMMA SettledHolds ==
  ASSUME TypeInv
  PROVE  /\ Settled \subseteq Names \X Addrs
         /\ \A c \in Names \X Addrs : c \in Settled <=> Holds(c, channels, toRemote)
<1>1. toRemote \in Seq(Msgs) /\ channels \subseteq Names \X Addrs
  BY DEF TypeInv, TypeOK, Msgs
<1>2. Len(toRemote) \in Nat /\ DOMAIN toRemote = 1..Len(toRemote)
  BY <1>1
<1>3. \A m \in InFlight : m \in Msgs
  BY <1>1, <1>2 DEF InFlight
<1>4. \A m \in InFlight : <<m[2], m[3]>> \in Names \X Addrs
  BY <1>3 DEF Msgs
<1>5. Settled \subseteq Names \X Addrs
  BY <1>1, <1>4 DEF Settled
<1>6. ASSUME NEW c \in Names \X Addrs, c \in Settled
      PROVE  Holds(c, channels, toRemote)
  BY <1>6 DEF Settled, Holds, Opens, Closes
<1>7. ASSUME NEW c \in Names \X Addrs, Holds(c, channels, toRemote)
      PROVE  c \in Settled
  <2>1. PICK i \in 0..Len(toRemote) :
          /\ IF i = 0 THEN c \in channels ELSE toRemote[i] = Opens(c)
          /\ \A j \in (i + 1)..Len(toRemote) : toRemote[j] # Closes(c)
    BY <1>7 DEF Holds
  <2>2. c \in channels \cup {<<m[2], m[3]>> : m \in InFlight}
    <3>1. CASE i = 0
      BY <2>1, <3>1
    <3>2. CASE i # 0
      <4>1. i \in DOMAIN toRemote
        BY <1>2, <3>2
      <4>2. Opens(c) \in InFlight
        BY <2>1, <3>2, <4>1 DEF InFlight
      <4>3. c = <<Opens(c)[2], Opens(c)[3]>>
        BY DEF Opens
      <4> QED
        BY <4>2, <4>3
    <3> QED
      BY <3>1, <3>2
  <2> QED
    BY <2>1, <2>2 DEF Settled, Opens, Closes
<1> QED
  BY <1>5, <1>6, <1>7

\* What one more message in flight changes: the channel it is about.
LEMMA HoldsAppend ==
  ASSUME NEW q \in Seq(Msgs), NEW m \in Msgs, NEW chans,
         NEW c \in Names \X Addrs
  PROVE  Holds(c, chans, Append(q, m)) <=>
           \/ m = Opens(c)
           \/ m # Closes(c) /\ Holds(c, chans, q)
<1> DEFINE r == Append(q, m)
<1>1. /\ Len(q) \in Nat
      /\ Len(r) = Len(q) + 1
      /\ r[Len(q) + 1] = m
      /\ \A i \in 1..Len(q) : r[i] = q[i]
  OBVIOUS
<1> HIDE DEF r
<1> DEFINE O == Opens(c)
           D == Closes(c)
           H(i, s) == /\ IF i = 0 THEN c \in chans ELSE s[i] = O
                      /\ \A j \in (i + 1)..Len(s) : s[j] # D
<1>2. /\ Holds(c, chans, q) <=> \E i \in 0..Len(q) : H(i, q)
      /\ Holds(c, chans, r) <=> \E i \in 0..Len(r) : H(i, r)
  BY DEF Holds
<1>3. O # D
  BY MessageOf
<1> HIDE DEF O, D
<1>4. H(Len(q) + 1, r) <=> m = O
  BY <1>1
<1>5. \A i \in 0..Len(q) : H(i, r) <=> H(i, q) /\ m # D
  <2> SUFFICES ASSUME NEW i \in 0..Len(q) PROVE H(i, r) <=> H(i, q) /\ m # D
    OBVIOUS
  <2>1. (\A j \in (i + 1)..Len(r) : r[j] # D) <=>
          (\A j \in (i + 1)..Len(q) : q[j] # D) /\ m # D
    BY <1>1
  <2>2. i # 0 => r[i] = q[i]
    BY <1>1
  <2> QED
    BY <2>1, <2>2
<1>6. \A i : i \in 0..Len(r) <=> i \in 0..Len(q) \/ i = Len(q) + 1
  BY <1>1
<1> HIDE DEF H
<1>7. Holds(c, chans, r) <=> m = O \/ (m # D /\ Holds(c, chans, q))
  BY <1>2, <1>4, <1>5, <1>6
<1> QED
  BY <1>7 DEF r, O, D

\* The remote handling one message changes nothing of what it will have.
LEMMA HoldsTail ==
  ASSUME NEW q \in Seq(Msgs), q # <<>>, NEW chans \in SUBSET (Names \X Addrs),
         NEW c \in Names \X Addrs
  PROVE  Holds(c, Apply(chans, Head(q)), Tail(q)) <=> Holds(c, chans, q)
<1>0. \A m \in Msgs : /\ m = Opens(c) <=> m[1] = "CREATE" /\ c = <<m[2], m[3]>>
                      /\ m = Closes(c) <=> m[1] = "DESTROY" /\ c = <<m[2], m[3]>>
                      /\ m[1] \in Kinds
  BY DEF Opens, Closes, Msgs, Kinds
<1> DEFINE t == Tail(q)
           done == Apply(chans, Head(q))
           O == Opens(c)
           D == Closes(c)
           H(i, s, ch) == /\ IF i = 0 THEN c \in ch ELSE s[i] = O
                          /\ \A j \in (i + 1)..Len(s) : s[j] # D
<1>1. /\ Len(q) \in Nat /\ Len(q) > 0
      /\ Len(t) = Len(q) - 1
      /\ \A i \in 1..Len(t) : t[i] = q[i + 1]
      /\ Head(q) = q[1] /\ q[1] \in Msgs
  OBVIOUS
<1>2. c \in done <=> q[1] = O \/ (c \in chans /\ q[1] # D)
  <2>1. q[1] = Head(q) /\ Head(q) \in Msgs
    BY <1>1
  <2>2. /\ q[1] = O <=> Head(q)[1] = "CREATE" /\ c = <<Head(q)[2], Head(q)[3]>>
        /\ q[1] = D <=> Head(q)[1] = "DESTROY" /\ c = <<Head(q)[2], Head(q)[3]>>
        /\ Head(q)[1] \in {"CREATE", "DESTROY"}
    BY <1>0, <2>1, Zenon DEF Kinds
  <2>3. CASE Head(q)[1] = "CREATE"
    BY <2>2, <2>3 DEF Apply
  <2>4. CASE Head(q)[1] = "DESTROY"
    BY <2>2, <2>4 DEF Apply
  <2> QED
    BY <2>2, <2>3, <2>4
<1>3. /\ Holds(c, done, t) <=> \E i \in 0..Len(t) : H(i, t, done)
      /\ Holds(c, chans, q) <=> \E i \in 0..Len(q) : H(i, q, chans)
  BY DEF Holds
<1>4. O # D
  BY MessageOf
<1> HIDE DEF t, done, O, D
<1>5. ASSUME NEW i \in 0..Len(t)
      PROVE  (\A j \in (i + 1)..Len(t) : t[j] # D) <=>
               (\A j \in ((i + 1) + 1)..Len(q) : q[j] # D)
  <2>1. ASSUME NEW j \in (i + 1)..Len(t) PROVE t[j] = q[j + 1] /\ j + 1 \in ((i + 1) + 1)..Len(q)
    BY <1>1
  <2>2. ASSUME NEW j \in ((i + 1) + 1)..Len(q)
        PROVE  j - 1 \in (i + 1)..Len(t) /\ t[j - 1] = q[j]
    BY <1>1
  <2> QED
    BY <2>1, <2>2
<1>6. \A i \in 1..Len(t) : H(i, t, done) <=> H(i + 1, q, chans)
  <2> SUFFICES ASSUME NEW i \in 1..Len(t)
               PROVE  H(i, t, done) <=> H(i + 1, q, chans)
    OBVIOUS
  <2>1. i \in 0..Len(t) /\ i # 0 /\ i + 1 # 0
    BY <1>1
  <2> QED
    BY <1>1, <1>5, <2>1
<1>7. H(0, t, done) <=> H(0, q, chans) \/ H(1, q, chans)
  <2>1. (\A j \in (0 + 1)..Len(t) : t[j] # D) <=>
          (\A j \in ((0 + 1) + 1)..Len(q) : q[j] # D)
    BY <1>1, <1>5
  <2>2. (\A j \in (0 + 1)..Len(q) : q[j] # D) <=>
          q[1] # D /\ (\A j \in (1 + 1)..Len(q) : q[j] # D)
    BY <1>1
  <2> QED
    BY <1>2, <1>4, <2>1, <2>2
<1> HIDE DEF H
<1>8. /\ \A i \in 0..Len(t) : i = 0 \/ i \in 1..Len(t)
      /\ \A i \in 1..Len(t) : i \in 0..Len(t) /\ i + 1 \in 0..Len(q)
      /\ \A i \in 0..Len(q) : i = 0 \/ i = 1 \/ (i - 1 \in 1..Len(t) /\ (i - 1) + 1 = i)
      /\ 0 \in 0..Len(t) /\ 0 \in 0..Len(q) /\ 1 \in 0..Len(q)
  BY <1>1
<1>9. (\E i \in 0..Len(t) : H(i, t, done)) <=> (\E i \in 0..Len(q) : H(i, q, chans))
  <2>1. ASSUME NEW i \in 0..Len(t), H(i, t, done)
        PROVE  \E k \in 0..Len(q) : H(k, q, chans)
    BY <1>6, <1>7, <1>8, <2>1
  <2>2. ASSUME NEW i \in 0..Len(q), H(i, q, chans)
        PROVE  \E k \in 0..Len(t) : H(k, t, done)
    <3>1. CASE i = 0 \/ i = 1
      BY <1>7, <1>8, <2>2, <3>1
    <3>2. CASE i - 1 \in 1..Len(t) /\ (i - 1) + 1 = i
      <4>1. H(i - 1, t, done) <=> H((i - 1) + 1, q, chans)
        BY <1>6, <3>2
      <4> QED
        BY <1>8, <2>2, <3>2, <4>1
    <3> QED
      BY <1>8, <3>1, <3>2
  <2> QED
    BY <2>1, <2>2
<1> QED
  BY <1>3, <1>9 DEF t, done

\* What ChannelsFollow says, with the endpoint that answers for a channel being
\* one that was announced and not destroyed; only named endpoints are.
Channelled ==
  /\ \A c \in Names \X Addrs :
       Holds(c, channels, toRemote) =>
         \/ c \in lost
         \/ c[2] < RPMSG_RESERVED_ADDRESSES
         \/ \E e \in Epts : op[e] = "announced" /\ <<name[e], addr[e]>> = c
  /\ \A e \in Epts : op[e] = "announced" =>
       /\ Holds(<<name[e], addr[e]>>, channels, toRemote)
       /\ name[e] # NONAME /\ SUPPORT_NS

\* Creating, unregistering or not announcing an endpoint that is not announced
\* leaves all of it alone.
LEMMA QuietChannelled ==
  ASSUME TypeInv, Channelled, NEW e \in Epts, op[e] # "announced",
         NEW s \in OpStates \ {"announced"}, op' = [op EXCEPT ![e] = s],
         \A f \in Epts \ {e} : name'[f] = name[f] /\ addr'[f] = addr[f],
         UNCHANGED wire
  PROVE  Channelled'
<1>1. op \in [Epts -> OpStates]
  BY DEF TypeInv, TypeOK, OpStates
<1>2. op'[e] = s /\ s # "announced" /\ \A f \in Epts \ {e} : op'[f] = op[f]
  BY <1>1
<1>3. \A f \in Epts : op'[f] = "announced" <=> op[f] = "announced"
  BY <1>2
<1>4. \A f \in Epts : op[f] = "announced" => name'[f] = name[f] /\ addr'[f] = addr[f]
  OBVIOUS
<1>5. /\ channels' = channels /\ toRemote' = toRemote /\ lost' = lost
  BY DEF wire
<1> QED
  BY <1>3, <1>4, <1>5 DEF Channelled

\* Announcing an endpoint opens its channel.
LEMMA AnnounceChannelled ==
  ASSUME TypeInv, Channelled, NEW e \in Epts, Announce(e)
  PROVE  Channelled'
<1> DEFINE c0 == <<name[e], addr[e]>>
<1>1. /\ op \in [Epts -> OpStates] /\ toRemote \in Seq(Msgs)
      /\ \A f \in Epts : <<name[f], addr[f]>> \in Names \X Addrs
  BY DEF TypeInv, TypeOK, OpStates, Msgs
<1>2. /\ toRemote' = Append(toRemote, Opens(c0))
      /\ op' = [op EXCEPT ![e] = "announced"]
      /\ name' = name /\ addr' = addr /\ channels' = channels /\ lost' = lost
      /\ name[e] # NONAME /\ SUPPORT_NS
  BY DEF Announce, Announces, Opens, device
<1>3. c0 \in Names \X Addrs /\ Opens(c0) \in Msgs
  BY <1>1, MessageOf
<1> HIDE DEF c0
<1>4. \A c \in Names \X Addrs :
        /\ Opens(c0) = Opens(c) <=> c = c0
        /\ Opens(c0) # Closes(c)
  BY <1>3 DEF Opens, Closes
<1>5. \A c \in Names \X Addrs :
        Holds(c, channels, toRemote)' <=> c = c0 \/ Holds(c, channels, toRemote)
  <2>1. \A c \in Names \X Addrs :
          Holds(c, channels, Append(toRemote, Opens(c0))) <=>
            \/ Opens(c0) = Opens(c)
            \/ Opens(c0) # Closes(c) /\ Holds(c, channels, toRemote)
    BY <1>1, <1>3, HoldsAppend
  <2>2. \A c : Holds(c, channels, toRemote)' <=>
                 Holds(c, channels, Append(toRemote, Opens(c0)))
    BY <1>2 DEF Holds
  <2> QED
    BY <1>4, <2>1, <2>2
<1>6. \A f \in Epts : op'[f] = "announced" <=> f = e \/ op[f] = "announced"
  BY <1>1, <1>2
<1>7. <<name[e], addr[e]>> = c0
  BY DEF c0
<1>8. \A c \in Names \X Addrs :
        Holds(c, channels, toRemote)' =>
         \/ c \in lost
         \/ c[2] < RPMSG_RESERVED_ADDRESSES
         \/ \E f \in Epts : op'[f] = "announced" /\ <<name[f], addr[f]>> = c
  BY <1>5, <1>6, <1>7 DEF Channelled
<1>9. \A f \in Epts : op'[f] = "announced" =>
        /\ Holds(<<name[f], addr[f]>>, channels, toRemote)'
        /\ name[f] # NONAME /\ SUPPORT_NS
  BY <1>1, <1>2, <1>5, <1>6, <1>7 DEF Channelled
<1> QED
  BY <1>2, <1>8, <1>9 DEF Channelled

\* Destroying an endpoint closes its channel; of two endpoints of the same name
\* and address only one can be registered, unless the address is predefined.
LEMMA DestroyChannelled ==
  ASSUME TypeInv, EptInv, Channelled, NEW e \in Epts, DestroyEpt(e)
  PROVE  Channelled'
<1> DEFINE c0 == <<name[e], addr[e]>>
<1>1. /\ op \in [Epts -> OpStates] /\ toRemote \in Seq(Msgs)
      /\ \A f \in Epts : <<name[f], addr[f]>> \in Names \X Addrs
      /\ \A f \in Epts : addr[f] \in Addrs
  BY DEF TypeInv, TypeOK, OpStates, Msgs
<1>2. /\ op[e] \in {"open", "announced"}
      /\ op' = [op EXCEPT ![e] = "unregister"]
      /\ name' = name /\ addr' = addr /\ channels' = channels
  BY DEF DestroyEpt, device
<1>3. c0 \in Names \X Addrs /\ Closes(c0) \in Msgs /\ c0[2] = addr[e]
  BY <1>1, MessageOf
<1>4. \A f \in Epts : op'[f] = "announced" <=> f # e /\ op[f] = "announced"
  BY <1>1, <1>2
<1>5. c0 = <<name[e], addr[e]>>
  OBVIOUS
<1> HIDE DEF c0
<1>6. CASE toRemote' = Append(toRemote, Closes(c0)) /\ lost' = lost /\ TellsRemote(e)
  <2>1. \A c \in Names \X Addrs :
          /\ Closes(c0) = Closes(c) <=> c = c0
          /\ Closes(c0) # Opens(c)
    BY <1>3 DEF Opens, Closes
  <2>2. \A c \in Names \X Addrs :
          Holds(c, channels, toRemote)' <=> c # c0 /\ Holds(c, channels, toRemote)
    <3>1. \A c \in Names \X Addrs :
            Holds(c, channels, Append(toRemote, Closes(c0))) <=>
              \/ Closes(c0) = Opens(c)
              \/ Closes(c0) # Closes(c) /\ Holds(c, channels, toRemote)
      BY <1>1, <1>3, HoldsAppend
    <3>2. \A c : Holds(c, channels, toRemote)' <=>
                   Holds(c, channels, Append(toRemote, Closes(c0)))
      BY <1>2, <1>6 DEF Holds
    <3> QED
      BY <2>1, <3>1, <3>2
  <2>3. \A f \in Epts : f # e /\ op[f] = "announced" => <<name[f], addr[f]>> # c0
    <3> SUFFICES ASSUME NEW f \in Epts, f # e, op[f] = "announced",
                        <<name[f], addr[f]>> = c0
                 PROVE  FALSE
      OBVIOUS
    <3>1. addr[f] = addr[e] /\ addr[e] >= RPMSG_RESERVED_ADDRESSES
      BY <1>5, <1>6 DEF TellsRemote
    <3>2. f \in Registered /\ e \in Registered
      BY <1>2 DEF EptInv, Registered
    <3> QED
      BY <3>1, <3>2 DEF EptInv, AddressesExact
  <2>4. \A c \in Names \X Addrs :
          Holds(c, channels, toRemote)' =>
           \/ c \in lost
           \/ c[2] < RPMSG_RESERVED_ADDRESSES
           \/ \E f \in Epts : op'[f] = "announced" /\ <<name[f], addr[f]>> = c
    BY <1>4, <1>5, <2>2 DEF Channelled
  <2>5. \A f \in Epts : op'[f] = "announced" =>
          /\ Holds(<<name[f], addr[f]>>, channels, toRemote)'
          /\ name[f] # NONAME /\ SUPPORT_NS
    BY <1>1, <1>2, <1>4, <2>2, <2>3 DEF Channelled
  <2> QED
    BY <1>2, <1>6, <2>4, <2>5 DEF Channelled
<1>7. CASE toRemote' = toRemote /\ lost \subseteq lost' /\ (TellsRemote(e) => c0 \in lost')
  <2>1. \A c : Holds(c, channels, toRemote)' <=> Holds(c, channels, toRemote)
    BY <1>2, <1>7
  <2>2. ASSUME NEW c \in Names \X Addrs, Holds(c, channels, toRemote)
        PROVE  \/ c \in lost'
               \/ c[2] < RPMSG_RESERVED_ADDRESSES
               \/ \E f \in Epts : op'[f] = "announced" /\ <<name[f], addr[f]>> = c
    <3>1. CASE c \in lost \/ c[2] < RPMSG_RESERVED_ADDRESSES
      BY <1>7, <3>1
    <3>2. ASSUME NEW f \in Epts, op[f] = "announced", <<name[f], addr[f]>> = c
          PROVE  \/ c \in lost'
                 \/ c[2] < RPMSG_RESERVED_ADDRESSES
                 \/ op'[f] = "announced" /\ <<name[f], addr[f]>> = c
      <4>1. CASE f # e
        BY <1>4, <3>2, <4>1
      <4>2. CASE f = e
        <5>1. c = c0 /\ name[e] # NONAME /\ SUPPORT_NS
          BY <1>5, <3>2, <4>2 DEF Channelled
        <5>2. CASE addr[e] >= RPMSG_RESERVED_ADDRESSES
          BY <1>7, <5>1, <5>2 DEF TellsRemote
        <5>3. CASE ~(addr[e] >= RPMSG_RESERVED_ADDRESSES)
          <6>1. addr[e] < RPMSG_RESERVED_ADDRESSES
            BY <1>1, <5>3, EptAssumption DEF Addrs
          <6> QED
            BY <1>3, <5>1, <6>1
        <5> QED
          BY <5>2, <5>3
      <4> QED
        BY <4>1, <4>2
    <3> QED
      BY <2>2, <3>1, <3>2 DEF Channelled
  <2>3. \A f \in Epts : op'[f] = "announced" =>
          /\ Holds(<<name[f], addr[f]>>, channels, toRemote)
          /\ name[f] # NONAME /\ SUPPORT_NS
    BY <1>4 DEF Channelled
  <2> QED
    BY <1>2, <1>7, <2>1, <2>2, <2>3 DEF Channelled
<1>8. \/ toRemote' = Append(toRemote, Closes(c0)) /\ lost' = lost /\ TellsRemote(e)
      \/ toRemote' = toRemote /\ lost \subseteq lost' /\ (TellsRemote(e) => c0 \in lost')
  <2>1. Closes(c0) = <<"DESTROY", name[e], addr[e]>>
    BY <1>5 DEF Closes
  <2>2. c0 \in lost \cup {<<name[e], addr[e]>>}
    BY <1>5
  <2> QED
    BY <2>1, <2>2 DEF DestroyEpt, TellsRemote
<1> QED
  BY <1>6, <1>7, <1>8

\* The remote handling an announcement.
LEMMA RemoteNsChannelled ==
  ASSUME TypeInv, Channelled, RemoteNs
  PROVE  Channelled'
<1>1. /\ toRemote \in Seq(Msgs) /\ channels \in SUBSET (Names \X Addrs)
      /\ \A f \in Epts : <<name[f], addr[f]>> \in Names \X Addrs
  BY DEF TypeInv, TypeOK, Msgs
<1>2. /\ toRemote # <<>>
      /\ channels' = Apply(channels, Head(toRemote)) /\ toRemote' = Tail(toRemote)
      /\ name' = name /\ addr' = addr /\ op' = op /\ lost' = lost
  BY DEF RemoteNs, device
<1>3. \A c \in Names \X Addrs :
        Holds(c, Apply(channels, Head(toRemote)), Tail(toRemote)) <=>
          Holds(c, channels, toRemote)
  BY <1>1, <1>2, HoldsTail
<1>4. \A c \in Names \X Addrs :
        Holds(c, channels, toRemote)' <=> Holds(c, channels, toRemote)
  BY <1>2, <1>3 DEF Holds
<1> QED
  BY <1>1, <1>2, <1>4 DEF Channelled

\* Channelled is inductive, given that addresses are exact.
LEMMA ChannelsInvariant == Spec => []Channelled
<1>1. Init => Channelled
  <2> SUFFICES ASSUME Init PROVE Channelled
    OBVIOUS
  <2>1. toRemote = <<>> /\ channels = {} /\ op = [e \in Epts |-> "closed"]
    BY DEF Init
  <2>2. \A c : ~Holds(c, channels, toRemote)
    BY <2>1 DEF Holds
  <2> QED
    BY <2>1, <2>2 DEF Channelled
<1>2. TypeInv /\ EptInv /\ Channelled /\ [Next]_vars => Channelled'
  <2> SUFFICES ASSUME TypeInv, EptInv, Channelled, [Next]_vars PROVE Channelled'
    OBVIOUS
  <2>0. name \in [Epts -> Names] /\ addr \in [Epts -> Addrs]
    BY DEF TypeInv, TypeOK
  <2>1. ASSUME NEW e \in Epts, NEW n \in Names, NEW s \in Addrs \cup {ANY},
               NEW d \in RemoteAddrs \cup {ANY}, CreateEpt(e, n, s, d)
        PROVE  Channelled'
    <3>1. PICK a \in ClaimAddress(s) :
            /\ op[e] = "closed"
            /\ name' = [name EXCEPT ![e] = n] /\ addr' = [addr EXCEPT ![e] = a]
            /\ op' = [op EXCEPT ![e] = "announce"] /\ UNCHANGED wire
      BY <2>1 DEF CreateEpt
    <3>2. \A f \in Epts \ {e} : name'[f] = name[f] /\ addr'[f] = addr[f]
      BY <2>0, <3>1
    <3> QED
      BY <3>1, <3>2, QuietChannelled DEF OpStates
  <2>2. ASSUME NEW e \in Epts, NotAnnounced(e) PROVE Channelled'
    BY <2>2, QuietChannelled DEF NotAnnounced, OpStates, device
  <2>3. ASSUME NEW e \in Epts, Announce(e) PROVE Channelled'
    BY <2>3, AnnounceChannelled
  <2>4. ASSUME NEW e \in Epts, AnnounceFails(e) PROVE Channelled'
    BY <2>4, QuietChannelled DEF AnnounceFails, OpStates, device
  <2>5. ASSUME NEW e \in Epts, DestroyEpt(e) PROVE Channelled'
    BY <2>5, DestroyChannelled
  <2>6. ASSUME NEW e \in Epts, Unregister(e) PROVE Channelled'
    BY <2>6, QuietChannelled DEF Unregister, OpStates
  <2>7. CASE RemoteNs
    BY <2>7, RemoteNsChannelled
  <2>8. CASE UNCHANGED <<device, op, toRemote, channels, lost>>
    BY <2>8 DEF Channelled, Holds, device
  <2> QED
    BY <2>1, <2>2, <2>3, <2>4, <2>5, <2>6, <2>7, <2>8
    DEF Next, RxLookup, RxDeliver, NsCallback, RemoteCreate, RemoteDestroy,
        vars, wire
<1>3. ListInv => TypeInv
  BY DEF ListInv
<1> QED
  BY <1>1, <1>2, <1>3, EptInvariant, ListInvariant, PTL DEF Spec

\* Whatever order threads announce and destroy endpoints in, and although the
\* announcements are sent after the lock is released and addresses are reused
\* at once, the channels of the remote follow the endpoints.
THEOREM ChannelsAlwaysFollow == Spec => []ChannelsFollow
<1>1. TypeInv /\ EptInv /\ Channelled => ChannelsFollow
  <2> SUFFICES ASSUME TypeInv, EptInv, Channelled PROVE ChannelsFollow
    OBVIOUS
  <2>1. \A e \in Epts : <<name[e], addr[e]>> \in Names \X Addrs
    BY DEF TypeInv, TypeOK
  <2>2. \A e \in Epts : op[e] = "announced" => e \in Registered
    BY DEF EptInv, Registered
  <2> QED
    BY <2>1, <2>2, SettledHolds DEF Channelled, ChannelsFollow
<1>2. ListInv => TypeInv
  BY DEF ListInv
<1> QED
  BY <1>1, <1>2, EptInvariant, ListInvariant, ChannelsInvariant, PTL

=============================================================================
