--------------------------- MODULE RpmsgEndpoint ---------------------------
(***************************************************************************)
(* The endpoints of one rpmsg device: openamp/open-amp/rpmsg/rpmsg.c and   *)
(* the name service callback of rpmsg_virtio.c.                            *)
(*                                                                         *)
(* Threads create and destroy endpoints, at most one thread per endpoint,  *)
(* while the receive path looks endpoints up.  rdev->lock covers the list  *)
(* and the bitmap; the announcements to the remote and the delivery of a   *)
(* message happen outside it, so each is a step of its own.  The two name  *)
(* service streams are in order (VringFifo), and a send may fail: no       *)
(* buffer within 15 s, or the driver is not OK.                            *)
(*                                                                         *)
(* The remote's side, external, is what Linux does with an announcement:   *)
(* it keeps a set of channels.                                             *)
(***************************************************************************)
EXTENDS Integers, Sequences, FiniteSets

CONSTANTS
  Epts,         \* the struct rpmsg_endpoint objects
  Names,        \* service names, NONAME among them
  NONAME,       \* the empty name
  RemoteAddrs,  \* addresses of remote endpoints
  ANY,          \* RPMSG_ADDR_ANY
  RPMSG_RESERVED_ADDRESSES,
  RPMSG_ADDR_BMP_SIZE,
  SUPPORT_NS,   \* rdev->support_ns
  MaxMsgs       \* bound on each name service stream

ASSUME EptAssumption ==
  /\ RPMSG_RESERVED_ADDRESSES \in Nat
  /\ RPMSG_ADDR_BMP_SIZE \in Nat
  /\ ANY \notin Int
  /\ NONAME \in Names

Bits == 0..(RPMSG_ADDR_BMP_SIZE - 1)

\* The source addresses a caller may ask for, one past the bitmap included.
Addrs == 0..(RPMSG_RESERVED_ADDRESSES + RPMSG_ADDR_BMP_SIZE)

VARIABLES
  endpoints,   \* rdev->endpoints, in list order
  bitmap,      \* rdev->bitmap, the set of bits that are set
  rdev,        \* ept->rdev # NULL
  name, addr, dest,
  op,          \* where the thread that uses the endpoint is
  rx,          \* messages looked up and not yet delivered: <<ept, src>>
  toRemote, fromRemote,   \* name service messages in flight
  channels,    \* the remote's channels: <<name, addr>>
  remote,      \* name of each remote endpoint, ANY when it does not exist
  lost         \* history: channels whose DESTROY could not be sent

device == <<endpoints, bitmap, rdev, name, addr>>
wire   == <<toRemote, fromRemote, channels, remote, lost>>
vars   == <<device, dest, op, rx, wire>>

Registered == {e \in Epts : rdev[e]}

-----------------------------------------------------------------------------

Init ==
  /\ endpoints = <<>>
  /\ bitmap = {}
  /\ rdev = [e \in Epts |-> FALSE]
  /\ name = [e \in Epts |-> NONAME]
  /\ addr = [e \in Epts |-> 0]
  /\ dest = [e \in Epts |-> ANY]
  /\ op = [e \in Epts |-> "closed"]
  /\ rx = {}
  /\ toRemote = <<>>
  /\ fromRemote = <<>>
  /\ channels = {}
  /\ remote = [r \in RemoteAddrs |-> ANY]
  /\ lost = {}

\* rpmsg_get_address: the lowest clear bit, if there is one.
GetAddress ==
  LET clear == Bits \ bitmap
  IN  {RPMSG_RESERVED_ADDRESSES + b : b \in
         {b \in clear : \A c \in clear : b <= c}}

\* Mutant: a requested address is not looked up in the bitmap.
ClaimAddressUnchecked(src) ==
  IF src = ANY THEN GetAddress ELSE {src}

\* The address rpmsg_create_ept gives for src, none when it fails: any address
\* of the bitmap, a given one that is not set, or a predefined one, which is
\* not checked.
ClaimAddress(src) ==
  IF src = ANY
  THEN GetAddress
  ELSE {a \in {src} : a >= RPMSG_RESERVED_ADDRESSES =>
          a - RPMSG_RESERVED_ADDRESSES \in Bits \ bitmap}

\* rpmsg_set_address, rpmsg_release_address: the bit of an address, none for a predefined one.
BitOf(a) == {a - RPMSG_RESERVED_ADDRESSES} \cap Bits

\* rpmsg_create_ept up to the unlock.
CreateEpt(e, n, src, d) ==
  \E a \in ClaimAddress(src) :
    /\ op[e] = "closed"
    /\ bitmap' = bitmap \cup BitOf(a)
    /\ endpoints' = Append(endpoints, e)
    /\ rdev' = [rdev EXCEPT ![e] = TRUE]
    /\ name' = [name EXCEPT ![e] = n]
    /\ addr' = [addr EXCEPT ![e] = a]
    /\ dest' = [dest EXCEPT ![e] = d]
    /\ op' = [op EXCEPT ![e] = "announce"]
    /\ UNCHANGED <<rx, wire>>

Announces(e) == name[e] # NONAME /\ SUPPORT_NS /\ dest[e] = ANY

\* rpmsg_create_ept after the unlock.  dest_addr is read here: a message that
\* came in meanwhile may have bound the endpoint.
NotAnnounced(e) ==
  /\ op[e] = "announce"
  /\ ~Announces(e)
  /\ op' = [op EXCEPT ![e] = "open"]
  /\ UNCHANGED <<device, dest, rx, wire>>

\* rpmsg_send_ns_message(ept, RPMSG_NS_CREATE) succeeds...
Announce(e) ==
  /\ op[e] = "announce"
  /\ Announces(e)
  /\ Len(toRemote) < MaxMsgs
  /\ toRemote' = Append(toRemote, <<"CREATE", name[e], addr[e]>>)
  /\ op' = [op EXCEPT ![e] = "announced"]
  /\ UNCHANGED <<device, dest, rx, fromRemote, channels, remote, lost>>

\* ... or fails, and the endpoint is unregistered again.
AnnounceFails(e) ==
  /\ op[e] = "announce"
  /\ Announces(e)
  /\ op' = [op EXCEPT ![e] = "unregister"]
  /\ UNCHANGED <<device, dest, rx, wire>>

\* Mutant: the first dynamic address is taken for a predefined one.
TellsRemoteOff(e) ==
  name[e] # NONAME /\ SUPPORT_NS /\ addr[e] > RPMSG_RESERVED_ADDRESSES

\* rpmsg_destroy_ept announces the end of the endpoint, unless its address is
\* predefined.
TellsRemote(e) ==
  name[e] # NONAME /\ SUPPORT_NS /\ addr[e] >= RPMSG_RESERVED_ADDRESSES

\* rpmsg_destroy_ept: the remote is told, and the result of the send is ignored.
DestroyEpt(e) ==
  /\ op[e] \in {"open", "announced"}
  /\ op' = [op EXCEPT ![e] = "unregister"]
  /\ IF TellsRemote(e)
     THEN \/ /\ Len(toRemote) < MaxMsgs
             /\ toRemote' = Append(toRemote, <<"DESTROY", name[e], addr[e]>>)
             /\ UNCHANGED lost
          \/ /\ lost' = lost \cup {<<name[e], addr[e]>>}
             /\ UNCHANGED toRemote
     ELSE UNCHANGED <<toRemote, lost>>
  /\ UNCHANGED <<device, dest, rx, fromRemote, channels, remote>>

\* metal_list_del: the node of e leaves the list, the others keep their order.
Unlink(s, e) ==
  LET k == CHOOSE i \in DOMAIN s : s[i] = e
  IN  [i \in 1..(Len(s) - 1) |-> IF i < k THEN s[i] ELSE s[i + 1]]

\* Mutant: the endpoint stays in the list.
UnregisterKeepNode(e) ==
  /\ op[e] = "unregister"
  /\ bitmap' = bitmap \ BitOf(addr[e])
  /\ rdev' = [rdev EXCEPT ![e] = FALSE]
  /\ op' = [op EXCEPT ![e] = "closed"]
  /\ UNCHANGED <<endpoints, name, addr, dest, rx, wire>>

\* rpmsg_unregister_endpoint, under the lock.
Unregister(e) ==
  /\ op[e] = "unregister"
  /\ bitmap' = bitmap \ BitOf(addr[e])
  /\ endpoints' = Unlink(endpoints, e)
  /\ rdev' = [rdev EXCEPT ![e] = FALSE]
  /\ op' = [op EXCEPT ![e] = "closed"]
  /\ UNCHANGED <<name, addr, dest, rx, wire>>

-----------------------------------------------------------------------------
(* The receive path.                                                       *)

\* rpmsg_get_endpoint: the first endpoint of the list among those that match,
\* if any.
GetEndpoint(matching) ==
  {endpoints[i] : i \in
     {i \in DOMAIN endpoints :
        /\ endpoints[i] \in matching
        /\ \A j \in 1..(i - 1) : endpoints[j] \notin matching}}

\* rpmsg_virtio_rx_callback looks the destination of a message up...
RxLookup(src, dst) ==
  \E e \in GetEndpoint({f \in Epts : addr[f] = dst}) :
    /\ rx = {}
    /\ rx' = {<<e, src>>}
    /\ UNCHANGED <<device, dest, op, wire>>

\* ... and, without the lock, binds the endpoint to its first sender and calls
\* it.
RxDeliver ==
  \E m \in rx :
    /\ rx' = {}
    /\ dest' = [dest EXCEPT ![m[1]] = IF @ = ANY THEN m[2] ELSE @]
    /\ UNCHANGED <<device, op, wire>>

\* The endpoint a name service message is about: of that name and bound to the
\* remote endpoint, or of that name and bound to none, whichever is first.
NsMatch(m) ==
  GetEndpoint({e \in Epts : name[e] = m[2] /\ dest[e] \in {m[3], ANY}})

\* rpmsg_virtio_ns_callback, under the lock.  With no match the application's
\* ns_bind_cb is called, which this firmware leaves NULL; ns_unbind_cb likewise.
NsCallback ==
  /\ rx = {}
  /\ fromRemote # <<>>
  /\ LET m == Head(fromRemote)
     IN  dest' = [e \in Epts |-> IF e \notin NsMatch(m) THEN dest[e]
                                 ELSE IF m[1] = "DESTROY" THEN ANY ELSE m[3]]
  /\ fromRemote' = Tail(fromRemote)
  /\ UNCHANGED <<device, op, rx, toRemote, channels, remote, lost>>

-----------------------------------------------------------------------------
(* The remote processor (external).                                        *)

Apply(chans, m) == IF m[1] = "CREATE" THEN chans \cup {<<m[2], m[3]>>}
                                      ELSE chans \ {<<m[2], m[3]>>}

RemoteNs ==
  /\ toRemote # <<>>
  /\ channels' = Apply(channels, Head(toRemote))
  /\ toRemote' = Tail(toRemote)
  /\ UNCHANGED <<device, dest, op, rx, fromRemote, remote, lost>>

RemoteCreate(r, n) ==
  /\ remote[r] = ANY
  /\ Len(fromRemote) < MaxMsgs
  /\ remote' = [remote EXCEPT ![r] = n]
  /\ fromRemote' = Append(fromRemote, <<"CREATE", n, r>>)
  /\ UNCHANGED <<device, dest, op, rx, toRemote, channels, lost>>

RemoteDestroy(r) ==
  /\ remote[r] # ANY
  /\ Len(fromRemote) < MaxMsgs
  /\ remote' = [remote EXCEPT ![r] = ANY]
  /\ fromRemote' = Append(fromRemote, <<"DESTROY", remote[r], r>>)
  /\ UNCHANGED <<device, dest, op, rx, toRemote, channels, lost>>

-----------------------------------------------------------------------------

Next ==
  \/ \E e \in Epts, n \in Names, s \in Addrs \cup {ANY}, d \in RemoteAddrs \cup {ANY} :
       CreateEpt(e, n, s, d)
  \/ \E e \in Epts : NotAnnounced(e)
  \/ \E e \in Epts : Announce(e)
  \/ \E e \in Epts : AnnounceFails(e)
  \/ \E e \in Epts : DestroyEpt(e)
  \/ \E e \in Epts : Unregister(e)
  \/ \E r \in RemoteAddrs, a \in Addrs : RxLookup(r, a)
  \/ RxDeliver
  \/ NsCallback
  \/ RemoteNs
  \/ \E r \in RemoteAddrs, n \in Names \ {NONAME} : RemoteCreate(r, n)
  \/ \E r \in RemoteAddrs : RemoteDestroy(r)

Spec == Init /\ [][Next]_vars

-----------------------------------------------------------------------------
(* Properties.                                                             *)

\* The type of the state.
TypeOK ==
  /\ endpoints \in Seq(Epts)
  /\ bitmap \subseteq Bits
  /\ rdev \in [Epts -> BOOLEAN]
  /\ name \in [Epts -> Names]
  /\ addr \in [Epts -> Addrs]
  /\ dest \in [Epts -> RemoteAddrs \cup {ANY}]
  /\ op \in [Epts -> {"closed", "announce", "open", "announced", "unregister"}]
  /\ rx \subseteq Epts \X RemoteAddrs
  /\ channels \subseteq Names \X Addrs
  /\ remote \in [RemoteAddrs -> Names \cup {ANY}]
  /\ lost \subseteq Names \X Addrs

\* The bitmap and the endpoints agree at every moment other threads can see:
\* a bit is set exactly while a registered endpoint has its address, so no
\* failed or finished call of rpmsg_create_ept or rpmsg_destroy_ept leaks an
\* address, and two endpoints never share one of the bitmap's addresses.
AddressesExact ==
  /\ bitmap = {b \in Bits : \E e \in Registered :
                 addr[e] = RPMSG_RESERVED_ADDRESSES + b}
  /\ \A e, f \in Registered :
       addr[e] = addr[f] /\ addr[e] >= RPMSG_RESERVED_ADDRESSES => e = f

\* rdev->endpoints holds each registered endpoint once, so a lookup never
\* returns an endpoint whose ept->rdev is NULL.
ListExact ==
  /\ TypeOK
  /\ {endpoints[i] : i \in DOMAIN endpoints} = Registered
  /\ Len(endpoints) = Cardinality(Registered)

InFlight == {toRemote[i] : i \in DOMAIN toRemote}

\* The channels the remote will have when it has handled what is in flight.
Settled ==
  {c \in channels \cup {<<m[2], m[3]>> : m \in InFlight} :
     \E i \in 0..Len(toRemote) :
       /\ IF i = 0 THEN c \in channels ELSE toRemote[i] = <<"CREATE", c[1], c[2]>>
       /\ \A j \in (i + 1)..Len(toRemote) : toRemote[j] # <<"DESTROY", c[1], c[2]>>}

\* Name service announcements are in order with the life of an endpoint, even
\* when its address is reused by another thread at once: once the remote has
\* handled what is in flight it has a channel only for a registered endpoint
\* of that name and address, for a predefined address (whose end is never
\* announced), or for one whose DESTROY could not be sent; and it has one for
\* every endpoint that was announced and not destroyed.
ChannelsFollow ==
  /\ \A c \in Settled \ lost :
       \/ c[2] < RPMSG_RESERVED_ADDRESSES
       \/ \E e \in Registered : <<name[e], addr[e]>> = c
  /\ \A e \in Epts : op[e] = "announced" => <<name[e], addr[e]>> \in Settled

\* rpmsg.h says of the unbind callback that it is "called when remote ept is
\* destroyed": when an endpoint is bound to the remote endpoint that a NS
\* DESTROY names, the endpoint it unbinds is one that is bound to it.
DestroyUnbinds ==
  \A m \in {fromRemote[i] : i \in DOMAIN fromRemote \cap {1}} :
    \A e \in Registered :
      m[1] = "DESTROY" /\ name[e] = m[2] /\ dest[e] = m[3]
        => \A f \in NsMatch(m) : dest[f] = m[3]

=============================================================================
