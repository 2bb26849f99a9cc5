------------------------ MODULE DaveTransitions_proofs ------------------------
(***************************************************************************)
(* The media keys follow the group, wherever the tick thread is between    *)
(* two steps of a handler, for every value of the constants. Nor does a    *)
(* client ever wrap frames for itself alone, unless a welcome crosses with *)
(* the watchdog, which needs ChannelInv; none is ahead of its channel,     *)
(* which needs AheadInv as well; and none that is not heard believes it    *)
(* is, unless a commit that was to take effect at once was not applied,    *)
(* which needs HeardInv on top: the second, the third and the fourth part  *)
(* of the module.                                                          *)
(***************************************************************************)
EXTENDS DaveTransitions, TLAPS, SequenceTheorems

\* The external sender comes first in a session, and finds no keys: the one
\* handler that replaces the group without touching the media keys.
SenderFirst(s, keyed) ==
    \A i \in 1 .. Len(s) : s[i].op = "sender" => i = 1 /\ ~keyed

NoSender(s) == \A i \in 1 .. Len(s) : s[i].op # "sender"

\* The inbox is a sequence, of whatever messages.
InboxInv == (\E T : inbox \in Seq(T)) /\ SenderFirst(inbox, mediaReady)

\* The strengthening of RatchetsFollow: what is half done leaves no keys that
\* could be used when it is finished.
KeysInv ==
    /\ ws \in {"idle", "moved", "welcomed", "forget", "rebuild"}
    /\ ws = "rebuild" => ~mediaReady
    /\ tick = "rebuild" => ratchet = 0
    /\ RatchetsFollow

-----------------------------------------------------------------------------
(* What reading and writing do to the inbox.                                  *)

\* Once its head is read, a session's inbox holds no external sender.
LEMMA TailHasNoSender ==
    ASSUME NEW T, NEW s \in Seq(T), NEW keyed, s # <<>>, SenderFirst(s, keyed)
    PROVE  Tail(s) \in Seq(T) /\ NoSender(Tail(s))
  <1>1. /\ Tail(s) \in Seq(T)
        /\ Len(Tail(s)) = Len(s) - 1
        /\ \A i \in 1 .. Len(Tail(s)) : Tail(s)[i] = s[i + 1]
    BY HeadTailProperties
  <1>2. Len(s) \in Nat
    OBVIOUS
  <1>3. ASSUME NEW i \in 1 .. Len(Tail(s))
        PROVE  Tail(s)[i].op # "sender"
    <2>1. i + 1 \in 1 .. Len(s) /\ i + 1 # 1
      BY <1>1, <1>2
    <2>2. s[i + 1].op # "sender"
      BY <2>1 DEF SenderFirst
    <2> QED BY <1>1, <2>2
  <1> QED BY <1>1, <1>3 DEF NoSender

\* Without the external sender in it the inbox says nothing about keys.
LEMMA NoSenderIsFirst ==
    ASSUME NEW s, NEW keyed, NoSender(s) PROVE SenderFirst(s, keyed)
  BY DEF NoSender, SenderFirst

\* What the server adds behind is not the external sender.
LEMMA AppendKeepsSender ==
    ASSUME NEW T, NEW s \in Seq(T), NEW keyed, NEW m, m.op # "sender", SenderFirst(s, keyed)
    PROVE  (\E U : Append(s, m) \in Seq(U)) /\ SenderFirst(Append(s, m), keyed)
  <1> DEFINE U == T \union {m}
  <1>1. s \in Seq(U)
    OBVIOUS
  <1>2. m \in U
    OBVIOUS
  <1> HIDE DEF U
  <1>3. /\ Append(s, m) \in Seq(U)
        /\ Len(Append(s, m)) = Len(s) + 1
        /\ \A i \in 1 .. Len(s) : Append(s, m)[i] = s[i]
        /\ Append(s, m)[Len(s) + 1] = m
    BY <1>1, <1>2, AppendProperties
  <1>4. ASSUME NEW i \in 1 .. Len(Append(s, m)), Append(s, m)[i].op = "sender"
        PROVE  i = 1 /\ ~keyed
    <2>1. Len(s) \in Nat
      OBVIOUS
    <2>2. i # Len(s) + 1
      BY <1>3, <1>4
    <2>3. i \in 1 .. Len(s)
      BY <1>3, <2>1, <2>2
    <2> QED BY <1>3, <1>4, <2>3 DEF SenderFirst
  <1>5. SenderFirst(Append(s, m), keyed)
    BY <1>4 DEF SenderFirst
  <1> QED BY <1>3, <1>5

\* Nor are two messages added at once.
LEMMA PairKeepsSender ==
    ASSUME NEW T, NEW s \in Seq(T), NEW keyed, NEW a, NEW b,
           a.op # "sender", b.op # "sender", SenderFirst(s, keyed)
    PROVE  (\E U : s \o <<a, b>> \in Seq(U)) /\ SenderFirst(s \o <<a, b>>, keyed)
  <1> DEFINE U == T \union {a, b}
             p == <<a, b>>
  <1>1. s \in Seq(U) /\ p \in Seq(U)
    OBVIOUS
  <1>2. Len(p) = 2 /\ p[1] = a /\ p[2] = b /\ Len(s) \in Nat
    OBVIOUS
  <1> HIDE DEF U, p
  <1>3. /\ s \o p \in Seq(U)
        /\ Len(s \o p) = Len(s) + Len(p)
        /\ \A i \in 1 .. Len(s) + Len(p) :
              (s \o p)[i] = IF i <= Len(s) THEN s[i] ELSE p[i - Len(s)]
    BY <1>1, ConcatProperties
  <1>4. ASSUME NEW i \in 1 .. Len(s \o p), (s \o p)[i].op = "sender"
        PROVE  i = 1 /\ ~keyed
    <2>1. CASE i <= Len(s)
      <3>1. i \in 1 .. Len(s) /\ s[i].op = "sender"
        BY <1>2, <1>3, <1>4, <2>1
      <3> QED BY <3>1 DEF SenderFirst
    <2>2. CASE ~(i <= Len(s))
      <3>1. i - Len(s) \in {1, 2} /\ (s \o p)[i] = p[i - Len(s)]
        BY <1>2, <1>3, <2>2
      <3>2. p[i - Len(s)].op # "sender"
        BY <1>2, <3>1
      <3> QED BY <1>4, <3>1, <3>2
    <2> QED BY <2>1, <2>2
  <1>5. SenderFirst(s \o p, keyed)
    BY <1>4 DEF SenderFirst
  <1> QED BY <1>3, <1>5 DEF p

\* A session starts with it, or with nothing.
LEMMA HelloStartsIt ==
    ASSUME NEW v
    PROVE  (\E U : Hello(v) \in Seq(U)) /\ SenderFirst(Hello(v), FALSE)
  <1> DEFINE a == [op |-> "sender"]
             b == [op |-> "prepare", id |-> 0, version |-> 1]
             c == [op |-> "execute", id |-> 0]
  <1>1. CASE v = 0
    <2>1. Hello(v) = <<>>
      BY <1>1 DEF Hello
    <2>2. <<>> \in Seq({0}) /\ Len(<<>>) = 0
      OBVIOUS
    <2> QED BY <2>1, <2>2 DEF SenderFirst
  <1>2. CASE v # 0
    <2>1. Hello(v) = <<a, b, c>>
      BY <1>2 DEF Hello
    <2>2. <<a, b, c>> \in Seq({a, b, c}) /\ Len(<<a, b, c>>) = 3
      OBVIOUS
    <2>3. <<a, b, c>>[2].op # "sender" /\ <<a, b, c>>[3].op # "sender"
      OBVIOUS
    <2>4. ASSUME NEW i \in 1 .. Len(Hello(v)), Hello(v)[i].op = "sender"
          PROVE  i = 1
      BY <2>1, <2>2, <2>3, <2>4
    <2> QED BY <2>1, <2>2, <2>4 DEF SenderFirst
  <1> QED BY <1>1, <1>2

-----------------------------------------------------------------------------
(* The websocket thread.                                                      *)

\* A handler that is not the external sender's leaves the keys in order: what
\* moves the group is not finished, what drops it leaves no keys to use.
LEMMA HandlerKeepsKeys ==
    ASSUME KeysInv, ws = "idle", NEW m,
           \/ OnProposals(m) \/ OnRevoke \/ OnWelcome(m) \/ OnAnnounce(m)
           \/ OnPrepare(m) \/ OnExecute(m) \/ OnEpochOne
    PROVE  KeysInv'
  <1> USE DEF KeysInv, RatchetsFollow, Sealing, Midway
  <1>1. CASE OnProposals(m) \/ OnRevoke \/ OnPrepare(m) \/ OnEpochOne
    BY <1>1 DEF OnProposals, OnRevoke, OnPrepare, OnEpochOne
  <1>2. CASE OnWelcome(m)
    BY <1>2 DEF OnWelcome, Forget, client
  <1>3. CASE OnAnnounce(m)
    BY <1>3 DEF OnAnnounce, OnAnnounceNow, OnAnnounceLater, client
  <1>4. CASE OnExecute(m)
    <2>1. CASE ChangeVersion
      BY <2>1 DEF ChangeVersion
    <2>2. CASE UNCHANGED client
      BY <2>2 DEF client
    <2>3. CASE Swap(m.id)
      BY <2>3 DEF Swap
    <2>4. CASE Missed(m.id)
      BY <2>4 DEF Missed, Forget, client
    <2>5. CASE ApplyPending(m.id)
      BY <2>5 DEF ApplyPending, Forget
    <2> QED BY <1>4, <2>1, <2>2, <2>3, <2>4, <2>5 DEF OnExecute
  <1> QED BY <1>1, <1>2, <1>3, <1>4

\* Reading one message keeps both halves of the invariant.
LEMMA HandleStep ==
    ASSUME KeysInv, InboxInv, Handle
    PROVE  KeysInv' /\ InboxInv'
  <1> DEFINE m == Head(inbox)
  <1>1. PICK T : inbox \in Seq(T)
    BY DEF InboxInv
  <1>2. /\ inbox # <<>> /\ inbox' = Tail(inbox) /\ ws = "idle"
        /\ SenderFirst(inbox, mediaReady)
    BY DEF Handle, InboxInv
  <1>3. Tail(inbox) \in Seq(T) /\ NoSender(Tail(inbox))
    BY <1>1, <1>2, TailHasNoSender
  <1>4. InboxInv'
    BY <1>2, <1>3, NoSenderIsFirst DEF InboxInv
  <1>5. CASE m.op = "sender" /\ OnSender
    <2>1. 1 \in 1 .. Len(inbox) /\ inbox[1] = m
      BY <1>1, <1>2
    <2>2. ~mediaReady
      BY <1>2, <1>5, <2>1 DEF SenderFirst
    <2> QED BY <1>2, <1>4, <1>5, <2>2
            DEF OnSender, SendKeyPackage, KeysInv, RatchetsFollow, Sealing, Midway
  <1>6. CASE \/ OnProposals(m) \/ OnRevoke \/ OnWelcome(m) \/ OnAnnounce(m)
             \/ OnPrepare(m) \/ OnExecute(m) \/ OnEpochOne
    BY <1>2, <1>4, <1>6, HandlerKeepsKeys
  <1> QED BY <1>5, <1>6 DEF Handle

\* The second half of a handler.
LEMMA WsThreadStep ==
    ASSUME KeysInv, InboxInv, WsThread
    PROVE  KeysInv' /\ InboxInv'
  <1>1. CASE Handle
    BY <1>1, HandleStep
  <1>2. CASE ResetRatchets
    BY <1>2 DEF ResetRatchets, RatchetsReset, KeysInv, InboxInv, RatchetsFollow, Sealing, Midway
  <1>3. CASE Welcomed
    BY <1>3 DEF Welcomed, RatchetsReset, KeysInv, InboxInv, RatchetsFollow, Sealing, Midway
  <1>4. CASE ForgetFirst
    <2>1. KeysInv'
      BY <1>4 DEF ForgetFirst, Forget, KeysInv, RatchetsFollow, Sealing, Midway
    <2>2. inbox' = inbox /\ ~mediaReady'
      BY <1>4 DEF ForgetFirst, Forget
    <2> QED BY <2>1, <2>2 DEF InboxInv, SenderFirst
  <1>5. CASE Rebuild
    BY <1>5 DEF Rebuild, SendKeyPackage, KeysInv, InboxInv, RatchetsFollow, Sealing, Midway
  <1> QED BY <1>1, <1>2, <1>3, <1>4, <1>5 DEF WsThread

-----------------------------------------------------------------------------
(* The tick thread, and everybody else.                                       *)

\* The tick thread takes its keys from the group it finds, and the watchdog
\* leaves none.
LEMMA TickThreadStep ==
    ASSUME KeysInv, InboxInv, TickThread
    PROVE  KeysInv' /\ InboxInv'
  <1>1. CASE CheckMedia
    BY <1>1 DEF CheckMedia, KeysInv, InboxInv, RatchetsFollow, Sealing, Midway
  <1>2. CASE UseRatchet
    BY <1>2 DEF UseRatchet, KeysInv, InboxInv, RatchetsFollow, Sealing, Midway
  <1>3. CASE Watchdog
    <2>1. KeysInv'
      BY <1>3 DEF Watchdog, Forget, KeysInv, RatchetsFollow, Sealing, Midway
    <2>2. inbox' = inbox /\ ~mediaReady'
      BY <1>3 DEF Watchdog, Forget
    <2> QED BY <2>1, <2>2 DEF InboxInv, SenderFirst
  <1>4. CASE WatchdogRebuild
    BY <1>4 DEF WatchdogRebuild, SendKeyPackage, KeysInv, InboxInv, RatchetsFollow, Sealing, Midway
  <1>5. CASE FiveSeconds
    BY <1>5 DEF FiveSeconds, KeysInv, InboxInv, RatchetsFollow, Sealing, Midway
  <1> QED BY <1>1, <1>2, <1>3, <1>4, <1>5 DEF TickThread

\* A step that is not the client's touches no keys.
LEMMA SilentKeys ==
    ASSUME KeysInv, UNCHANGED client PROVE KeysInv'
  BY DEF client, KeysInv, RatchetsFollow, Sealing, Midway

\* And one that tells the client nothing keeps the rest of the invariant.
LEMMA SilentStep ==
    ASSUME KeysInv, InboxInv, UNCHANGED client, UNCHANGED inbox
    PROVE  KeysInv' /\ InboxInv'
  BY SilentKeys DEF client, InboxInv

\* Somebody else's step adds to the inbox at most.
LEMMA TellStep ==
    ASSUME KeysInv, InboxInv, UNCHANGED client, NEW m, m.op # "sender",
           Tell(m) \/ UNCHANGED inbox
    PROVE  KeysInv' /\ InboxInv'
  <1>1. KeysInv'
    BY SilentKeys
  <1>2. PICK T : inbox \in Seq(T)
    BY DEF InboxInv
  <1>3. SenderFirst(inbox, mediaReady) /\ mediaReady' = mediaReady
    BY DEF InboxInv, client
  <1>4. CASE Tell(m)
    <2>1. (\E U : Append(inbox, m) \in Seq(U)) /\ SenderFirst(Append(inbox, m), mediaReady)
      BY <1>2, <1>3, AppendKeepsSender
    <2> QED BY <1>1, <1>3, <1>4, <2>1 DEF Tell, InboxInv
  <1>5. CASE UNCHANGED inbox
    BY <1>1, <1>3, <1>5 DEF InboxInv
  <1> QED BY <1>4, <1>5

\* The server and the other members.
LEMMA ServerStep ==
    ASSUME KeysInv, InboxInv, Server
    PROVE  KeysInv' /\ InboxInv'
  <1>1. CASE Take
    <2>1. UNCHANGED client
      BY <1>1 DEF Take
    <2>2. UNCHANGED inbox \/ \E m : m.op # "sender" /\ Tell(m)
      <3>1. PICK m : \/ TakePackage(m) \/ TakeInvalid(m) \/ TakeCommit(m) \/ TakeReady(m)
        BY <1>1 DEF Take
      <3>2. CASE TakePackage(m) \/ TakeInvalid(m) \/ TakeReady(m)
        BY <3>2 DEF TakePackage, TakeInvalid, TakeReady
      <3>3. CASE TakeCommit(m)
        <4>1. CASE Acceptable(m)
          <5>1. PICK id : Tell([op |-> "announce", id |-> id, base |-> epoch, mine |-> TRUE,
                                number |-> m.number])
            BY <3>3, <4>1 DEF TakeCommit
          <5> QED BY <5>1
        <4>2. CASE ~Acceptable(m)
          BY <3>3, <4>2 DEF TakeCommit
        <4> QED BY <4>1, <4>2
      <3> QED BY <3>1, <3>2, <3>3
    <2>3. CASE UNCHANGED inbox
      BY <2>1, <2>3, TellStep, SilentStep
    <2>4. ASSUME NEW m, m.op # "sender", Tell(m)
          PROVE  KeysInv' /\ InboxInv'
      BY <2>1, <2>4, TellStep
    <2> QED BY <2>2, <2>3, <2>4
  <1>2. CASE Offer
    <2> DEFINE m == [op |-> "proposals", base |-> epoch]
    <2>1. UNCHANGED client /\ Tell(m) /\ m.op # "sender"
      BY <1>2 DEF Offer
    <2> HIDE DEF m
    <2> QED BY <2>1, TellStep
  <1>3. CASE OtherCommit
    <2> DEFINE w == [op |-> "welcome", id |-> nextId, epoch |-> epoch + 1, package |-> offered]
               a == [op |-> "announce", id |-> nextId, base |-> epoch, mine |-> FALSE,
                     number |-> 0]
    <2>1. UNCHANGED client /\ (Tell(w) \/ Tell(a) \/ UNCHANGED inbox)
      BY <1>3 DEF OtherCommit
    <2>2. w.op # "sender" /\ a.op # "sender"
      OBVIOUS
    <2> HIDE DEF w, a
    <2> QED BY <2>1, <2>2, TellStep, SilentStep
  <1>4. CASE Execute
    <2> DEFINE m == [op |-> "execute", id |-> move.id]
    <2>1. UNCHANGED client /\ (Tell(m) \/ UNCHANGED inbox) /\ m.op # "sender"
      BY <1>4 DEF Execute
    <2> HIDE DEF m
    <2> QED BY <2>1, TellStep
  <1> QED BY <1>1, <1>2, <1>3, <1>4 DEF Server

\* What may go wrong; a session made anew has no keys left to use.
LEMMA UpsetStep ==
    ASSUME KeysInv, InboxInv, Upsets
    PROVE  KeysInv' /\ InboxInv'
  <1>0. PICK T : inbox \in Seq(T)
    BY DEF InboxInv
  <1>1. SenderFirst(inbox, mediaReady)
    BY DEF InboxInv
  <1>2. ASSUME NEW a, NEW b, a.op # "sender", b.op # "sender",
               UNCHANGED client, inbox' = inbox \o <<a, b>>
        PROVE  KeysInv' /\ InboxInv'
    <2>1. KeysInv' /\ mediaReady' = mediaReady
      BY <1>2, SilentKeys DEF client
    <2>2. (\E U : inbox' \in Seq(U)) /\ SenderFirst(inbox', mediaReady)
      BY <1>0, <1>1, <1>2, PairKeepsSender
    <2> QED BY <2>1, <2>2 DEF InboxInv
  <1>3. CASE Downgrade
    <2> DEFINE a == [op |-> "prepare", id |-> nextId, version |-> 0]
               b == [op |-> "execute", id |-> nextId]
    <2>1. UNCHANGED client /\ inbox' = inbox \o <<a, b>> /\ a.op # "sender" /\ b.op # "sender"
      BY <1>3 DEF Downgrade, Upset
    <2> HIDE DEF a, b
    <2> QED BY <1>2, <2>1
  <1>4. CASE StartOver
    <2> DEFINE a == [op |-> "prepare", id |-> nextId, version |-> 1]
               b == [op |-> "execute", id |-> nextId]
               m == [op |-> "epoch"]
    <2>1. UNCHANGED client /\ (Tell(m) \/ inbox' = inbox \o <<a, b>>)
      BY <1>4 DEF StartOver, Upset
    <2>2. a.op # "sender" /\ b.op # "sender" /\ m.op # "sender"
      OBVIOUS
    <2> HIDE DEF a, b, m
    <2> QED BY <1>2, <2>1, <2>2, TellStep
  <1>5. CASE Revoke
    <2> DEFINE m == [op |-> "revoke"]
    <2>1. UNCHANGED client /\ Tell(m) /\ m.op # "sender"
      BY <1>5 DEF Revoke, Upset
    <2> HIDE DEF m
    <2> QED BY <2>1, TellStep
  <1>6. CASE Repeat
    <2> DEFINE m == [op |-> "execute", id |-> nextId - 1]
    <2>1. UNCHANGED client /\ Tell(m) /\ m.op # "sender"
      BY <1>6 DEF Repeat, Upset
    <2> HIDE DEF m
    <2> QED BY <2>1, TellStep
  <1>7. CASE Rehandshake
    <2>1. KeysInv'
      BY <1>7 DEF Rehandshake, KeysInv, RatchetsFollow, Sealing, Midway
    <2>2. inbox' = Hello(channel) /\ mediaReady' = FALSE
      BY <1>7 DEF Rehandshake
    <2> QED BY <2>1, <2>2, HelloStartsIt DEF InboxInv
  <1> QED BY <1>3, <1>4, <1>5, <1>6, <1>7 DEF Upsets

-----------------------------------------------------------------------------
\* The frames a client wraps are wrapped with keys of the group it is in, and
\* what it unwraps is unwrapped with them (RatchetsFollow), whichever way the
\* two threads take turns: voice.cpp resets the keys after every move.
THEOREM KeysFollowGroup == Spec => []RatchetsFollow
  <1>1. Init => KeysInv /\ InboxInv
    <2> SUFFICES ASSUME Init PROVE KeysInv /\ InboxInv
      OBVIOUS
    <2>1. KeysInv
      BY DEF Init, KeysInv, RatchetsFollow, Sealing, Midway
    <2>2. inbox = Hello(1) /\ mediaReady = FALSE
      BY DEF Init
    <2> QED BY <2>1, <2>2, HelloStartsIt DEF InboxInv
  <1>2. KeysInv /\ InboxInv /\ [Next]_vars => (KeysInv /\ InboxInv)'
    <2> SUFFICES ASSUME KeysInv, InboxInv, [Next]_vars PROVE KeysInv' /\ InboxInv'
      OBVIOUS
    <2>1. CASE UNCHANGED vars
      BY <2>1, SilentStep DEF vars
    <2>2. CASE Next
      BY <2>2, WsThreadStep, TickThreadStep, ServerStep, UpsetStep DEF Next
    <2> QED BY <2>1, <2>2
  <1>3. KeysInv => RatchetsFollow
    BY DEF KeysInv
  <1> QED BY <1>1, <1>2, <1>3, PTL DEF Spec

-----------------------------------------------------------------------------
(* Messages in their order.                                                   *)

\* Whatever it is a list of.
IsList(s) == \E T : s \in Seq(T)

\* Nothing was said yet.
LEMMA ListEmpty == IsList(<<>>) /\ Len(<<>>) = 0
  <1>1. <<>> \in Seq({0}) /\ Len(<<>>) = 0
    OBVIOUS
  <1> QED BY <1>1 DEF IsList

\* Reading takes the first of a list and leaves the others in their order.
LEMMA ListTail ==
    ASSUME NEW s, IsList(s), s # <<>>
    PROVE  /\ IsList(Tail(s)) /\ Len(s) \in Nat /\ Len(s) >= 1
           /\ Len(Tail(s)) = Len(s) - 1 /\ Head(s) = s[1]
           /\ \A i \in 1 .. (Len(s) - 1) : Tail(s)[i] = s[i + 1]
  <1>1. PICK T : s \in Seq(T)
    BY DEF IsList
  <1>2. /\ Tail(s) \in Seq(T) /\ Len(Tail(s)) = Len(s) - 1
        /\ \A i \in 1 .. Len(Tail(s)) : Tail(s)[i] = s[i + 1]
    BY <1>1, HeadTailProperties
  <1>3. Len(s) \in Nat /\ Len(s) >= 1 /\ Head(s) = s[1]
    BY <1>1
  <1> QED BY <1>2, <1>3 DEF IsList

\* Telling adds one behind and leaves the others where they were.
LEMMA ListAppend ==
    ASSUME NEW s, IsList(s), NEW m
    PROVE  /\ IsList(Append(s, m)) /\ Len(s) \in Nat
           /\ Len(Append(s, m)) = Len(s) + 1
           /\ \A i \in 1 .. Len(s) : Append(s, m)[i] = s[i]
           /\ Append(s, m)[Len(s) + 1] = m
  <1>1. PICK T : s \in Seq(T)
    BY DEF IsList
  <1> DEFINE U == T \union {m}
  <1>2. s \in Seq(U) /\ m \in U /\ Len(s) \in Nat
    BY <1>1
  <1> HIDE DEF U
  <1>3. /\ Append(s, m) \in Seq(U)
        /\ Len(Append(s, m)) = Len(s) + 1
        /\ \A i \in 1 .. Len(s) : Append(s, m)[i] = s[i]
        /\ Append(s, m)[Len(s) + 1] = m
    BY <1>2, AppendProperties
  <1> QED BY <1>2, <1>3 DEF IsList

\* Two messages at once are one after the other.
LEMMA ListPair ==
    ASSUME NEW s, IsList(s), NEW a, NEW b
    PROVE  s \o <<a, b>> = Append(Append(s, a), b)
  <1>1. PICK T : s \in Seq(T)
    BY DEF IsList
  <1> QED BY <1>1

-----------------------------------------------------------------------------
(* What the messages say.                                                     *)

InOK(m) ==
    /\ m.op = "proposals" => m.base \in 0 .. TopEpoch
    /\ m.op = "welcome" => m.id \in Nat /\ m.id # 0 /\ m.epoch \in 1 .. TopEpoch
    /\ m.op = "announce" => /\ m.id \in Nat /\ m.base \in Nat /\ m.base < TopEpoch
                            /\ m.mine \in BOOLEAN /\ m.number \in Nat
                            /\ m.id = 0 => m.mine
    /\ m.op = "prepare" => m.version \in 0 .. 1
    /\ m.op = "execute" => m.id \in Nat

OutOK(m) ==
    /\ m.op = "package" => m.package \in 0 .. Packages
    /\ m.op = "commit" => m.number \in Nat /\ m.number # 0 /\ m.base \in Groups
    /\ m.op = "invalid" => m.id \in Nat

\* Every message in it is.
OKInbox(s) == IsList(s) /\ \A i \in 1 .. Len(s) : InOK(s[i])
OKOutbox(s) == IsList(s) /\ \A i \in 1 .. Len(s) : OutOK(s[i])

\* What is left to be read is well formed, and so is what is read.
LEMMA InboxTail ==
    ASSUME NEW s, OKInbox(s), s # <<>> PROVE OKInbox(Tail(s)) /\ InOK(Head(s))
  <1>1. ASSUME NEW i \in 1 .. Len(Tail(s)) PROVE InOK(Tail(s)[i])
    <2>1. i \in 1 .. (Len(s) - 1) /\ i + 1 \in 1 .. Len(s)
      BY ListTail DEF OKInbox
    <2>2. Tail(s)[i] = s[i + 1]
      BY <2>1, ListTail DEF OKInbox
    <2> QED BY <2>1, <2>2 DEF OKInbox
  <1>2. 1 \in 1 .. Len(s) /\ Head(s) = s[1] /\ IsList(Tail(s))
    BY ListTail DEF OKInbox
  <1> QED BY <1>1, <1>2 DEF OKInbox

\* The same of what the client said.
LEMMA OutboxTail ==
    ASSUME NEW s, OKOutbox(s), s # <<>> PROVE OKOutbox(Tail(s)) /\ OutOK(Head(s))
  <1>1. ASSUME NEW i \in 1 .. Len(Tail(s)) PROVE OutOK(Tail(s)[i])
    <2>1. i \in 1 .. (Len(s) - 1) /\ i + 1 \in 1 .. Len(s)
      BY ListTail DEF OKOutbox
    <2>2. Tail(s)[i] = s[i + 1]
      BY <2>1, ListTail DEF OKOutbox
    <2> QED BY <2>1, <2>2 DEF OKOutbox
  <1>2. 1 \in 1 .. Len(s) /\ Head(s) = s[1] /\ IsList(Tail(s))
    BY ListTail DEF OKOutbox
  <1> QED BY <1>1, <1>2 DEF OKOutbox

\* A well formed message more leaves the inbox well formed,
LEMMA InboxAppend ==
    ASSUME NEW s, OKInbox(s), NEW m, InOK(m) PROVE OKInbox(Append(s, m))
  <1>1. ASSUME NEW i \in 1 .. Len(Append(s, m)) PROVE InOK(Append(s, m)[i])
    <2>1. i \in 1 .. Len(s) \/ i = Len(s) + 1
      BY ListAppend DEF OKInbox
    <2> QED BY <2>1, ListAppend DEF OKInbox
  <1> QED BY <1>1, ListAppend DEF OKInbox

\* and the outbox.
LEMMA OutboxAppend ==
    ASSUME NEW s, OKOutbox(s), NEW m, OutOK(m) PROVE OKOutbox(Append(s, m))
  <1>1. ASSUME NEW i \in 1 .. Len(Append(s, m)) PROVE OutOK(Append(s, m)[i])
    <2>1. i \in 1 .. Len(s) \/ i = Len(s) + 1
      BY ListAppend DEF OKOutbox
    <2> QED BY <2>1, ListAppend DEF OKOutbox
  <1> QED BY <1>1, ListAppend DEF OKOutbox

\* A session starts with well formed messages, and with transition zero only.
LEMMA HelloIs ==
    ASSUME NEW v
    PROVE  /\ OKInbox(Hello(v))
           /\ \A i \in 1 .. Len(Hello(v)) :
                 /\ Hello(v)[i].op \in {"sender", "prepare", "execute"}
                 /\ Hello(v)[i].op = "execute" => Hello(v)[i].id = 0
  <1> DEFINE a == [op |-> "sender"]
             b == [op |-> "prepare", id |-> 0, version |-> 1]
             c == [op |-> "execute", id |-> 0]
  <1>1. CASE v = 0
    <2>1. Hello(v) = <<>>
      BY <1>1 DEF Hello
    <2> QED BY <2>1, ListEmpty DEF OKInbox
  <1>2. CASE v # 0
    <2>1. Hello(v) = <<a, b, c>>
      BY <1>2 DEF Hello
    <2>2. <<a, b, c>> \in Seq({a, b, c}) /\ Len(<<a, b, c>>) = 3
      OBVIOUS
    <2>3. /\ a.op = "sender"
          /\ b.op = "prepare" /\ b.id = 0 /\ b.version = 1
          /\ c.op = "execute" /\ c.id = 0
      OBVIOUS
    <2>4. <<a, b, c>>[1] = a /\ <<a, b, c>>[2] = b /\ <<a, b, c>>[3] = c
      OBVIOUS
    <2>5. ASSUME NEW i \in 1 .. 3
          PROVE  <<a, b, c>>[i] \in {a, b, c}
      BY <2>4
    <2> HIDE DEF a, b, c
    <2>6. InOK(a) /\ InOK(b) /\ InOK(c)
      BY <2>3 DEF InOK
    <2>7. \A i \in 1 .. Len(Hello(v)) : Hello(v)[i] \in {a, b, c}
      BY <2>1, <2>2, <2>5
    <2> QED BY <2>1, <2>2, <2>3, <2>6, <2>7 DEF OKInbox, IsList
  <1> QED BY <1>1, <1>2

-----------------------------------------------------------------------------
(* Transitions come in turn.                                                  *)

\* The announcement of a transition that is still to come.
Later(m) == m.op = "announce" /\ m.id # 0
Dated(m) == m.op = "welcome" \/ m.op = "execute" \/ Later(m)

\* Transition x is over or under way when m is read, and m does not announce it.
Past(x, m) == Dated(m) => x <= m.id /\ (Later(m) => x < m.id)

\* x is over or under way when s is read; s comes in turn; its transitions were given.
Before(x, s) == \A i \in 1 .. Len(s) : Past(x, s[i])
InTurn(s) == \A i, j \in 1 .. Len(s) : i < j /\ Dated(s[i]) => Past(s[i].id, s[j])
Given(s, n) == \A i \in 1 .. Len(s) : Dated(s[i]) => s[i].id < n

\* Reading keeps the turn, and what is read comes before what is left.
LEMMA TurnTail ==
    ASSUME NEW s, OKInbox(s), s # <<>>, NEW n \in Nat, InTurn(s), Given(s, n)
    PROVE  /\ InTurn(Tail(s)) /\ Given(Tail(s), n)
           /\ \A x \in Int : Before(x, s) => Before(x, Tail(s)) /\ Past(x, Head(s))
           /\ Dated(Head(s)) => Before(Head(s).id, Tail(s)) /\ Head(s).id < n
                                /\ Head(s).id \in Nat
  <1>1. /\ Len(s) \in Nat /\ Len(s) >= 1 /\ Len(Tail(s)) = Len(s) - 1 /\ Head(s) = s[1]
        /\ \A i \in 1 .. (Len(s) - 1) : Tail(s)[i] = s[i + 1]
    BY ListTail DEF OKInbox
  <1>2. \A i \in 1 .. Len(Tail(s)) : i + 1 \in 1 .. Len(s) /\ Tail(s)[i] = s[i + 1]
    BY <1>1
  <1>3. InTurn(Tail(s))
    <2> SUFFICES ASSUME NEW i \in 1 .. Len(Tail(s)), NEW j \in 1 .. Len(Tail(s)), i < j,
                        Dated(Tail(s)[i])
                 PROVE  Past(Tail(s)[i].id, Tail(s)[j])
      BY DEF InTurn
    <2>1. i + 1 \in 1 .. Len(s) /\ j + 1 \in 1 .. Len(s) /\ i + 1 < j + 1
      BY <1>1, <1>2
    <2> QED BY <1>2, <2>1 DEF InTurn
  <1>4. Given(Tail(s), n)
    BY <1>2 DEF Given
  <1>5. 1 \in 1 .. Len(s)
    BY <1>1
  <1>6. ASSUME NEW x \in Int, Before(x, s) PROVE Before(x, Tail(s)) /\ Past(x, Head(s))
    BY <1>1, <1>2, <1>5, <1>6 DEF Before
  <1>7. ASSUME Dated(Head(s))
        PROVE  Before(Head(s).id, Tail(s)) /\ Head(s).id < n /\ Head(s).id \in Nat
    <2>1. ASSUME NEW i \in 1 .. Len(Tail(s)) PROVE Past(s[1].id, Tail(s)[i])
      <3>1. i + 1 \in 1 .. Len(s) /\ 1 < i + 1
        BY <1>1, <1>2
      <3> QED BY <1>1, <1>2, <1>5, <1>7, <3>1 DEF InTurn
    <2>2. InOK(s[1])
      BY <1>5 DEF OKInbox
    <2> QED BY <1>1, <1>5, <1>7, <2>1, <2>2 DEF Before, Given, InOK, Dated, Later
  <1> QED BY <1>3, <1>4, <1>6, <1>7

\* A message of a later transition, or of the last without announcing it, keeps
\* the turn.
LEMMA TurnAppend ==
    ASSUME NEW s, OKInbox(s), NEW n \in Nat, InTurn(s), Given(s, n), NEW m, InOK(m), NEW k \in Nat,
           n <= k, Dated(m) => m.id < k /\ m.id >= n - 1 /\ (Later(m) => m.id >= n)
    PROVE  /\ InTurn(Append(s, m)) /\ Given(Append(s, m), k)
           /\ \A x \in Int : Before(x, s) /\ x < n => Before(x, Append(s, m))
  <1> DEFINE t == Append(s, m)
  <1>1. /\ Len(s) \in Nat /\ Len(t) = Len(s) + 1
        /\ \A i \in 1 .. Len(s) : t[i] = s[i]
        /\ t[Len(s) + 1] = m
    BY ListAppend DEF OKInbox
  <1> HIDE DEF t
  <1>2. \A i \in 1 .. Len(t) : i \in 1 .. Len(s) \/ (i = Len(s) + 1 /\ t[i] = m)
    BY <1>1
  <1>3. \A x \in Int : x < n => Past(x, m)
    <2> SUFFICES ASSUME NEW x \in Int, x < n, Dated(m) PROVE x <= m.id /\ (Later(m) => x < m.id)
      BY DEF Past
    <2>1. m.id \in Int
      BY DEF InOK, Dated, Later
    <2> QED BY <2>1
  <1>4. \A i \in 1 .. Len(s) : Dated(s[i]) => s[i].id \in Int /\ s[i].id < n
    BY DEF OKInbox, InOK, Given, Dated, Later
  <1>5. InTurn(t)
    <2> SUFFICES ASSUME NEW i \in 1 .. Len(t), NEW j \in 1 .. Len(t), i < j, Dated(t[i])
                 PROVE  Past(t[i].id, t[j])
      BY DEF InTurn
    <2>1. i \in 1 .. Len(s) /\ t[i] = s[i]
      BY <1>1, <1>2
    <2>2. CASE j \in 1 .. Len(s)
      BY <1>1, <2>1, <2>2 DEF InTurn
    <2>3. CASE j = Len(s) + 1
      BY <1>1, <1>3, <1>4, <2>1, <2>3
    <2> QED BY <1>2, <2>2, <2>3
  <1>6. Given(t, k)
    <2> SUFFICES ASSUME NEW i \in 1 .. Len(t), Dated(t[i]) PROVE t[i].id < k
      BY DEF Given
    <2>1. CASE i \in 1 .. Len(s)
      BY <1>1, <1>4, <2>1
    <2>2. CASE t[i] = m
      BY <2>2
    <2> QED BY <1>2, <2>1, <2>2
  <1>7. ASSUME NEW x \in Int, Before(x, s), x < n PROVE Before(x, t)
    BY <1>1, <1>2, <1>3, <1>7 DEF Before
  <1> QED BY <1>5, <1>6, <1>7 DEF t

-----------------------------------------------------------------------------
(* A transition that was announced goes before anything is proposed again.    *)

\* The word for it.
Go(m, k) == m.op = "execute" /\ m.id = k

\* Nothing is proposed after the i-th message before the word for transition k.
Awaited(k, s, i) == \A j \in 1 .. Len(s) : i < j /\ s[j].op = "proposals" =>
                        \E l \in 1 .. Len(s) : i < l /\ l < j /\ Go(s[l], k)
Goes(k, s, i) == \E l \in 1 .. Len(s) : i < l /\ Go(s[l], k)

\* Reading a message that is not the word to go leaves it to be read.
LEMMA AwaitedTail ==
    ASSUME NEW s, IsList(s), s # <<>>, NEW k, NEW i \in Nat,
           i >= 1 \/ ~Go(Head(s), k)
    PROVE  LET h == IF i = 0 THEN 0 ELSE i - 1 IN
           /\ Awaited(k, s, i) => Awaited(k, Tail(s), h)
           /\ Goes(k, s, i) => Goes(k, Tail(s), h)
  <1> DEFINE h == IF i = 0 THEN 0 ELSE i - 1
  <1>1. /\ Len(s) \in Nat /\ Len(s) >= 1 /\ Len(Tail(s)) = Len(s) - 1 /\ Head(s) = s[1]
        /\ \A j \in 1 .. (Len(s) - 1) : Tail(s)[j] = s[j + 1]
    BY ListTail
  <1>2. ASSUME NEW l \in 1 .. Len(s), i < l, Go(s[l], k)
        PROVE  l - 1 \in 1 .. Len(Tail(s)) /\ h < l - 1 /\ Go(Tail(s)[l - 1], k)
    <2>1. l # 1
      BY <1>1, <1>2
    <2>2. l - 1 \in 1 .. (Len(s) - 1) /\ (l - 1) + 1 = l /\ h < l - 1
      BY <1>1, <2>1, <1>2
    <2> QED BY <1>1, <1>2, <2>2
  <1> HIDE DEF h
  <1>3. Goes(k, s, i) => Goes(k, Tail(s), h)
    BY <1>2 DEF Goes
  <1>4. ASSUME Awaited(k, s, i), NEW j \in 1 .. Len(Tail(s)), h < j, Tail(s)[j].op = "proposals"
        PROVE  \E l \in 1 .. Len(Tail(s)) : h < l /\ l < j /\ Go(Tail(s)[l], k)
    <2>1. j + 1 \in 1 .. Len(s) /\ i < j + 1 /\ s[j + 1] = Tail(s)[j]
      BY <1>1, <1>4 DEF h
    <2>2. PICK l \in 1 .. Len(s) : i < l /\ l < j + 1 /\ Go(s[l], k)
      BY <1>4, <2>1 DEF Awaited
    <2>3. l - 1 \in 1 .. Len(Tail(s)) /\ h < l - 1 /\ l - 1 < j /\ Go(Tail(s)[l - 1], k)
      BY <1>1, <1>2, <2>2
    <2> QED BY <2>3
  <1> QED BY <1>3, <1>4 DEF Awaited, h

\* A message more leaves it, and is proposals only if the word to go is there.
LEMMA AwaitedAppend ==
    ASSUME NEW s, IsList(s), NEW m, NEW k, NEW i \in Nat
    PROVE  /\ Awaited(k, s, i) /\ (m.op = "proposals" => Goes(k, s, i)) => Awaited(k, Append(s, m), i)
           /\ Goes(k, s, i) => Goes(k, Append(s, m), i)
           /\ i <= Len(s) /\ Go(m, k) => Goes(k, Append(s, m), i)
  <1> DEFINE t == Append(s, m)
  <1>1. /\ Len(s) \in Nat /\ Len(t) = Len(s) + 1
        /\ \A j \in 1 .. Len(s) : t[j] = s[j]
        /\ t[Len(s) + 1] = m
    BY ListAppend
  <1> HIDE DEF t
  <1>2. \A j \in 1 .. Len(s) : j \in 1 .. Len(t) /\ t[j] = s[j] /\ j < Len(s) + 1
    BY <1>1
  <1>3. Goes(k, s, i) => Goes(k, t, i)
    BY <1>2 DEF Goes
  <1>4. i <= Len(s) /\ Go(m, k) => Goes(k, t, i)
    BY <1>1 DEF Goes
  <1>5. ASSUME Awaited(k, s, i), m.op = "proposals" => Goes(k, s, i)
        PROVE  Awaited(k, t, i)
    <2> SUFFICES ASSUME NEW j \in 1 .. Len(t), i < j, t[j].op = "proposals"
                 PROVE  \E l \in 1 .. Len(t) : i < l /\ l < j /\ Go(t[l], k)
      BY DEF Awaited
    <2>1. CASE j \in 1 .. Len(s)
      <3>1. PICK l \in 1 .. Len(s) : i < l /\ l < j /\ Go(s[l], k)
        BY <1>2, <1>5, <2>1 DEF Awaited
      <3> QED BY <1>2, <3>1
    <2>2. CASE j = Len(s) + 1
      <3>1. PICK l \in 1 .. Len(s) : i < l /\ Go(s[l], k)
        BY <1>1, <1>5, <2>2 DEF Goes
      <3> QED BY <1>2, <2>2, <3>1
    <2> QED BY <1>1, <2>1, <2>2
  <1> QED BY <1>3, <1>4, <1>5 DEF t

-----------------------------------------------------------------------------
(* Why no client wraps frames for itself: the invariant.                      *)

\* The messages, whatever their order.
Said(s) == {s[i] : i \in 1 .. Len(s)}

\* Reading forgets,
LEMMA SaidTail ==
    ASSUME NEW s, IsList(s), s # <<>>
    PROVE  Said(Tail(s)) \subseteq Said(s) /\ Head(s) \in Said(s)
  <1>1. /\ Len(s) \in Nat /\ Len(s) >= 1 /\ Len(Tail(s)) = Len(s) - 1 /\ Head(s) = s[1]
        /\ \A i \in 1 .. (Len(s) - 1) : Tail(s)[i] = s[i + 1]
    BY ListTail
  <1>2. \A i \in 1 .. Len(Tail(s)) : i + 1 \in 1 .. Len(s) /\ Tail(s)[i] = s[i + 1]
    BY <1>1
  <1>3. 1 \in 1 .. Len(s)
    BY <1>1
  <1> QED BY <1>1, <1>2, <1>3 DEF Said

\* telling adds one.
LEMMA SaidAppend ==
    ASSUME NEW s, IsList(s), NEW m PROVE Said(Append(s, m)) \subseteq Said(s) \union {m}
  <1>1. /\ Len(s) \in Nat /\ Len(Append(s, m)) = Len(s) + 1
        /\ \A i \in 1 .. Len(s) : Append(s, m)[i] = s[i]
        /\ Append(s, m)[Len(s) + 1] = m
    BY ListAppend
  <1>2. \A i \in 1 .. Len(Append(s, m)) : i \in 1 .. Len(s) \/ i = Len(s) + 1
    BY <1>1
  <1> QED BY <1>1, <1>2 DEF Said

\* The types, by what the provers are good at.
FlagsOK ==
    /\ active \in BOOLEAN /\ groupReady \in BOOLEAN /\ mediaReady \in BOOLEAN
    /\ own \in [ready : BOOLEAN, won : BOOLEAN]
    /\ ws \in {"idle", "moved", "welcomed", "forget", "rebuild"}
    /\ tick \in {"idle", "checked", "rebuild"}
    /\ pending.have \in BOOLEAN /\ (pending.have => groupReady)

NumbersOK ==
    /\ version \in 0 .. 1 /\ versionNext \in 0 .. 1
    /\ group \in Groups /\ ratchet \in Groups
    /\ groupNext.base \in Groups /\ groupNext.number \in Nat
    /\ package \in 0 .. Packages
    /\ pending.have => pending.base \in Nat /\ pending.base < TopEpoch
    /\ pendingId \in Nat /\ lastDone \in Int

ServerOK ==
    /\ epoch \in 0 .. TopEpoch /\ live \in 0 .. epoch
    /\ spare \in 0 .. Packages /\ offered \in NoOffer .. Packages
    /\ winner \in [1 .. TopEpoch -> Nat]
    /\ channel \in 0 .. 1
    /\ nextId \in Nat /\ nextId # 0
    /\ move = NoMove \/ /\ move \in [to : Nat \ {0}, id : Nat \ {0}, told : BOOLEAN,
                                     ready : BOOLEAN]
                        /\ move.to = epoch /\ move.id = nextId - 1
    /\ offered # NoOffer => move = NoMove /\ epoch < TopEpoch
    /\ \A e \in 1 .. TopEpoch : winner[e] # 0 => e <= epoch

MailOK == OKInbox(inbox) /\ OKOutbox(outbox)

Types == FlagsOK /\ NumbersOK /\ ServerOK /\ MailOK

\* What a refusal is about was read before what is still to be read.
TurnOf(s, n) ==
    /\ InTurn(s) /\ Given(s, n)
    /\ Before(pendingId, s) /\ pendingId < n
    /\ Before(lastDone, s) /\ lastDone < n
    /\ \A o \in Said(outbox) : o.op = "invalid" => Before(o.id, s) /\ o.id < n

TurnInv == TurnOf(inbox, nextId)

\* The epoch a commit on this group leads to.
Target(base) == IF base > 0 THEN base + 1 ELSE 1

\* A commit of ours that was announced is the one that led to its epoch, and if
\* it is the last that was made, the copy is the group it led to.
CommitInv ==
    /\ \A o \in Said(outbox) : o.op = "commit" =>
          /\ o.number <= groupNext.number
          /\ o.number = groupNext.number => o.base = groupNext.base
    /\ \A m \in Said(inbox) : m.op = "announce" /\ m.mine =>
          /\ m.number # 0 /\ m.number <= groupNext.number
          /\ winner[m.base + 1] = m.number
          /\ m.number = groupNext.number => m.base + 1 = Target(groupNext.base)
    /\ own.won => groupNext.number # 0 /\ Swapped > 0

\* The client wraps frames, or will when its handler is done.
Wrapping == active /\ mediaReady /\ ws # "forget"

\* It was told of a transition and has not been told to go.
Awaits == Wrapping /\ pendingId > lastDone

\* Transition k goes on, and the client was told.
Underway(moving, k) == moving # NoMove /\ moving.id = k /\ moving.told

\* A transition that was announced is gone through with before anything else is
\* proposed, and a client that awaits one has kept what it needs for it.
WaitOf(s, moving) ==
    /\ \A i \in 1 .. Len(s) : Later(s[i]) =>
          /\ Awaited(s[i].id, s, i)
          /\ Goes(s[i].id, s, i) \/ Underway(moving, s[i].id)
    /\ Awaits =>
          /\ own.won \/ pending.have
          /\ Awaited(pendingId, s, 0)
          /\ Goes(pendingId, s, 0) \/ Underway(moving, pendingId)
          /\ \A o \in Said(outbox) : o.op = "invalid" => o.id # pendingId

WaitInv == WaitOf(inbox, move)

\* A client that wraps frames has done a transition it was let in with; between the
\* halves of a handler's rebuild it wraps none.
AloneInv ==
    /\ Wrapping => lastDone > 0
    /\ ws = "rebuild" => ~mediaReady
    /\ SenderFirst(inbox, mediaReady)

\* Unless a welcome came between the halves of the watchdog's, a client that wraps frames
\* is in a group the channel knows, and wraps none between those either.
InGroupInv == ~crossed => /\ Wrapping => group > 0
                          /\ tick = "rebuild" => ~Wrapping

ChannelInv == /\ KeysInv /\ InboxInv /\ Types /\ TurnInv /\ CommitInv /\ WaitInv /\ AloneInv
              /\ InGroupInv

-----------------------------------------------------------------------------
(* What a handler reads, says and remembers.                                  *)

\* The bounds, as the provers want them.
LEMMA ConstantBounds == Packages \in Nat /\ Packages >= 1 /\ TopEpoch \in Nat /\ TopEpoch >= 1
                        /\ MaxEpoch \in Nat /\ MaxEpoch <= TopEpoch
  BY DaveAssumption

\* A key package and its group.
LEMMA PackageOK ==
    ASSUME FlagsOK, NumbersOK, SendKeyPackage
    PROVE  /\ package' \in 0 .. Packages /\ group' \in Groups /\ groupReady' \in BOOLEAN
           /\ groupReady'
           /\ \E o : outbox' = Append(outbox, o) /\ OutOK(o) /\ o.op = "package"
  <1>1. package \in Nat /\ package % Packages \in 0 .. (Packages - 1)
    BY ConstantBounds DEF NumbersOK
  <1>2. package' \in 1 .. Packages
    BY <1>1, ConstantBounds DEF SendKeyPackage, After
  <1>3. group' \in Groups
    BY <1>2, ConstantBounds DEF SendKeyPackage, Groups, Fork
  <1> DEFINE o == [op |-> "package", package |-> package']
  <1>4. outbox' = Append(outbox, o) /\ groupReady'
    BY DEF SendKeyPackage, Say
  <1>5. o.op = "package" /\ o.package = package'
    OBVIOUS
  <1> HIDE DEF o
  <1>6. OutOK(o)
    BY <1>2, <1>5, ConstantBounds DEF OutOK
  <1> QED BY <1>2, <1>3, <1>4, <1>5, <1>6, ConstantBounds DEF SendKeyPackage

\* The things a handler may come down to.
Ignored == Stay /\ UNCHANGED client

Enters(m) ==
    /\ group' = m.epoch
    /\ groupReady' = TRUE /\ mediaReady' = TRUE
    /\ ws' = "welcomed" /\ lastDone' = m.id
    /\ Stay
    /\ UNCHANGED <<active, version, versionNext, groupNext, package, own, pending,
                   pendingId, known, recent, ratchet, tick>>

Refused(m) ==
    /\ Say([op |-> "invalid", id |-> m.id])
    /\ Forget /\ ws' = "rebuild"
    /\ UNCHANGED <<active, version, versionNext, group, groupNext, package, pendingId,
                   lastDone, tick>>

Applied(id) ==
    /\ group' = pending.base + 1
    /\ pending' = NoCommit /\ known' = {} /\ lastDone' = id
    /\ ws' = "moved"
    /\ Stay
    /\ UNCHANGED <<active, version, versionNext, groupNext, groupReady, mediaReady,
                   package, own, pendingId, recent, ratchet, tick>>

Going(id) == id = pendingId /\ (own.won \/ pending.have)

\* What a handler may come down to, and what is known of the message then.
LEMMA HandlerIs ==
    ASSUME Handle, NEW m, m = Head(inbox)
    PROVE  /\ ws = "idle" /\ inbox # <<>> /\ inbox' = Tail(inbox) /\ (tick = "rebuild" /\ ws' = "welcomed" => crossed')
           /\ UNCHANGED server
           /\ \/ /\ Ignored /\ (m.op = "execute" => m.id = lastDone \/ ~Going(m.id))
                 /\ \/ m.op = "welcome" /\ package = 0
                    \/ m.op = "announce" /\ ~groupReady
                    \/ m.op = "execute"
              \/ m.op = "sender" /\ OnSender
              \/ m.op = "proposals" /\ OnProposals(m)
              \/ m.op = "revoke" /\ OnRevoke
              \/ m.op = "welcome" /\ package # 0 /\ Enters(m)
              \/ (m.op = "welcome" \/ m.op = "execute") /\ Refused(m)
              \/ m.op = "announce" /\ groupReady /\ m.id = 0 /\ OnAnnounceNow(m)
              \/ m.op = "announce" /\ groupReady /\ m.id # 0 /\ OnAnnounceLater(m)
              \/ m.op = "prepare" /\ OnPrepare(m)
              \/ m.op = "epoch" /\ OnEpochOne
              \/ m.op = "execute" /\ versionNext # version /\ ChangeVersion
              \/ m.op = "execute" /\ m.id # lastDone /\ OwnWon(m.id) /\ Swap(m.id)
              \/ /\ m.op = "execute" /\ m.id = pendingId /\ pending.have /\ Applied(m.id)
                 /\ m.id # lastDone /\ pending.base = group
  <1>1. /\ ws = "idle" /\ inbox # <<>> /\ inbox' = Tail(inbox) /\ (tick = "rebuild" /\ ws' = "welcomed" => crossed')
        /\ UNCHANGED server
    BY DEF Handle
  <1>2. CASE m.op = "welcome" /\ OnWelcome(m)
    <2>1. m.op # "execute"
      BY <1>2
    <2> QED BY <1>1, <1>2, <2>1 DEF OnWelcome, Ignored, Enters, Refused
  <1>3. CASE m.op = "announce" /\ OnAnnounce(m)
    <2>1. m.op # "execute"
      BY <1>3
    <2> QED BY <1>1, <1>3, <2>1 DEF OnAnnounce, Ignored
  <1>4. CASE m.op = "execute" /\ OnExecute(m)
    <2>1. CASE versionNext # version
      BY <1>1, <1>4, <2>1 DEF OnExecute
    <2>2. CASE versionNext = version /\ m.id = lastDone
      BY <1>1, <1>4, <2>2 DEF OnExecute, Ignored
    <2>3. CASE versionNext = version /\ m.id # lastDone /\ OwnWon(m.id)
      BY <1>1, <1>4, <2>3 DEF OnExecute
    <2>4. CASE /\ versionNext = version /\ m.id # lastDone /\ ~OwnWon(m.id)
               /\ (~pending.have \/ m.id # pendingId)
      <3>1. Missed(m.id)
        BY <1>4, <2>4 DEF OnExecute
      <3>2. ~Going(m.id)
        BY <2>4 DEF Going, OwnWon
      <3> QED BY <1>1, <1>4, <3>1, <3>2 DEF Missed, Refused, Ignored
    <2>5. CASE /\ versionNext = version /\ m.id # lastDone /\ ~OwnWon(m.id)
               /\ ~(~pending.have \/ m.id # pendingId)
      <3>1. ApplyPending(m.id)
        BY <1>4, <2>5 DEF OnExecute
      <3> QED BY <1>1, <1>4, <2>5, <3>1 DEF ApplyPending, Processes, Refused, Applied
    <2> QED BY <2>1, <2>2, <2>3, <2>4, <2>5
  <1>5. CASE \/ m.op = "sender" /\ OnSender
             \/ m.op = "proposals" /\ OnProposals(m)
             \/ m.op = "revoke" /\ OnRevoke
             \/ m.op = "prepare" /\ OnPrepare(m)
             \/ m.op = "epoch" /\ OnEpochOne
    BY <1>1, <1>5
  <1> QED BY <1>2, <1>3, <1>4, <1>5 DEF Handle

\* What a handler tells the server.
LEMMA HandlerSays ==
    ASSUME FlagsOK, NumbersOK, Handle, NEW m, m = Head(inbox), InOK(m)
    PROVE  \/ outbox' = outbox
           \/ \E o : /\ outbox' = Append(outbox, o) /\ OutOK(o)
                     /\ o.op = "invalid" => o.id = 0 \/ (Dated(m) /\ o.id = m.id /\ ~mediaReady')
                     /\ o.op = "commit" => /\ o.base = groupNext'.base /\ o.number = groupNext'.number
                                         /\ o.base = group
  <1>1. CASE outbox' = outbox
    BY <1>1
  <1>2. CASE m.op = "sender" /\ OnSender
    <2>1. SendKeyPackage
      BY <1>2 DEF OnSender
    <2>2. PICK o : outbox' = Append(outbox, o) /\ OutOK(o) /\ o.op = "package"
      BY <2>1, PackageOK
    <2>3. o.op # "invalid" /\ o.op # "commit"
      BY <2>2
    <2> QED BY <2>2, <2>3
  <1>3. CASE m.op = "proposals" /\ OnProposals(m) /\ groupReady
    <2> DEFINE number == groupNext.number + 1
               o == [op |-> "commit", base |-> group, number |-> number]
    <2>1. /\ outbox' = Append(outbox, o)
          /\ groupNext' = [base |-> group, number |-> number]
      BY <1>3 DEF OnProposals, Say
    <2>2. o.op = "commit" /\ o.base = group /\ o.number = number
      OBVIOUS
    <2>3. number \in Nat /\ number # 0 /\ group \in Groups
      BY DEF NumbersOK
    <2>4. groupNext'.base = group /\ groupNext'.number = number
      BY <2>1
    <2> HIDE DEF o, number
    <2>5. OutOK(o) /\ o.op # "invalid"
      BY <2>2, <2>3 DEF OutOK
    <2> QED BY <2>1, <2>2, <2>4, <2>5
  <1>4. CASE (m.op = "welcome" \/ m.op = "execute") /\ Refused(m)
    <2> DEFINE o == [op |-> "invalid", id |-> m.id]
    <2>1. outbox' = Append(outbox, o) /\ ~mediaReady'
      BY <1>4 DEF Refused, Say, Forget
    <2>2. o.op = "invalid" /\ o.id = m.id
      OBVIOUS
    <2>3. m.id \in Nat /\ Dated(m)
      BY <1>4 DEF InOK, Dated
    <2> HIDE DEF o
    <2>4. OutOK(o) /\ o.op # "commit"
      BY <2>2, <2>3 DEF OutOK
    <2> QED BY <2>1, <2>2, <2>3, <2>4
  <1>5. CASE OnAnnounceNow(m)
    <2> DEFINE o == [op |-> IF Processes(m) THEN "ready" ELSE "invalid", id |-> 0]
    <2>1. outbox' = Append(outbox, o)
      BY <1>5 DEF OnAnnounceNow, Say
    <2>2. (o.op = "ready" \/ o.op = "invalid") /\ o.id = 0
      OBVIOUS
    <2> HIDE DEF o
    <2>3. OutOK(o) /\ o.op # "commit"
      BY <2>2 DEF OutOK
    <2> QED BY <2>1, <2>2, <2>3
  <1>6. CASE OnAnnounceLater(m) \/ OnPrepare(m)
    <2> DEFINE o == [op |-> "ready", id |-> m.id]
    <2>1. outbox' = Append(outbox, o)
      BY <1>6 DEF OnAnnounceLater, OnPrepare, Say
    <2>2. o.op = "ready"
      OBVIOUS
    <2> HIDE DEF o
    <2>3. OutOK(o) /\ o.op # "commit" /\ o.op # "invalid"
      BY <2>2 DEF OutOK
    <2> QED BY <2>1, <2>3
  <1>7. CASE \/ Ignored \/ OnRevoke \/ Enters(m) \/ OnEpochOne \/ ChangeVersion
             \/ Swap(m.id) \/ Applied(m.id) \/ (OnProposals(m) /\ ~groupReady)
    BY <1>1, <1>7 DEF Ignored, OnRevoke, Enters, OnEpochOne, ChangeVersion, Swap, Applied,
                      OnProposals, Stay
  <1> QED BY <1>2, <1>3, <1>4, <1>5, <1>6, <1>7, HandlerIs

\* What it keeps about transitions, and what becomes of its last commit.
LEMMA HandlerRemembers ==
    ASSUME Handle, NEW m, m = Head(inbox)
    PROVE  /\ pendingId' = pendingId \/ (Dated(m) /\ pendingId' = m.id)
           /\ lastDone' = lastDone \/ (Dated(m) /\ lastDone' = m.id)
           /\ \/ groupNext' = groupNext
              \/ /\ groupNext' = [base |-> group, number |-> groupNext.number + 1]
                 /\ ~own'.won
  <1>1. CASE Ignored
    BY <1>1 DEF Ignored, client
  <1>2. CASE OnSender \/ OnRevoke \/ OnPrepare(m) \/ OnEpochOne \/ ChangeVersion
    BY <1>2 DEF OnSender, OnRevoke, OnPrepare, OnEpochOne, ChangeVersion
  <1>3. CASE OnProposals(m)
    <2>1. pendingId' = pendingId /\ lastDone' = lastDone
      BY <1>3 DEF OnProposals
    <2>2. CASE groupReady
      <3>1. groupNext' = [base |-> group, number |-> groupNext.number + 1]
            /\ own' = [ready |-> TRUE, won |-> FALSE]
        BY <1>3, <2>2 DEF OnProposals
      <3> QED BY <2>1, <3>1
    <2>3. CASE ~groupReady
      BY <1>3, <2>1, <2>3 DEF OnProposals
    <2> QED BY <2>2, <2>3
  <1>4. CASE (m.op = "welcome" \/ m.op = "execute") /\ (Enters(m) \/ Refused(m))
    BY <1>4 DEF Enters, Refused, Dated
  <1>5. CASE OnAnnounceNow(m)
    BY <1>5 DEF OnAnnounceNow
  <1>6. CASE m.op = "announce" /\ m.id # 0 /\ OnAnnounceLater(m)
    BY <1>6 DEF OnAnnounceLater, Dated, Later
  <1>7. CASE m.op = "execute" /\ (Swap(m.id) \/ Applied(m.id))
    BY <1>7 DEF Swap, Applied, Dated
  <1> QED BY <1>1, <1>2, <1>3, <1>4, <1>5, <1>6, <1>7, HandlerIs

-----------------------------------------------------------------------------
(* The websocket thread keeps the invariant.                                  *)

\* The two ways a handler leaves the commit of ours.
LEMMA OwnOK ==
    /\ OwnNone \in [ready : BOOLEAN, won : BOOLEAN]
    /\ [ready |-> TRUE, won |-> FALSE] \in [ready : BOOLEAN, won : BOOLEAN]
  BY DEF OwnNone

\* A handler keeps the types.
LEMMA HandleTypes ==
    ASSUME Types, Handle PROVE Types'
  <1> DEFINE m == Head(inbox)
  <1>1. /\ ws = "idle" /\ inbox # <<>> /\ inbox' = Tail(inbox) /\ UNCHANGED server
    BY HandlerIs
  <1>2. InOK(m) /\ OKInbox(inbox')
    BY <1>1, InboxTail DEF Types, MailOK
  <1> HIDE DEF m
  <1>3. MailOK'
    <2>1. CASE outbox' = outbox
      BY <1>2, <2>1 DEF Types, MailOK
    <2>2. CASE \E o : outbox' = Append(outbox, o) /\ OutOK(o)
      BY <1>2, <2>2, OutboxAppend DEF Types, MailOK
    <2> QED BY <1>2, <2>1, <2>2, HandlerSays DEF m, Types
  <1>4. ServerOK'
    BY <1>1 DEF Types, ServerOK, server
  <1>5. FlagsOK' /\ NumbersOK'
    <2>0. FlagsOK /\ NumbersOK /\ (group \in Groups => 0 \in Groups)
      BY ConstantBounds DEF Types, Groups, Fork
    <2>1. CASE Ignored
      BY <2>0, <2>1 DEF Ignored, client, FlagsOK, NumbersOK
    <2>2. CASE OnSender
      <3>1. package' \in 0 .. Packages /\ group' \in Groups /\ groupReady'
        BY <2>0, <2>2, PackageOK DEF OnSender
      <3>2. FlagsOK'
        BY <2>0, <2>2, <3>1 DEF OnSender, FlagsOK
      <3>3. UNCHANGED <<version, versionNext, groupNext, ratchet, pending, pendingId, lastDone>>
        BY <2>2 DEF OnSender
      <3>4. NumbersOK'
        BY <2>0, <3>1, <3>3 DEF NumbersOK
      <3> QED BY <3>2, <3>4
    <2>3. CASE OnProposals(m)
      <3>10. own' = own \/ own' = [ready |-> TRUE, won |-> FALSE]
        BY <2>3 DEF OnProposals
      <3>0. own' \in [ready : BOOLEAN, won : BOOLEAN]
        BY <2>0, <3>10, OwnOK DEF FlagsOK
      <3>9. UNCHANGED <<active, groupReady, mediaReady, ws, tick, pending>>
        BY <2>3 DEF OnProposals
      <3>1. FlagsOK'
        BY <2>0, <3>0, <3>9 DEF FlagsOK
      <3>2. groupNext'.base \in Groups /\ groupNext'.number \in Nat
        BY <2>0, <2>3 DEF OnProposals, NumbersOK
      <3>3. UNCHANGED <<version, versionNext, group, ratchet, package, pending, pendingId, lastDone>>
        BY <2>3 DEF OnProposals
      <3>4. NumbersOK'
        BY <2>0, <3>2, <3>3 DEF NumbersOK
      <3> QED BY <3>1, <3>4
    <2>4. CASE OnRevoke \/ OnEpochOne
      <3>1. /\ UNCHANGED <<groupReady, mediaReady, tick, pending, own>>
            /\ active' = active \/ active' = TRUE
            /\ ws' = ws \/ ws' = "forget"
        BY <2>4 DEF OnRevoke, OnEpochOne
      <3>2. FlagsOK'
        BY <2>0, <3>1 DEF FlagsOK
      <3>3. NumbersOK'
        BY <2>0, <2>4 DEF OnRevoke, OnEpochOne, NumbersOK
      <3> QED BY <3>2, <3>3
    <2>5. CASE m.op = "welcome" /\ Enters(m)
      <3>1. m.epoch \in Groups /\ m.id \in Int
        BY <1>2, <2>5, ConstantBounds DEF InOK, Groups, Fork
      <3> QED BY <2>0, <2>5, <3>1 DEF Enters, FlagsOK, NumbersOK
    <2>6. CASE Refused(m)
      BY <2>0, <2>6 DEF Refused, Forget, FlagsOK, NumbersOK, NoCommit, OwnNone
    <2>7. CASE m.op = "announce" /\ OnAnnounceNow(m)
      <3>1. m.base + 1 \in Groups
        BY <1>2, <2>7, ConstantBounds DEF InOK, Groups, Fork
      <3> QED BY <2>0, <2>7, <3>1 DEF OnAnnounceNow, FlagsOK, NumbersOK
    <2>8. CASE m.op = "announce" /\ groupReady /\ OnAnnounceLater(m)
      <3>1. PICK mine \in {FALSE, own.ready /\ m.mine /\ m.number = groupNext.number} :
            /\ own' = [own EXCEPT !.won = mine]
            /\ pending' = IF mine THEN NoCommit
                          ELSE [have |-> TRUE, base |-> m.base, mine |-> m.mine]
            /\ pendingId' = m.id
        BY <2>8 DEF OnAnnounceLater
      <3>2. m.id \in Nat /\ m.base \in Nat /\ m.base < TopEpoch /\ m.mine \in BOOLEAN
        BY <1>2, <2>8 DEF InOK
      <3>3. mine \in BOOLEAN
        BY <1>2, <2>0, <2>8 DEF InOK, FlagsOK
      <3>4. own' \in [ready : BOOLEAN, won : BOOLEAN]
        BY <2>0, <3>1, <3>3 DEF FlagsOK
      <3>5. /\ pending'.have \in BOOLEAN
            /\ pending'.have => pending'.base \in Nat /\ pending'.base < TopEpoch
        BY <3>1, <3>2 DEF NoCommit
      <3>6. FlagsOK'
        BY <2>0, <2>8, <3>4, <3>5 DEF OnAnnounceLater, FlagsOK
      <3> QED BY <2>0, <2>8, <3>1, <3>2, <3>5, <3>6 DEF OnAnnounceLater, NumbersOK
    <2>9. CASE m.op = "prepare" /\ OnPrepare(m)
      BY <1>2, <2>0, <2>9 DEF OnPrepare, InOK, FlagsOK, NumbersOK
    <2>10. CASE ChangeVersion
      <3>10. /\ active' = TRUE \/ active' = FALSE
             /\ mediaReady' = mediaReady \/ mediaReady' = TRUE
        BY <2>10 DEF ChangeVersion
      <3>0. /\ own' = own \/ own' = OwnNone
            /\ pending' = pending \/ pending' = NoCommit
            /\ ws' = ws \/ ws' = "forget"
            /\ UNCHANGED <<tick, groupReady>>
        BY <2>10 DEF ChangeVersion
      <3>9. own' \in [ready : BOOLEAN, won : BOOLEAN]
        BY <2>0, <3>0, OwnOK DEF FlagsOK
      <3>11. pending'.have \in BOOLEAN /\ (pending'.have => groupReady')
        <4>1. CASE pending' = pending
          BY <2>0, <3>0, <4>1 DEF FlagsOK
        <4>2. CASE pending' = NoCommit
          <5>1. pending'.have = FALSE
            BY <4>2 DEF NoCommit
          <5> QED BY <5>1
        <4> QED BY <3>0, <4>1, <4>2
      <3>12. active' \in BOOLEAN /\ mediaReady' \in BOOLEAN /\ groupReady' \in BOOLEAN
        BY <2>0, <3>0, <3>10 DEF FlagsOK
      <3>13. /\ ws' \in {"idle", "moved", "welcomed", "forget", "rebuild"}
             /\ tick' \in {"idle", "checked", "rebuild"}
        BY <2>0, <3>0 DEF FlagsOK
      <3>1. FlagsOK'
        BY <3>9, <3>11, <3>12, <3>13 DEF FlagsOK
      <3>2. /\ pending' = pending \/ pending' = NoCommit
            /\ version' = versionNext
            /\ UNCHANGED <<versionNext, group, groupNext, ratchet, package, pendingId, lastDone>>
        BY <2>10 DEF ChangeVersion
      <3>3. NumbersOK'
        BY <2>0, <3>2 DEF NumbersOK, NoCommit
      <3> QED BY <3>1, <3>3
    <2>11. CASE m.op = "execute" /\ Swap(m.id)
      <3>1. Swapped \in Groups
        BY <2>0, ConstantBounds DEF Swapped, Groups, Fork, NumbersOK
      <3>2. m.id \in Int
        BY <1>2, <2>11 DEF InOK
      <3> QED BY <2>0, <2>11, <3>1, <3>2 DEF Swap, FlagsOK, NumbersOK, NoCommit, OwnNone
    <2>12. CASE m.op = "execute" /\ pending.have /\ Applied(m.id)
      <3>1. pending.base + 1 \in Groups
        BY <2>0, <2>12, ConstantBounds DEF Groups, Fork, NumbersOK
      <3>2. m.id \in Int
        BY <1>2, <2>12 DEF InOK
      <3> QED BY <2>0, <2>12, <3>1, <3>2 DEF Applied, FlagsOK, NumbersOK, NoCommit
    <2> QED BY <2>1, <2>2, <2>3, <2>4, <2>5, <2>6, <2>7, <2>8, <2>9, <2>10, <2>11, <2>12,
               HandlerIs DEF m
  <1> QED BY <1>3, <1>4, <1>5 DEF Types

\* What transition zero is about comes before all others.
LEMMA ZeroFirst == ASSUME NEW s, OKInbox(s) PROVE Before(0, s)
  BY DEF OKInbox, Before, Past, Dated, Later, InOK

\* A handler keeps what was read before what is still to be read.
LEMMA HandleTurn ==
    ASSUME Types, TurnInv, Handle PROVE TurnInv'
  <1> DEFINE m == Head(inbox)
  <1>1. inbox # <<>> /\ inbox' = Tail(inbox) /\ nextId' = nextId
    BY HandlerIs DEF server
  <1>2. OKInbox(inbox) /\ OKInbox(inbox') /\ InOK(m) /\ nextId \in Nat /\ nextId > 0
        /\ pendingId \in Int /\ lastDone \in Int
    BY <1>1, InboxTail DEF Types, MailOK, ServerOK, NumbersOK
  <1>3. /\ InTurn(inbox') /\ Given(inbox', nextId)
        /\ \A x \in Int : Before(x, inbox) => Before(x, inbox')
        /\ Dated(m) => Before(m.id, inbox') /\ m.id < nextId
    BY <1>1, <1>2, TurnTail DEF TurnInv, TurnOf
  <1> HIDE DEF m
  <1>4. /\ pendingId' = pendingId \/ (Dated(m) /\ pendingId' = m.id)
        /\ lastDone' = lastDone \/ (Dated(m) /\ lastDone' = m.id)
    BY HandlerRemembers DEF m
  <1>5. /\ Before(pendingId, inbox') /\ pendingId < nextId
        /\ Before(lastDone, inbox') /\ lastDone < nextId
    BY <1>2, <1>3 DEF TurnInv, TurnOf
  <1>6. /\ Before(pendingId', inbox') /\ pendingId' < nextId
        /\ Before(lastDone', inbox') /\ lastDone' < nextId
    BY <1>3, <1>4, <1>5
  <1>7. ASSUME NEW o \in Said(outbox), o.op = "invalid"
        PROVE  Before(o.id, inbox') /\ o.id < nextId
    <2>1. Before(o.id, inbox) /\ o.id < nextId
      BY <1>7 DEF TurnInv, TurnOf
    <2>2. o.id \in Int
      BY <1>7 DEF Types, MailOK, OKOutbox, OutOK, Said
    <2> QED BY <1>3, <2>1, <2>2
  <1>8. ASSUME NEW o \in Said(outbox'), o.op = "invalid"
        PROVE  Before(o.id, inbox') /\ o.id < nextId
    <2>1. CASE o \in Said(outbox)
      BY <1>7, <1>8, <2>1
    <2>2. CASE o \notin Said(outbox)
      <3>1. PICK p : /\ outbox' = Append(outbox, p)
                     /\ p.op = "invalid" => p.id = 0 \/ (Dated(m) /\ p.id = m.id)
        BY <1>2, <2>2, HandlerSays DEF m, Types
      <3>2. o = p
        BY <2>2, <3>1, SaidAppend DEF Types, MailOK, OKOutbox
      <3> QED BY <1>2, <1>3, <1>8, <3>1, <3>2, ZeroFirst
    <2> QED BY <2>1, <2>2
  <1> QED BY <1>1, <1>3, <1>6, <1>8 DEF TurnInv, TurnOf

\* Which handlers leave what a client that wraps frames goes by alone.
LEMMA HandlerWins ==
    ASSUME FlagsOK, Handle, NEW m, m = Head(inbox), own'.won
    PROVE  \/ own.won /\ pendingId' = pendingId
           \/ /\ m.op = "announce" /\ m.mine /\ m.number = groupNext.number
              /\ m.id # 0 /\ pendingId' = m.id /\ groupNext' = groupNext
  <1>1. CASE Ignored
    BY <1>1 DEF Ignored, client
  <1>2. CASE \/ OnSender \/ OnRevoke \/ OnPrepare(m) \/ OnEpochOne \/ Enters(m)
             \/ OnAnnounceNow(m) \/ Applied(m.id)
    BY <1>2 DEF OnSender, OnRevoke, OnPrepare, OnEpochOne, Enters, OnAnnounceNow, Applied
  <1>3. CASE OnProposals(m)
    BY <1>3 DEF OnProposals
  <1>4. CASE Refused(m) \/ Swap(m.id)
    BY <1>4 DEF Refused, Forget, Swap, OwnNone
  <1>5. CASE m.op = "announce" /\ m.id # 0 /\ OnAnnounceLater(m)
    <2>1. PICK mine \in {FALSE, own.ready /\ m.mine /\ m.number = groupNext.number} :
             own' = [own EXCEPT !.won = mine] /\ groupNext' = groupNext /\ pendingId' = m.id
      BY <1>5 DEF OnAnnounceLater
    <2>2. mine
      BY <2>1 DEF FlagsOK
    <2> QED BY <1>5, <2>1, <2>2
  <1>6. CASE ChangeVersion
    BY <1>6 DEF ChangeVersion, OwnNone
  <1> QED BY <1>1, <1>2, <1>3, <1>4, <1>5, <1>6, HandlerIs

\* A handler keeps what is known of the commits.
LEMMA HandleCommit ==
    ASSUME Types, CommitInv, Handle PROVE CommitInv'
  <1> DEFINE m == Head(inbox)
  <1>1. inbox # <<>> /\ inbox' = Tail(inbox) /\ winner' = winner
    BY HandlerIs DEF server
  <1>2. /\ Said(inbox') \subseteq Said(inbox) /\ m \in Said(inbox) /\ InOK(m)
    BY <1>1, SaidTail, InboxTail DEF Types, MailOK, OKInbox
  <1> HIDE DEF m
  <1>3. groupNext.number \in Nat /\ groupNext.base \in Int
    BY ConstantBounds DEF Types, NumbersOK, Groups, Fork
  <1>4. \/ groupNext' = groupNext
        \/ groupNext'.number = groupNext.number + 1 /\ ~own'.won
    BY HandlerRemembers DEF m
  <1>5. ASSUME NEW o \in Said(outbox'), o.op = "commit"
        PROVE  /\ o.number <= groupNext'.number
               /\ o.number = groupNext'.number => o.base = groupNext'.base
    <2>1. CASE o \in Said(outbox)
      <3>1. o.number \in Nat
        BY <1>5, <2>1 DEF Types, MailOK, OKOutbox, OutOK, Said
      <3>2. /\ o.number <= groupNext.number
            /\ o.number = groupNext.number => o.base = groupNext.base
        BY <1>5, <2>1 DEF CommitInv
      <3> QED BY <1>3, <1>4, <3>1, <3>2
    <2>2. CASE o \notin Said(outbox)
      <3>1. PICK p : /\ outbox' = Append(outbox, p) /\ OutOK(p)
                     /\ p.op = "commit" => p.base = groupNext'.base /\ p.number = groupNext'.number
        BY <1>2, <2>2, HandlerSays DEF m, Types
      <3>2. o = p
        BY <2>2, <3>1, SaidAppend DEF Types, MailOK, OKOutbox
      <3>3. o.number \in Nat /\ o.base = groupNext'.base /\ o.number = groupNext'.number
        BY <1>5, <3>1, <3>2 DEF OutOK
      <3> QED BY <3>3
    <2> QED BY <2>1, <2>2
  <1>6. ASSUME NEW a \in Said(inbox'), a.op = "announce", a.mine
        PROVE  /\ a.number # 0 /\ a.number <= groupNext'.number
               /\ winner'[a.base + 1] = a.number
               /\ a.number = groupNext'.number => a.base + 1 = Target(groupNext'.base)
    <2>1. a \in Said(inbox)
      BY <1>2
    <2>2. a.number \in Nat
      BY <1>6, <2>1 DEF Types, MailOK, OKInbox, InOK, Said
    <2>3. /\ a.number # 0 /\ a.number <= groupNext.number
          /\ winner[a.base + 1] = a.number
          /\ a.number = groupNext.number => a.base + 1 = Target(groupNext.base)
      BY <1>6, <2>1 DEF CommitInv
    <2> QED BY <1>1, <1>3, <1>4, <2>2, <2>3
  <1>7. ASSUME own'.won PROVE groupNext'.number # 0 /\ Swapped' > 0
    <2>1. groupNext' = groupNext
      BY <1>4, <1>7
    <2>2. CASE own.won
      BY <1>1, <2>1, <2>2 DEF CommitInv, Swapped
    <2>3. CASE m.op = "announce" /\ m.mine /\ m.number = groupNext.number
      <3>1. /\ m.number # 0 /\ winner[m.base + 1] = m.number
            /\ m.base + 1 = Target(groupNext.base)
            /\ m.base \in Nat /\ m.base < TopEpoch
        BY <1>2, <2>3 DEF CommitInv, InOK
      <3>2. /\ Target(groupNext.base) <= TopEpoch /\ Target(groupNext.base) > 0
            /\ winner[Target(groupNext.base)] = groupNext.number
        BY <2>3, <3>1, ConstantBounds
      <3>3. Swapped = Target(groupNext.base)
        BY <1>3, <3>2 DEF Swapped, Target
      <3>4. Swapped' = Swapped
        BY <1>1, <2>1 DEF Swapped
      <3> QED BY <2>1, <2>3, <3>1, <3>2, <3>3, <3>4
    <2> QED BY <1>7, <2>2, <2>3, HandlerWins DEF m, Types
  <1> QED BY <1>5, <1>6, <1>7 DEF CommitInv

\* A client that awaits a transition after a handler was told of it by this one, or
\* awaited it before and keeps what it needs for it.
LEMMA HandlerAwaits ==
    ASSUME Types, TurnInv, WaitInv, AloneInv, Handle, NEW m, m = Head(inbox), Awaits'
    PROVE  \/ m.op = "announce" /\ m.id # 0 /\ OnAnnounceLater(m)
           \/ /\ Awaits /\ pendingId' = pendingId
              /\ own'.won \/ pending'.have
              /\ ~Go(m, pendingId)
              /\ \A o \in Said(outbox') : o.op = "invalid" => o.id # pendingId
  <1>0. /\ active' /\ mediaReady' /\ ws' # "forget" /\ pendingId' > lastDone'
        /\ ws = "idle" /\ inbox # <<>>
    BY HandlerIs DEF Awaits, Wrapping
  <1>1. /\ InOK(m) /\ OKInbox(inbox) /\ pendingId \in Int /\ lastDone \in Int
        /\ Before(pendingId, inbox) /\ m = inbox[1] /\ 1 \in 1 .. Len(inbox)
    BY <1>0, InboxTail, ListTail DEF Types, MailOK, NumbersOK, TurnInv, TurnOf, OKInbox
  <1>2. Past(pendingId, m)
    BY <1>1 DEF Before
  <1>3. ASSUME m.op = "proposals", Awaited(pendingId, inbox, 0)
        PROVE  FALSE
    BY <1>1, <1>3 DEF Awaited
  <1>4. ASSUME Awaits
        PROVE  /\ own.won \/ pending.have
               /\ Awaited(pendingId, inbox, 0)
               /\ \A o \in Said(outbox) : o.op = "invalid" => o.id # pendingId
               /\ lastDone > 0 /\ pendingId > 0
    BY <1>1, <1>4 DEF WaitInv, WaitOf, AloneInv, Awaits
  <1>5. ASSUME UNCHANGED <<active, mediaReady, pendingId, lastDone>>
        PROVE  Awaits
    BY <1>0, <1>5 DEF Awaits, Wrapping
  <1>6. CASE Ignored /\ (m.op = "execute" => m.id = lastDone \/ ~Going(m.id))
    <2>1. Awaits /\ UNCHANGED <<outbox, own, pending, pendingId>>
      BY <1>5, <1>6 DEF Ignored, client, Stay
    <2>2. ~Go(m, pendingId)
      BY <1>1, <1>4, <1>6, <2>1 DEF Go, Going, Awaits
    <2> QED BY <1>4, <2>1, <2>2
  <1>7. CASE m.op = "proposals" /\ OnProposals(m)
    BY <1>3, <1>4, <1>5, <1>7 DEF OnProposals
  <1>8. CASE m.op = "sender" /\ OnSender
    <2>1. ~mediaReady
      BY <1>1, <1>8 DEF AloneInv, SenderFirst
    <2> QED BY <1>0, <1>8, <2>1 DEF OnSender
  <1>9. CASE m.op = "revoke" /\ OnRevoke
    BY <1>4, <1>5, <1>9 DEF OnRevoke, Stay, Go
  <1>10. CASE m.op = "welcome" /\ Enters(m)
    <2>1. pendingId <= m.id /\ m.id \in Nat
      BY <1>1, <1>2, <1>10 DEF Past, Dated, InOK
    <2> QED BY <1>0, <1>1, <1>10, <2>1 DEF Enters
  <1>11. CASE Refused(m)
    BY <1>0, <1>11 DEF Refused, Forget
  <1>12. CASE m.op = "announce" /\ OnAnnounceNow(m)
    <2>1. Awaits /\ UNCHANGED <<own, pending, pendingId>> /\ ~Go(m, pendingId)
      BY <1>5, <1>12 DEF OnAnnounceNow, Go
    <2> DEFINE o == [op |-> IF Processes(m) THEN "ready" ELSE "invalid", id |-> 0]
    <2>2. outbox' = Append(outbox, o) /\ o.id = 0
      BY <1>12 DEF OnAnnounceNow, Say
    <2> HIDE DEF o
    <2>3. Said(outbox') \subseteq Said(outbox) \union {o}
      BY <2>2, SaidAppend DEF Types, MailOK, OKOutbox
    <2> QED BY <1>1, <1>4, <2>1, <2>2, <2>3
  <1>13. CASE m.op = "prepare" /\ OnPrepare(m)
    <2>1. Awaits /\ UNCHANGED <<own, pending, pendingId>> /\ ~Go(m, pendingId)
      BY <1>5, <1>13 DEF OnPrepare, Go
    <2> DEFINE o == [op |-> "ready", id |-> m.id]
    <2>2. outbox' = Append(outbox, o) /\ o.op # "invalid"
      BY <1>13 DEF OnPrepare, Say
    <2> HIDE DEF o
    <2>3. Said(outbox') \subseteq Said(outbox) \union {o}
      BY <2>2, SaidAppend DEF Types, MailOK, OKOutbox
    <2> QED BY <1>4, <2>1, <2>2, <2>3
  <1>14. CASE OnEpochOne
    BY <1>0, <1>14 DEF OnEpochOne
  <1>15. CASE ChangeVersion
    BY <1>0, <1>15 DEF ChangeVersion
  <1>16. CASE m.op = "execute" /\ ((OwnWon(m.id) /\ Swap(m.id)) \/ (m.id = pendingId /\ Applied(m.id)))
    <2>1. m.id = pendingId /\ lastDone' = m.id /\ pendingId' = pendingId
      BY <1>16 DEF OwnWon, Swap, Applied
    <2> QED BY <1>0, <1>1, <2>1
  <1>17. CASE m.op = "announce" /\ m.id # 0 /\ OnAnnounceLater(m)
    BY <1>17
  <1>18. \/ Ignored /\ (m.op = "execute" => m.id = lastDone \/ ~Going(m.id))
         \/ m.op = "sender" /\ OnSender
         \/ m.op = "proposals" /\ OnProposals(m)
         \/ m.op = "revoke" /\ OnRevoke
         \/ m.op = "welcome" /\ Enters(m)
         \/ Refused(m)
         \/ m.op = "announce" /\ OnAnnounceNow(m)
         \/ m.op = "announce" /\ m.id # 0 /\ OnAnnounceLater(m)
         \/ m.op = "prepare" /\ OnPrepare(m)
         \/ OnEpochOne
         \/ ChangeVersion
         \/ m.op = "execute" /\ ((OwnWon(m.id) /\ Swap(m.id)) \/ (m.id = pendingId /\ Applied(m.id)))
    BY HandlerIs
  <1> QED BY <1>6, <1>7, <1>8, <1>9, <1>10, <1>11, <1>12, <1>13, <1>14, <1>15, <1>16, <1>17, <1>18

\* A handler keeps what is awaited.
LEMMA HandleWait ==
    ASSUME Types, TurnInv, WaitInv, AloneInv, Handle PROVE WaitInv'
  <1> DEFINE m == Head(inbox)
  <1>1. inbox # <<>> /\ inbox' = Tail(inbox) /\ move' = move /\ IsList(inbox)
    BY HandlerIs DEF server, Types, MailOK, OKInbox
  <1>2. /\ Len(inbox) \in Nat /\ Len(inbox) >= 1 /\ Len(inbox') = Len(inbox) - 1
        /\ m = inbox[1] /\ 1 \in 1 .. Len(inbox)
        /\ \A i \in 1 .. (Len(inbox) - 1) : inbox'[i] = inbox[i + 1]
    BY <1>1, ListTail
  <1> HIDE DEF m
  <1>4. ASSUME NEW i \in 1 .. Len(inbox), Later(inbox[i])
        PROVE  /\ Awaited(inbox[i].id, inbox', i - 1)
               /\ Goes(inbox[i].id, inbox', i - 1) \/ Underway(move, inbox[i].id)
    <2>1. /\ Awaited(inbox[i].id, inbox, i)
          /\ Goes(inbox[i].id, inbox, i) \/ Underway(move, inbox[i].id)
      BY <1>4 DEF WaitInv, WaitOf
    <2>2. i \in Nat /\ i >= 1
      BY <1>2
    <2> QED BY <1>1, <2>1, <2>2, AwaitedTail
  <1>5. ASSUME NEW i \in 1 .. Len(inbox'), Later(inbox'[i])
        PROVE  /\ Awaited(inbox'[i].id, inbox', i)
               /\ Goes(inbox'[i].id, inbox', i) \/ Underway(move, inbox'[i].id)
    <2>1. i + 1 \in 1 .. Len(inbox) /\ inbox'[i] = inbox[i + 1] /\ (i + 1) - 1 = i
      BY <1>2
    <2> QED BY <1>4, <1>5, <2>1
  <1>6. ASSUME Awaits'
        PROVE  /\ own'.won \/ pending'.have
               /\ Awaited(pendingId', inbox', 0)
               /\ Goes(pendingId', inbox', 0) \/ Underway(move, pendingId')
               /\ \A o \in Said(outbox') : o.op = "invalid" => o.id # pendingId'
    <2>1. CASE m.op = "announce" /\ m.id # 0 /\ OnAnnounceLater(m)
      <3>1. Later(m)
        BY <2>1 DEF Later
      <3>2. pendingId' = m.id /\ outbox' = Append(outbox, [op |-> "ready", id |-> m.id])
        BY <2>1 DEF OnAnnounceLater, Say
      <3>3. own'.won \/ pending'.have
        <4>1. PICK mine \in {FALSE, own.ready /\ m.mine /\ m.number = groupNext.number} :
              /\ own' = [own EXCEPT !.won = mine]
              /\ pending' = IF mine THEN NoCommit
                            ELSE [have |-> TRUE, base |-> m.base, mine |-> m.mine]
          BY <2>1 DEF OnAnnounceLater
        <4>2. CASE mine
          BY <4>1, <4>2 DEF Types, FlagsOK
        <4>3. CASE ~mine
          BY <4>1, <4>3
        <4> QED BY <4>2, <4>3
      <3>4. /\ Awaited(m.id, inbox', 0)
            /\ Goes(m.id, inbox', 0) \/ Underway(move, m.id)
        <4>1. 1 - 1 = 0
          OBVIOUS
        <4> QED BY <1>2, <1>4, <3>1, <4>1
      <3>5. ASSUME NEW o \in Said(outbox'), o.op = "invalid"
            PROVE  o.id # m.id
        <4> DEFINE r == [op |-> "ready", id |-> m.id]
        <4>1. r.op # "invalid" /\ outbox' = Append(outbox, r)
          BY <3>2
        <4> HIDE DEF r
        <4>2. o \in Said(outbox)
          BY <3>5, <4>1, SaidAppend DEF Types, MailOK, OKOutbox
        <4>3. Past(o.id, m)
          BY <1>2, <3>5, <4>2 DEF TurnInv, TurnOf, Before
        <4>4. o.id \in Int /\ m.id \in Int
          BY <1>2, <3>1, <3>5, <4>2 DEF Types, MailOK, OKOutbox, OKInbox, InOK, OutOK, Said, Later
        <4> QED BY <3>1, <4>3, <4>4 DEF Past, Dated
      <3> QED BY <3>2, <3>3, <3>4, <3>5
    <2>2. CASE /\ Awaits /\ pendingId' = pendingId
               /\ own'.won \/ pending'.have
               /\ ~Go(m, pendingId)
               /\ \A o \in Said(outbox') : o.op = "invalid" => o.id # pendingId
      <3>1. /\ Awaited(pendingId, inbox, 0)
            /\ Goes(pendingId, inbox, 0) \/ Underway(move, pendingId)
        BY <2>2 DEF WaitInv, WaitOf
      <3>2. /\ Awaited(pendingId, inbox', 0)
            /\ Goes(pendingId, inbox', 0) \/ Underway(move, pendingId)
        <4>1. 0 \in Nat /\ ~Go(Head(inbox), pendingId)
          BY <2>2 DEF m
        <4> QED BY <1>1, <3>1, <4>1, AwaitedTail
      <3> QED BY <2>2, <3>2
    <2> QED BY <1>6, <2>1, <2>2, HandlerAwaits DEF m
  <1> QED BY <1>1, <1>5, <1>6 DEF WaitInv, WaitOf, Underway

\* No handler leaves a client that wraps frames without a transition it has done.
LEMMA HandleAlone ==
    ASSUME Types, TurnInv, AloneInv, Handle PROVE AloneInv'
  <1> DEFINE m == Head(inbox)
  <1>1. ws = "idle" /\ inbox # <<>> /\ inbox' = Tail(inbox)
    BY HandlerIs
  <1>2. /\ InOK(m) /\ lastDone \in Int /\ m = inbox[1] /\ 1 \in 1 .. Len(inbox)
        /\ Before(lastDone, inbox)
    BY <1>1, InboxTail, ListTail DEF Types, MailOK, OKInbox, NumbersOK, TurnInv, TurnOf
  <1>3. Past(lastDone, m)
    BY <1>2 DEF Before
  <1>4. SenderFirst(inbox', mediaReady')
    BY <1>1, TailHasNoSender, NoSenderIsFirst DEF Types, MailOK, OKInbox, IsList, AloneInv
  <1> HIDE DEF m
  <1>5. ASSUME ws' \in {"idle", "moved"}, UNCHANGED <<active, mediaReady, lastDone>>
        PROVE  AloneInv'
    BY <1>1, <1>4, <1>5 DEF AloneInv, Wrapping
  <1>6. ASSUME ws' = "forget" \/ ~active' , ws' # "rebuild"
        PROVE  AloneInv'
    BY <1>1, <1>4, <1>6 DEF AloneInv, Wrapping
  <1>7. CASE Ignored
    BY <1>1, <1>5, <1>7 DEF Ignored, client
  <1>8. CASE OnSender \/ OnProposals(m) \/ OnRevoke \/ OnPrepare(m) \/ OnAnnounceLater(m)
             \/ OnAnnounceNow(m)
    BY <1>1, <1>5, <1>8 DEF OnSender, OnProposals, OnRevoke, OnPrepare, OnAnnounceLater, OnAnnounceNow
  <1>9. CASE m.op = "welcome" /\ Enters(m)
    <2>1. lastDone' > 0 /\ ws' = "welcomed"
      BY <1>2, <1>9 DEF Enters, InOK
    <2> QED BY <1>1, <1>4, <2>1 DEF AloneInv, Wrapping
  <1>10. CASE Refused(m)
    BY <1>1, <1>4, <1>10 DEF Refused, Forget, AloneInv, Wrapping
  <1>11. CASE OnEpochOne
    BY <1>6, <1>11 DEF OnEpochOne
  <1>12. CASE ChangeVersion
    BY <1>1, <1>6, <1>12 DEF ChangeVersion
  <1>13. CASE m.op = "execute" /\ (Swap(m.id) \/ Applied(m.id))
    <2>1. lastDone' = m.id /\ ws' = "moved" /\ UNCHANGED <<active, mediaReady>>
      BY <1>13 DEF Swap, Applied
    <2>2. lastDone <= m.id /\ m.id \in Nat
      BY <1>2, <1>3, <1>13 DEF Past, Dated, InOK
    <2>3. Wrapping' => lastDone' > 0
      BY <1>1, <1>2, <2>1, <2>2 DEF AloneInv, Wrapping
    <2> QED BY <1>1, <1>4, <2>1, <2>3 DEF AloneInv
  <1> QED BY <1>7, <1>8, <1>9, <1>10, <1>11, <1>12, <1>13, HandlerIs DEF m

\* What the properties remember stays so.
LEMMA Remembers ==
    ASSUME [Next]_vars PROVE (crossed => crossed') /\ (turnedDown => turnedDown')
  <1>1. CASE UNCHANGED vars
    BY <1>1 DEF vars, history
  <1>2. CASE Handle
    BY <1>2 DEF Handle
  <1>3. CASE ResetRatchets \/ Welcomed \/ ForgetFirst \/ Rebuild \/ TickThread
    BY <1>3 DEF ResetRatchets, Welcomed, ForgetFirst, Rebuild, TickThread, CheckMedia, UseRatchet,
                Watchdog, WatchdogRebuild, FiveSeconds, history
  <1>4. CASE Server
    BY <1>4 DEF Server, Take, Offer, OtherCommit, Execute, history
  <1>5. CASE Upsets
    BY <1>5 DEF Upsets, Downgrade, StartOver, Revoke, Repeat, Rehandshake, Upset, history
  <1> QED BY <1>1, <1>2, <1>3, <1>4, <1>5 DEF Next, WsThread

\* No handler leaves a client that wraps frames with a group of its own making, if it takes
\* no welcome while the watchdog is between the halves of its rebuild.
LEMMA HandleInGroup ==
    ASSUME Types, TurnInv, CommitInv, WaitInv, AloneInv, InGroupInv, Handle PROVE InGroupInv'
  <1> SUFFICES ASSUME ~crossed'
               PROVE  (Wrapping' => group' > 0) /\ (tick' = "rebuild" => ~Wrapping')
    BY DEF InGroupInv
  <1> DEFINE m == Head(inbox)
  <1>1. /\ ws = "idle" /\ inbox # <<>> /\ inbox' = Tail(inbox)
        /\ tick = "rebuild" => ws' # "welcomed"
    BY HandlerIs
  <1>2. /\ InOK(m) /\ lastDone \in Int /\ pendingId \in Int /\ m = inbox[1] /\ 1 \in 1 .. Len(inbox)
        /\ Before(lastDone, inbox)
    BY <1>1, InboxTail, ListTail DEF Types, MailOK, OKInbox, NumbersOK, TurnInv, TurnOf
  <1>3. (Wrapping => group > 0) /\ (tick = "rebuild" => ~Wrapping)
    BY DEF Handle, InGroupInv
  <1> HIDE DEF m
  <1>4. ASSUME UNCHANGED <<active, mediaReady, tick>>, UNCHANGED group \/ group' > 0
        PROVE  (Wrapping' => group' > 0) /\ (tick' = "rebuild" => ~Wrapping')
    BY <1>1, <1>3, <1>4 DEF Wrapping
  <1>5. ASSUME ~Wrapping'
        PROVE  (Wrapping' => group' > 0) /\ (tick' = "rebuild" => ~Wrapping')
    BY <1>5
  <1>6. CASE Ignored \/ OnProposals(m) \/ OnRevoke \/ OnPrepare(m) \/ OnAnnounceLater(m)
    BY <1>4, <1>6 DEF Ignored, client, OnProposals, OnRevoke, OnPrepare, OnAnnounceLater
  <1>7. CASE m.op = "sender" /\ OnSender
    <2>1. ~mediaReady
      BY <1>2, <1>7 DEF AloneInv, SenderFirst
    <2>2. ~mediaReady'
      BY <1>7, <2>1 DEF OnSender
    <2> QED BY <1>5, <2>2 DEF Wrapping
  <1>8. CASE m.op = "welcome" /\ Enters(m)
    <2>1. group' > 0 /\ ws' = "welcomed" /\ tick' = tick
      BY <1>2, <1>8 DEF Enters, InOK
    <2> QED BY <1>1, <2>1
  <1>9. CASE Refused(m) \/ OnEpochOne \/ ChangeVersion
    <2>1. ~Wrapping'
      BY <1>9 DEF Refused, Forget, OnEpochOne, ChangeVersion, Wrapping
    <2> QED BY <1>5, <2>1
  <1>10. CASE m.op = "announce" /\ OnAnnounceNow(m)
    <2>1. m.base + 1 > 0
      BY <1>2, <1>10 DEF InOK
    <2>2. UNCHANGED <<active, mediaReady, tick>> /\ (UNCHANGED group \/ group' > 0)
      BY <1>10, <2>1 DEF OnAnnounceNow
    <2> QED BY <1>4, <2>2
  <1>11. CASE m.op = "execute" /\ m.id # lastDone /\ OwnWon(m.id) /\ Swap(m.id)
    <2>1. /\ m.id = pendingId /\ group' = Swapped /\ ws' = "moved"
          /\ UNCHANGED <<active, mediaReady, tick>>
          /\ own.won \/ ~pending.have
      BY <1>11 DEF OwnWon, Swap
    <2>2. ASSUME Wrapping PROVE Swapped > 0
      <3>1. lastDone <= m.id /\ m.id \in Nat
        BY <1>2, <1>11 DEF Before, Past, Dated, InOK
      <3>2. Awaits
        BY <1>2, <1>11, <2>1, <2>2, <3>1 DEF Awaits
      <3>3. own.won
        BY <2>1, <3>2 DEF WaitInv, WaitOf
      <3> QED BY <3>3 DEF CommitInv
    <2> QED BY <1>1, <1>3, <2>1, <2>2 DEF Wrapping
  <1>12. CASE m.op = "execute" /\ pending.have /\ Applied(m.id)
    <2>1. pending.base + 1 > 0
      BY <1>12 DEF Types, NumbersOK
    <2>2. group' > 0 /\ UNCHANGED <<active, mediaReady, tick>>
      BY <1>12, <2>1 DEF Applied
    <2> QED BY <1>4, <2>2
  <1> QED BY <1>6, <1>7, <1>8, <1>9, <1>10, <1>11, <1>12, HandlerIs DEF m

\* Nor does any other step.
LEMMA InGroupStep ==
    ASSUME Types, TurnInv, CommitInv, WaitInv, AloneInv, InGroupInv, [Next]_vars PROVE InGroupInv'
  <1>1. CASE Handle
    BY <1>1, HandleInGroup
  <1>2. CASE ~Handle
    <2> SUFFICES ASSUME ~crossed'
                 PROVE  (Wrapping' => group' > 0) /\ (tick' = "rebuild" => ~Wrapping')
      BY DEF InGroupInv
    <2>1. (Wrapping => group > 0) /\ (tick = "rebuild" => ~Wrapping)
      BY Remembers DEF InGroupInv
    <2>2. ASSUME UNCHANGED <<active, mediaReady, group>>, Wrapping' => Wrapping,
                 tick' = tick \/ tick' # "rebuild"
          PROVE  (Wrapping' => group' > 0) /\ (tick' = "rebuild" => ~Wrapping')
      BY <2>1, <2>2
    <2>3. CASE UNCHANGED client
      BY <2>2, <2>3 DEF client, Wrapping
    <2>4. CASE ResetRatchets \/ Welcomed \/ CheckMedia \/ UseRatchet \/ FiveSeconds
      BY <2>2, <2>4 DEF ResetRatchets, Welcomed, CheckMedia, UseRatchet, FiveSeconds, Wrapping
    <2>5. CASE ForgetFirst \/ Watchdog \/ Rebuild \/ Rehandshake
      <3>1. ~mediaReady'
        BY <2>5 DEF ForgetFirst, Watchdog, Rebuild, Rehandshake, Forget, AloneInv
      <3> QED BY <3>1 DEF Wrapping
    <2>6. CASE WatchdogRebuild
      <3>1. tick = "rebuild" /\ UNCHANGED <<active, mediaReady, ws>>
        BY <2>6 DEF WatchdogRebuild
      <3> QED BY <2>1, <3>1 DEF Wrapping
    <2>7. CASE Server \/ Downgrade \/ StartOver \/ Revoke \/ Repeat
      BY <2>3, <2>7 DEF Server, Take, Offer, OtherCommit, Execute, Downgrade, StartOver, Revoke,
                        Repeat, Upset
    <2>8. CASE UNCHANGED vars
      BY <2>3, <2>8 DEF vars
    <2> QED BY <1>2, <2>4, <2>5, <2>6, <2>7, <2>8 DEF Next, WsThread, TickThread, Upsets
  <1> QED BY <1>1, <1>2

-----------------------------------------------------------------------------
(* What a message that is added does to the order of things.                  *)

\* A message more keeps the turn.
LEMMA TurnGrows ==
    ASSUME Types, NEW s, OKInbox(s), NEW n \in Nat, TurnOf(s, n), NEW m, InOK(m),
           NEW k \in Nat, n <= k, Dated(m) => m.id < k /\ m.id >= n - 1 /\ (Later(m) => m.id >= n)
    PROVE  TurnOf(Append(s, m), k) /\ OKInbox(Append(s, m))
  <1>1. /\ InTurn(Append(s, m)) /\ Given(Append(s, m), k)
        /\ \A x \in Int : Before(x, s) /\ x < n => Before(x, Append(s, m))
    BY TurnAppend DEF TurnOf
  <1>2. OKInbox(Append(s, m))
    BY InboxAppend
  <1>3. pendingId \in Int /\ lastDone \in Int
    BY DEF Types, NumbersOK
  <1>4. /\ Before(pendingId, Append(s, m)) /\ pendingId < k
        /\ Before(lastDone, Append(s, m)) /\ lastDone < k
    BY <1>1, <1>3 DEF TurnOf
  <1>5. ASSUME NEW o \in Said(outbox), o.op = "invalid"
        PROVE  Before(o.id, Append(s, m)) /\ o.id < k
    <2>1. o.id \in Int
      BY <1>5 DEF Types, MailOK, OKOutbox, OutOK, Said
    <2>2. Before(o.id, s) /\ o.id < n
      BY <1>5 DEF TurnOf
    <2> QED BY <1>1, <2>1, <2>2
  <1> QED BY <1>1, <1>2, <1>4, <1>5 DEF TurnOf

\* A message more keeps what is awaited: proposals come only when nothing is under
\* way, and a transition ends with the word to go.
LEMMA WaitGrows ==
    ASSUME NEW s, IsList(s), NEW moving, WaitOf(s, moving), NEW m, NEW after,
           m.op = "proposals" => \A k : ~Underway(moving, k),
           \A k : Underway(moving, k) => Underway(after, k) \/ Go(m, k),
           Later(m) => Underway(after, m.id)
    PROVE  WaitOf(Append(s, m), after)
  <1> DEFINE t == Append(s, m)
  <1>1. /\ Len(s) \in Nat /\ Len(t) = Len(s) + 1 /\ IsList(t)
        /\ \A i \in 1 .. Len(s) : t[i] = s[i]
        /\ t[Len(s) + 1] = m
    BY ListAppend
  <1>2. ASSUME NEW k, NEW i \in Nat, i <= Len(s), Awaited(k, s, i),
               Goes(k, s, i) \/ Underway(moving, k)
        PROVE  Awaited(k, t, i) /\ (Goes(k, t, i) \/ Underway(after, k))
    <2>1. m.op = "proposals" => Goes(k, s, i)
      BY <1>2
    <2>2. Awaited(k, t, i)
      BY <1>2, <2>1, AwaitedAppend
    <2>3. CASE Goes(k, s, i)
      BY <2>2, <2>3, AwaitedAppend
    <2>4. CASE Underway(moving, k) /\ Go(m, k)
      BY <1>2, <2>2, <2>4, AwaitedAppend
    <2> QED BY <1>2, <2>2, <2>3, <2>4
  <1> HIDE DEF t
  <1>3. ASSUME NEW i \in 1 .. Len(t), Later(t[i])
        PROVE  /\ Awaited(t[i].id, t, i)
               /\ Goes(t[i].id, t, i) \/ Underway(after, t[i].id)
    <2>1. CASE i \in 1 .. Len(s)
      <3>1. t[i] = s[i] /\ i \in Nat /\ i <= Len(s)
        BY <1>1, <2>1
      <3>2. Awaited(s[i].id, s, i) /\ (Goes(s[i].id, s, i) \/ Underway(moving, s[i].id))
        BY <1>3, <2>1, <3>1 DEF WaitOf
      <3> QED BY <1>2, <3>1, <3>2
    <2>2. CASE i = Len(s) + 1
      <3>1. Awaited(m.id, t, i)
        BY <1>1, <2>2 DEF Awaited
      <3> QED BY <1>1, <1>3, <2>2, <3>1
    <2> QED BY <1>1, <2>1, <2>2
  <1>4. ASSUME Awaits
        PROVE  /\ own.won \/ pending.have
               /\ Awaited(pendingId, t, 0)
               /\ Goes(pendingId, t, 0) \/ Underway(after, pendingId)
               /\ \A o \in Said(outbox) : o.op = "invalid" => o.id # pendingId
    <2>1. /\ own.won \/ pending.have
          /\ Awaited(pendingId, s, 0)
          /\ Goes(pendingId, s, 0) \/ Underway(moving, pendingId)
          /\ \A o \in Said(outbox) : o.op = "invalid" => o.id # pendingId
      BY <1>4 DEF WaitOf
    <2>2. Awaited(pendingId, t, 0) /\ (Goes(pendingId, t, 0) \/ Underway(after, pendingId))
      BY <1>1, <1>2, <2>1
    <2> QED BY <2>1, <2>2
  <1>5. WaitOf(t, after)
    BY <1>3, <1>4 DEF WaitOf
  <1> QED BY <1>5 DEF t

-----------------------------------------------------------------------------
(* The steps of the client that read nothing.                                 *)

\* One that keeps what a transition goes by, or leaves no keys to wrap with.
LEMMA QuietClient ==
    ASSUME Types, TurnInv, CommitInv, WaitInv,
           UNCHANGED <<server, inbox, pendingId, lastDone, groupNext, active>>,
           \/ outbox' = outbox
           \/ \E o : outbox' = Append(outbox, o) /\ OutOK(o) /\ o.op \notin {"invalid", "commit"},
           own' = own \/ own' = OwnNone,
           \/ ~Wrapping'
           \/ UNCHANGED <<own, pending, mediaReady>> /\ (ws' = "forget" <=> ws = "forget")
    PROVE  ServerOK' /\ MailOK' /\ TurnInv' /\ CommitInv' /\ WaitInv'
  <1>1. UNCHANGED <<epoch, live, winner, member, spare, channel, offered, move, nextId>>
    BY DEF server
  <1>2. ServerOK'
    BY <1>1 DEF Types, ServerOK
  <1>3. MailOK' /\ \A o \in Said(outbox') : o.op \in {"invalid", "commit"} => o \in Said(outbox)
    <2>1. CASE outbox' = outbox
      BY <2>1 DEF Types, MailOK
    <2>2. ASSUME NEW o, outbox' = Append(outbox, o), OutOK(o), o.op \notin {"invalid", "commit"}
          PROVE  MailOK' /\ \A p \in Said(outbox') : p.op \in {"invalid", "commit"} => p \in Said(outbox)
      BY <2>2, OutboxAppend, SaidAppend DEF Types, MailOK, OKOutbox
    <2> QED BY <2>1, <2>2
  <1>4. TurnInv'
    BY <1>1, <1>3 DEF TurnInv, TurnOf
  <1>5. CommitInv'
    <2>1. Swapped' = Swapped
      BY <1>1 DEF Swapped
    <2>2. own'.won => own.won
      BY DEF OwnNone
    <2> QED BY <1>1, <1>3, <2>1, <2>2 DEF CommitInv
  <1>6. WaitInv'
    <2>1. Awaits' => Awaits /\ UNCHANGED <<own, pending>>
      BY DEF Awaits, Wrapping
    <2> QED BY <1>1, <1>3, <2>1 DEF WaitInv, WaitOf
  <1> QED BY <1>2, <1>3, <1>4, <1>5, <1>6

\* dave_reinit keeps the types.
LEMMA ForgetTypes ==
    ASSUME FlagsOK, NumbersOK, Forget,
           UNCHANGED <<active, version, versionNext, group, groupNext, package, pendingId, lastDone>>,
           ws' \in {"idle", "moved", "welcomed", "forget", "rebuild"},
           tick' \in {"idle", "checked", "rebuild"}
    PROVE  FlagsOK' /\ NumbersOK'
  <1>1. /\ own' = OwnNone /\ pending' = NoCommit /\ groupReady' = FALSE /\ mediaReady' = FALSE
        /\ ratchet' = 0
    BY DEF Forget
  <1>2. 0 \in Groups
    BY ConstantBounds DEF Groups, Fork
  <1>3. pending'.have = FALSE
    BY <1>1 DEF NoCommit
  <1>4. FlagsOK'
    BY <1>1, <1>3, OwnOK DEF FlagsOK
  <1>5. NumbersOK'
    BY <1>1, <1>2, <1>3 DEF NumbersOK
  <1> QED BY <1>4, <1>5

\* A package is made: only the group and what is said about it change.
LEMMA PackageTypes ==
    ASSUME FlagsOK, NumbersOK, SendKeyPackage,
           UNCHANGED <<active, version, versionNext, groupNext, mediaReady, own, pending,
                       pendingId, lastDone, ratchet>>,
           ws' \in {"idle", "moved", "welcomed", "forget", "rebuild"},
           tick' \in {"idle", "checked", "rebuild"}
    PROVE  FlagsOK' /\ NumbersOK'
  <1>1. package' \in 0 .. Packages /\ group' \in Groups /\ groupReady' = TRUE
    BY PackageOK DEF SendKeyPackage
  <1>2. FlagsOK'
    BY <1>1 DEF FlagsOK
  <1>3. NumbersOK'
    BY <1>1 DEF NumbersOK
  <1> QED BY <1>2, <1>3

\* So does a step that touches the media keys only.
LEMMA QuietTypes ==
    ASSUME FlagsOK, NumbersOK,
           UNCHANGED <<active, version, versionNext, group, groupNext, groupReady, mediaReady,
                       package, own, pending, pendingId, lastDone>>,
           ratchet' = ratchet \/ ratchet' = 0 \/ ratchet' = group,
           ws' \in {"idle", "moved", "welcomed", "forget", "rebuild"},
           tick' \in {"idle", "checked", "rebuild"}
    PROVE  FlagsOK' /\ NumbersOK'
  <1>1. 0 \in Groups
    BY ConstantBounds DEF Groups, Fork
  <1>2. FlagsOK'
    BY DEF FlagsOK
  <1>3. NumbersOK'
    BY <1>1 DEF NumbersOK
  <1> QED BY <1>2, <1>3

\* The second halves of the handlers and the tick thread keep the invariant.
LEMMA QuietStep ==
    ASSUME KeysInv, InboxInv, Types, TurnInv, CommitInv, WaitInv, AloneInv,
           \/ ResetRatchets \/ Welcomed \/ ForgetFirst \/ Rebuild
           \/ CheckMedia \/ UseRatchet \/ Watchdog \/ WatchdogRebuild \/ FiveSeconds
    PROVE  Types' /\ TurnInv' /\ CommitInv' /\ WaitInv' /\ AloneInv'
  <1>0. FlagsOK /\ NumbersOK
    BY DEF Types
  <1>1. SenderFirst(inbox', mediaReady')
    BY WsThreadStep, TickThreadStep DEF WsThread, TickThread, InboxInv
  <1>2. UNCHANGED <<server, inbox, pendingId, lastDone, groupNext, active>>
    BY DEF ResetRatchets, Welcomed, ForgetFirst, Rebuild, CheckMedia, UseRatchet, Watchdog,
           WatchdogRebuild, FiveSeconds
  <1>3. /\ ws' \in {"idle", "moved", "welcomed", "forget", "rebuild"}
        /\ tick' \in {"idle", "checked", "rebuild"}
    BY <1>0 DEF FlagsOK, ResetRatchets, Welcomed, ForgetFirst, Rebuild, CheckMedia, UseRatchet,
           Watchdog, WatchdogRebuild, FiveSeconds
  <1>4. CASE ResetRatchets \/ CheckMedia \/ UseRatchet \/ FiveSeconds
    <2>1. /\ UNCHANGED <<version, versionNext, group, groupReady, mediaReady, package, own,
                         pending, outbox>>
          /\ ratchet' = ratchet \/ ratchet' = 0 \/ ratchet' = group
          /\ ws' = "forget" <=> ws = "forget"
          /\ ws' # "rebuild" \/ ws = "rebuild"
      BY <1>4 DEF ResetRatchets, CheckMedia, UseRatchet, FiveSeconds, RatchetsReset
    <2>2. FlagsOK' /\ NumbersOK'
      BY <1>0, <1>2, <1>3, <2>1, QuietTypes
    <2>3. ServerOK' /\ MailOK' /\ TurnInv' /\ CommitInv' /\ WaitInv'
      BY <1>2, <2>1, QuietClient
    <2>4. AloneInv'
      BY <1>1, <1>2, <2>1 DEF AloneInv, Wrapping
    <2> QED BY <2>2, <2>3, <2>4 DEF Types
  <1>5. CASE Welcomed
    <2> DEFINE o == [op |-> "ready", id |-> lastDone]
    <2>1. /\ UNCHANGED <<version, versionNext, group, groupReady, mediaReady, package, own,
                         pending, tick>>
          /\ ratchet' = 0 /\ ws = "welcomed" /\ ws' = "idle" /\ outbox' = Append(outbox, o)
      BY <1>5 DEF Welcomed, RatchetsReset, Say
    <2>2. o.op = "ready"
      OBVIOUS
    <2> HIDE DEF o
    <2>3. OutOK(o) /\ o.op \notin {"invalid", "commit"}
      BY <2>2 DEF OutOK
    <2>4. FlagsOK' /\ NumbersOK'
      BY <1>0, <1>2, <1>3, <2>1, QuietTypes
    <2>5. ServerOK' /\ MailOK' /\ TurnInv' /\ CommitInv' /\ WaitInv'
      BY <1>2, <2>1, <2>3, QuietClient
    <2>6. AloneInv'
      BY <1>1, <1>2, <2>1 DEF AloneInv, Wrapping
    <2> QED BY <2>4, <2>5, <2>6 DEF Types
  <1>6. CASE ForgetFirst \/ Watchdog
    <2>1. Forget /\ UNCHANGED <<version, versionNext, group, package, outbox>>
      BY <1>6 DEF ForgetFirst, Watchdog
    <2>2. own' = OwnNone /\ mediaReady' = FALSE /\ ~Wrapping'
      BY <2>1 DEF Forget, Wrapping
    <2>3. FlagsOK' /\ NumbersOK'
      BY <1>0, <1>2, <1>3, <2>1, ForgetTypes
    <2>4. ServerOK' /\ MailOK' /\ TurnInv' /\ CommitInv' /\ WaitInv'
      BY <1>2, <2>1, <2>2, QuietClient
    <2>5. AloneInv'
      BY <1>1, <2>1, <2>2 DEF AloneInv, Wrapping
    <2> QED BY <2>3, <2>4, <2>5 DEF Types
  <1>7. CASE Rebuild \/ WatchdogRebuild
    <2>1. /\ SendKeyPackage
          /\ UNCHANGED <<version, versionNext, mediaReady, own, pending, ratchet>>
          /\ UNCHANGED ws \/ (ws = "rebuild" /\ ws' = "idle")
      BY <1>7 DEF Rebuild, WatchdogRebuild
    <2>2. ~Wrapping' \/ (UNCHANGED <<own, pending, mediaReady>> /\ (ws' = "forget" <=> ws = "forget"))
      BY <2>1 DEF AloneInv, Wrapping
    <2>3. \E o : outbox' = Append(outbox, o) /\ OutOK(o) /\ o.op \notin {"invalid", "commit"}
      <3>1. PICK o : outbox' = Append(outbox, o) /\ OutOK(o) /\ o.op = "package"
        BY <1>0, <2>1, PackageOK
      <3> QED BY <3>1
    <2>4. FlagsOK' /\ NumbersOK'
      BY <1>0, <1>2, <1>3, <2>1, PackageTypes
    <2>5. ServerOK' /\ MailOK' /\ TurnInv' /\ CommitInv' /\ WaitInv'
      BY <1>2, <2>1, <2>2, <2>3, QuietClient
    <2>6. AloneInv'
      BY <1>1, <1>2, <2>1 DEF AloneInv, Wrapping
    <2> QED BY <2>4, <2>5, <2>6 DEF Types
  <1> QED BY <1>4, <1>5, <1>6, <1>7

-----------------------------------------------------------------------------
(* The server and the other members keep it.                                  *)

\* A step that is not the client's: what it must have done to the inbox.
LEMMA OthersKeep ==
    ASSUME Types, WaitInv, AloneInv, UNCHANGED client,
           ServerOK', OKInbox(inbox'), TurnOf(inbox', nextId'), WaitOf(inbox', move'),
           IsList(outbox), outbox' = outbox \/ (outbox' = Tail(outbox) /\ outbox # <<>>),
           SenderFirst(inbox', mediaReady')
    PROVE  Types' /\ TurnInv' /\ WaitInv' /\ AloneInv'
  <1>1. UNCHANGED <<active, version, versionNext, group, groupNext, groupReady, mediaReady, package,
                    own, pending, pendingId, known, lastDone, recent, ratchet, ws, tick>>
    BY DEF client
  <1>2. OKOutbox(outbox') /\ Said(outbox') \subseteq Said(outbox)
    BY OutboxTail, SaidTail DEF Types, MailOK
  <1>3. FlagsOK'
    BY <1>1 DEF Types, FlagsOK
  <1>4. NumbersOK'
    BY <1>1 DEF Types, NumbersOK
  <1>5. TurnInv'
    BY <1>1, <1>2 DEF TurnInv, TurnOf
  <1>6. WaitInv'
    <2>1. Awaits' <=> Awaits
      BY <1>1 DEF Awaits, Wrapping
    <2> QED BY <1>1, <1>2, <2>1 DEF WaitInv, WaitOf
  <1>7. AloneInv'
    BY <1>1 DEF AloneInv, Wrapping
  <1> QED BY <1>2, <1>3, <1>4, <1>5, <1>6, <1>7 DEF Types, MailOK

\* One that takes no commit of this client's says nothing about one.
LEMMA OthersCommit ==
    ASSUME CommitInv, UNCHANGED client, UNCHANGED winner,
           Said(outbox') \subseteq Said(outbox),
           \A m \in Said(inbox') : m.op = "announce" /\ m.mine => m \in Said(inbox)
    PROVE  CommitInv'
  <1>1. UNCHANGED <<groupNext, own>>
    BY DEF client
  <1>2. Swapped' = Swapped
    BY <1>1 DEF Swapped
  <1> QED BY <1>1, <1>2 DEF CommitInv

\* The server tells the client one thing.
LEMMA OthersTell ==
    ASSUME Types, TurnInv, CommitInv, WaitInv, AloneInv, UNCHANGED client, UNCHANGED winner,
           UNCHANGED outbox, ServerOK', SenderFirst(inbox', mediaReady'),
           NEW m, Tell(m), InOK(m), ~(m.op = "announce" /\ m.mine),
           nextId' \in Nat, nextId <= nextId',
           Dated(m) => m.id < nextId' /\ m.id >= nextId - 1 /\ (Later(m) => m.id >= nextId),
           m.op = "proposals" => \A k : ~Underway(move, k),
           \A k : Underway(move, k) => Underway(move', k) \/ Go(m, k),
           Later(m) => Underway(move', m.id)
    PROVE  Types' /\ TurnInv' /\ CommitInv' /\ WaitInv' /\ AloneInv'
  <1>1. inbox' = Append(inbox, m) /\ OKInbox(inbox) /\ IsList(inbox) /\ IsList(outbox)
        /\ nextId \in Nat
    BY DEF Tell, Types, MailOK, OKInbox, OKOutbox, ServerOK
  <1>2. TurnOf(inbox', nextId') /\ OKInbox(inbox')
    BY <1>1, TurnGrows DEF TurnInv
  <1>3. WaitOf(inbox', move')
    BY <1>1, WaitGrows DEF WaitInv
  <1>4. CommitInv'
    BY <1>1, SaidAppend, OthersCommit
  <1> QED BY <1>1, <1>2, <1>3, <1>4, OthersKeep

\* Nothing is under way when the next transition is made.
LEMMA MovesTypes ==
    ASSUME ServerOK, offered # NoOffer, NEW id, NEW told \in BOOLEAN, id \in {0, nextId},
           Moves(id, told), spare' \in 0 .. Packages,
           winner' \in [1 .. TopEpoch -> Nat],
           \A e \in 1 .. TopEpoch : winner'[e] # 0 => winner[e] # 0 \/ e = epoch + 1
    PROVE  /\ ServerOK' /\ move = NoMove /\ epoch + 1 \in 1 .. TopEpoch
           /\ id # 0 => Underway(move', id) \/ ~told
           /\ nextId' = IF id = 0 THEN nextId ELSE nextId + 1
  <1>1. /\ move = NoMove /\ epoch + 1 \in 1 .. TopEpoch /\ epoch \in Nat /\ live \in 0 .. epoch
        /\ nextId \in Nat /\ nextId # 0 /\ channel \in 0 .. 1
    BY ConstantBounds DEF ServerOK
  <1>2. epoch' = epoch + 1 /\ offered' = NoOffer /\ channel' = channel
    BY DEF Moves
  <1>3. offered' \in NoOffer .. Packages
    BY <1>2, ConstantBounds DEF NoOffer
  <1>4. \A e \in 1 .. TopEpoch : winner'[e] # 0 => e <= epoch'
    BY <1>1, <1>2 DEF ServerOK
  <1>5. CASE id = 0
    <2>1. move' = NoMove /\ live' = epoch + 1 /\ nextId' = nextId
      BY <1>5 DEF Moves
    <2> QED BY <1>1, <1>2, <1>3, <1>4, <1>5, <2>1 DEF ServerOK
  <1>6. CASE id # 0
    <2> DEFINE mv == [to |-> epoch + 1, id |-> id, told |-> told, ready |-> FALSE]
    <2>1. move' = mv /\ nextId' = nextId + 1 /\ live' = live /\ id = nextId
      BY <1>6 DEF Moves
    <2>2. /\ mv \in [to : Nat \ {0}, id : Nat \ {0}, told : BOOLEAN, ready : BOOLEAN]
          /\ mv.to = epoch + 1 /\ mv.id = id /\ mv.told = told /\ mv # NoMove
      BY <1>1, <1>6 DEF NoMove
    <2> HIDE DEF mv
    <2>3. ServerOK'
      BY <1>1, <1>2, <1>3, <1>4, <2>1, <2>2 DEF ServerOK
    <2> QED BY <1>1, <1>6, <2>1, <2>2, <2>3 DEF Underway
  <1> QED BY <1>5, <1>6

\* The server reads something the client said.
LEMMA TakeStep ==
    ASSUME KeysInv, InboxInv, Types, TurnInv, CommitInv, WaitInv, AloneInv, Take
    PROVE  Types' /\ TurnInv' /\ CommitInv' /\ WaitInv' /\ AloneInv'
  <1> DEFINE m == Head(outbox)
  <1>1. /\ outbox # <<>> /\ outbox' = Tail(outbox) /\ UNCHANGED client
        /\ \/ m.op = "package" /\ TakePackage(m)
           \/ m.op = "invalid" /\ TakeInvalid(m)
           \/ m.op = "commit" /\ TakeCommit(m)
           \/ m.op = "ready" /\ TakeReady(m)
    BY DEF Take
  <1>2. /\ IsList(outbox) /\ OKInbox(inbox) /\ IsList(inbox) /\ OutOK(m) /\ m \in Said(outbox)
        /\ Said(outbox') \subseteq Said(outbox) /\ ServerOK /\ nextId \in Nat
    BY <1>1, OutboxTail, SaidTail DEF Types, MailOK, OKOutbox, OKInbox, ServerOK
  <1>3. SenderFirst(inbox', mediaReady')
    BY ServerStep DEF Server, InboxInv
  <1>4. ASSUME ServerOK', UNCHANGED <<inbox, nextId, winner>>, WaitOf(inbox, move')
        PROVE  Types' /\ TurnInv' /\ CommitInv' /\ WaitInv' /\ AloneInv'
    <2>1. CommitInv'
      BY <1>1, <1>2, <1>4, OthersCommit
    <2>2. OKInbox(inbox') /\ TurnOf(inbox', nextId') /\ WaitOf(inbox', move')
      BY <1>2, <1>4 DEF TurnInv
    <2> QED BY <1>1, <1>2, <1>3, <1>4, <2>1, <2>2, OthersKeep
  <1> HIDE DEF m
  <1>5. CASE m.op = "package" /\ TakePackage(m)
    <2>1. /\ UNCHANGED <<epoch, live, winner, channel, offered, move, nextId, inbox>>
          /\ spare' = spare \/ spare' = m.package
      BY <1>5 DEF TakePackage
    <2>2. m.package \in 0 .. Packages
      BY <1>2, <1>5 DEF OutOK
    <2>3. ServerOK'
      BY <1>2, <2>1, <2>2 DEF ServerOK
    <2> QED BY <1>4, <2>1, <2>3 DEF WaitInv
  <1>6. ASSUME UNCHANGED <<epoch, live, winner, channel, offered, nextId, inbox>>,
               spare' = spare \/ spare' = 0,
               \/ move' = move
               \/ /\ move # NoMove /\ m.id = move.id
                  /\ \/ m.op = "invalid" /\ move' = [move EXCEPT !.told = FALSE]
                     \/ move' = [move EXCEPT !.ready = TRUE]
        PROVE  Types' /\ TurnInv' /\ CommitInv' /\ WaitInv' /\ AloneInv'
    <2>1. CASE move' = move
      <3>1. ServerOK'
        BY <1>2, <1>6, <2>1, ConstantBounds DEF ServerOK
      <3> QED BY <1>4, <1>6, <2>1, <3>1 DEF WaitInv
    <2>2. CASE /\ move # NoMove /\ m.id = move.id
               /\ \/ m.op = "invalid" /\ move' = [move EXCEPT !.told = FALSE]
                  \/ move' = [move EXCEPT !.ready = TRUE]
      <3>1. /\ move \in [to : Nat \ {0}, id : Nat \ {0}, told : BOOLEAN, ready : BOOLEAN]
            /\ move.to = epoch /\ move.id = nextId - 1
        BY <1>2, <2>2 DEF ServerOK
      <3>2. /\ move' \in [to : Nat \ {0}, id : Nat \ {0}, told : BOOLEAN, ready : BOOLEAN]
            /\ move'.to = epoch /\ move'.id = nextId - 1 /\ move' # NoMove
            /\ m.op # "invalid" => move'.told = move.told
        BY <2>2, <3>1 DEF NoMove
      <3>3. ServerOK'
        <4>1. offered = NoOffer
          BY <1>2, <2>2 DEF ServerOK
        <4> QED BY <1>2, <1>6, <3>2, <4>1, ConstantBounds DEF ServerOK
      <3>4. \A k : Underway(move, k) => Underway(move', k) \/ (m.op = "invalid" /\ k = m.id)
        BY <2>2, <3>1, <3>2 DEF Underway
      <3>5. ASSUME NEW i \in 1 .. Len(inbox), Later(inbox[i])
            PROVE  /\ Awaited(inbox[i].id, inbox, i)
                   /\ Goes(inbox[i].id, inbox, i) \/ Underway(move', inbox[i].id)
        <4>1. /\ Awaited(inbox[i].id, inbox, i)
              /\ Goes(inbox[i].id, inbox, i) \/ Underway(move, inbox[i].id)
          BY <3>5 DEF WaitInv, WaitOf
        <4>2. m.op = "invalid" => m.id # inbox[i].id
          <5>1. m.op = "invalid" => Past(m.id, inbox[i]) /\ m.id \in Int
            BY <1>2, <3>5 DEF TurnInv, TurnOf, Before, OutOK
          <5>2. inbox[i].id \in Int
            BY <1>2, <3>5 DEF OKInbox, InOK, Later
          <5> QED BY <3>5, <5>1, <5>2 DEF Past, Dated
        <4> QED BY <3>4, <4>1, <4>2
      <3>6. ASSUME Awaits
            PROVE  /\ own.won \/ pending.have
                   /\ Awaited(pendingId, inbox, 0)
                   /\ Goes(pendingId, inbox, 0) \/ Underway(move', pendingId)
                   /\ \A o \in Said(outbox) : o.op = "invalid" => o.id # pendingId
        BY <1>2, <3>4, <3>6 DEF WaitInv, WaitOf
      <3>7. WaitOf(inbox, move')
        BY <3>5, <3>6 DEF WaitOf
      <3> QED BY <1>4, <1>6, <3>3, <3>7
    <2> QED BY <1>6, <2>1, <2>2
  <1>7. CASE m.op = "invalid" /\ TakeInvalid(m)
    BY <1>6, <1>7 DEF TakeInvalid
  <1>8. CASE m.op = "ready" /\ TakeReady(m)
    BY <1>6, <1>8 DEF TakeReady
  <1>9. CASE m.op = "commit" /\ TakeCommit(m) /\ ~Acceptable(m)
    <2>1. UNCHANGED <<server, inbox>>
      BY <1>9 DEF TakeCommit
    <2> QED BY <1>2, <1>4, <2>1 DEF server, ServerOK, WaitInv
  <1>10. CASE m.op = "commit" /\ TakeCommit(m) /\ Acceptable(m)
    <2>1. PICK id \in IF epoch = 0 THEN {0, nextId} ELSE {nextId} :
            /\ Moves(id, TRUE)
            /\ winner' = [winner EXCEPT ![epoch + 1] = m.number]
            /\ member' = TRUE /\ spare' = IF spare = offered THEN 0 ELSE spare
            /\ Tell([op |-> "announce", id |-> id, base |-> epoch, mine |-> TRUE,
                     number |-> m.number])
      BY <1>10 DEF TakeCommit
    <2> DEFINE a == [op |-> "announce", id |-> id, base |-> epoch, mine |-> TRUE,
                     number |-> m.number]
    <2>2. /\ a.op = "announce" /\ a.id = id /\ a.base = epoch /\ a.mine = TRUE
          /\ a.number = m.number /\ inbox' = Append(inbox, a)
      BY <2>1 DEF Tell
    <2> HIDE DEF a
    <2>3. /\ offered # NoOffer /\ move = NoMove
          /\ IF epoch = 0 THEN -m.base = offered ELSE m.base = epoch
      BY <1>10 DEF Acceptable
    <2>4. /\ m.number \in Nat /\ m.number # 0 /\ m.base \in Int
          /\ epoch \in Nat /\ epoch < TopEpoch /\ epoch + 1 \in 1 .. TopEpoch
          /\ offered \in Nat /\ winner \in [1 .. TopEpoch -> Nat]
          /\ spare \in 0 .. Packages /\ nextId # 0
      BY <1>2, <1>10, <2>3, ConstantBounds DEF ServerOK, OutOK, NoOffer, Groups, Fork
    <2>5. /\ winner' \in [1 .. TopEpoch -> Nat] /\ winner'[epoch + 1] = m.number
          /\ \A e \in 1 .. TopEpoch : e # epoch + 1 => winner'[e] = winner[e]
      BY <2>1, <2>4
    <2>6. id \in {0, nextId} /\ spare' \in 0 .. Packages
      BY <2>1, <2>4, ConstantBounds
    <2>7. /\ ServerOK'
          /\ id # 0 => Underway(move', id)
          /\ nextId' = IF id = 0 THEN nextId ELSE nextId + 1
      BY <1>2, <2>1, <2>3, <2>5, <2>6, MovesTypes
    <2>8. InOK(a)
      BY <1>2, <2>2, <2>4, <2>6 DEF InOK
    <2>9. TurnOf(inbox', nextId') /\ OKInbox(inbox')
      <3>1. nextId' \in Nat /\ nextId <= nextId'
        BY <1>2, <2>7
      <3>2. Dated(a) => a.id < nextId' /\ a.id >= nextId - 1 /\ (Later(a) => a.id >= nextId)
        BY <1>2, <2>2, <2>6, <2>7 DEF Dated, Later
      <3> QED BY <1>2, <2>2, <2>8, <3>1, <3>2, TurnGrows DEF TurnInv
    <2>10. WaitOf(inbox', move')
      <3>1. \A k : ~Underway(move, k)
        BY <2>3 DEF Underway
      <3>2. Later(a) => Underway(move', a.id)
        BY <2>2, <2>7 DEF Later
      <3> QED BY <1>2, <2>2, <3>1, <3>2, WaitGrows DEF WaitInv
    <2>11. UNCHANGED <<groupNext, own>>
      BY <1>1 DEF client
    <2>12. /\ groupNext.number \in Nat /\ groupNext.base \in Int
      BY ConstantBounds DEF Types, NumbersOK, Groups, Fork
    <2>13. /\ m.number <= groupNext.number
           /\ m.number = groupNext.number => m.base = groupNext.base
      BY <1>2, <1>10 DEF CommitInv
    <2>14. ASSUME NEW e \in 1 .. TopEpoch, winner[e] # 0 PROVE winner'[e] = winner[e]
      BY <1>2, <2>4, <2>5, <2>14 DEF ServerOK
    <2>15. ASSUME NEW b \in Said(inbox'), b.op = "announce", b.mine
           PROVE  /\ b.number # 0 /\ b.number <= groupNext.number
                  /\ winner'[b.base + 1] = b.number
                  /\ b.number = groupNext.number => b.base + 1 = Target(groupNext.base)
      <3>1. CASE b \in Said(inbox)
        <4>1. /\ b.number # 0 /\ b.number <= groupNext.number
              /\ winner[b.base + 1] = b.number
              /\ b.number = groupNext.number => b.base + 1 = Target(groupNext.base)
          BY <2>15, <3>1 DEF CommitInv
        <4>2. b.base \in Nat /\ b.base < TopEpoch
          BY <1>2, <2>15, <3>1 DEF OKInbox, InOK, Said
        <4>3. b.base + 1 \in 1 .. TopEpoch
          BY <4>2, ConstantBounds
        <4> QED BY <2>14, <4>1, <4>3
      <3>2. CASE b = a
        <4>1. b.number = groupNext.number => epoch + 1 = Target(groupNext.base)
          BY <2>2, <2>3, <2>4, <2>12, <2>13, <3>2 DEF Target
        <4> QED BY <2>2, <2>4, <2>5, <2>13, <3>2, <4>1
      <3> QED BY <1>2, <2>2, <2>15, <3>1, <3>2, SaidAppend
    <2>16. ASSUME own.won PROVE Swapped' > 0
      <3>1. groupNext.number # 0 /\ Swapped > 0
        BY <2>16 DEF CommitInv
      <3> DEFINE e == IF groupNext.base > 0 THEN groupNext.base + 1 ELSE 1
      <3>2. e <= TopEpoch /\ winner[e] = groupNext.number
        BY <3>1, ConstantBounds DEF Swapped, Fork
      <3>3. e \in 1 .. TopEpoch
        BY <2>12, <3>2, ConstantBounds
      <3>4. winner'[e] = winner[e]
        BY <2>14, <3>1, <3>2, <3>3
      <3>5. Swapped' = e
        BY <2>11, <3>2, <3>4 DEF Swapped
      <3> QED BY <3>3, <3>5
    <2>17. CommitInv'
      <3>1. \A o \in Said(outbox') : o.op = "commit" =>
              /\ o.number <= groupNext.number
              /\ o.number = groupNext.number => o.base = groupNext.base
        BY <1>2 DEF CommitInv
      <3>2. own.won => groupNext.number # 0
        BY DEF CommitInv
      <3> QED BY <2>11, <2>15, <2>16, <3>1, <3>2 DEF CommitInv
    <2> QED BY <1>1, <1>2, <1>3, <2>7, <2>9, <2>10, <2>17, OthersKeep
  <1> QED BY <1>1, <1>5, <1>7, <1>8, <1>9, <1>10 DEF m

\* It proposes, another member's commit is taken, everybody is told to go.
LEMMA OtherServerStep ==
    ASSUME KeysInv, InboxInv, Types, TurnInv, CommitInv, WaitInv, AloneInv,
           Offer \/ OtherCommit \/ Execute
    PROVE  Types' /\ TurnInv' /\ CommitInv' /\ WaitInv' /\ AloneInv'
  <1>1. SenderFirst(inbox', mediaReady')
    BY ServerStep DEF Server, InboxInv
  <1>2. UNCHANGED client /\ UNCHANGED outbox /\ UNCHANGED winner /\ IsList(outbox)
        /\ OKInbox(inbox) /\ ServerOK
    BY DEF Offer, OtherCommit, Execute, Types, MailOK, OKOutbox
  <1>3. /\ epoch \in Nat /\ nextId \in Nat /\ nextId # 0 /\ winner \in [1 .. TopEpoch -> Nat]
        /\ live \in 0 .. epoch
    BY <1>2 DEF ServerOK
  <1>4. CASE Offer
    <2> DEFINE m == [op |-> "proposals", base |-> epoch]
    <2>1. /\ UNCHANGED <<epoch, live, winner, spare, channel, move, nextId>>
          /\ Tell(m) /\ move = NoMove /\ (epoch < MaxEpoch \/ epoch < TopEpoch)
          /\ offered' = spare \/ offered' = 0
      BY <1>4 DEF Offer
    <2>2. m.op = "proposals" /\ m.base = epoch
      OBVIOUS
    <2> HIDE DEF m
    <2>3. epoch < TopEpoch /\ move = NoMove /\ offered' \in 0 .. Packages
      BY <1>2, <1>3, <1>4, <2>1, ConstantBounds DEF Offer, ServerOK
    <2>4. ServerOK'
      BY <1>2, <2>1, <2>3, ConstantBounds DEF ServerOK, NoOffer
    <2>5. InOK(m) /\ ~Dated(m)
      BY <1>3, <2>2, <2>3, ConstantBounds DEF InOK, Dated, Later
    <2>6. \A k : ~Underway(move, k)
      BY <2>3 DEF Underway
    <2>7. ~Later(m) /\ m.op # "announce" /\ nextId' \in Nat /\ nextId <= nextId'
      BY <1>3, <2>1, <2>2 DEF Later
    <2> QED BY <1>1, <1>2, <2>1, <2>4, <2>5, <2>6, <2>7, OthersTell
  <1>5. CASE OtherCommit
    <2> DEFINE told == member \/ offered > 0
               w == [op |-> "welcome", id |-> nextId, epoch |-> epoch + 1, package |-> offered]
               a == [op |-> "announce", id |-> nextId, base |-> epoch, mine |-> FALSE,
                     number |-> 0]
    <2>1. /\ offered # NoOffer /\ Moves(nextId, told)
          /\ winner' = winner /\ (spare' = 0 \/ spare' = spare)
          /\ (Tell(w) /\ told) \/ (Tell(a) /\ told) \/ inbox' = inbox
      BY <1>5 DEF OtherCommit
    <2>2. /\ w.op = "welcome" /\ w.id = nextId /\ w.epoch = epoch + 1
          /\ a.op = "announce" /\ a.id = nextId /\ a.base = epoch /\ a.mine = FALSE
          /\ a.number = 0
      OBVIOUS
    <2>3. told \in BOOLEAN /\ a.mine \in BOOLEAN
      OBVIOUS
    <2> HIDE DEF told, a, w
    <2>4. spare' \in 0 .. Packages
      BY <1>2, <2>1, ConstantBounds DEF ServerOK
    <2>5. \A e \in 1 .. TopEpoch : winner'[e] # 0 => winner[e] # 0 \/ e = epoch + 1
      BY <2>1
    <2>6. /\ ServerOK' /\ move = NoMove /\ epoch + 1 \in 1 .. TopEpoch
          /\ Underway(move', nextId) \/ ~told
          /\ nextId' = nextId + 1
      BY <1>2, <1>3, <2>1, <2>3, <2>4, <2>5, MovesTypes
    <2>7. \A k : ~Underway(move, k)
      BY <2>6 DEF Underway
    <2>8. CASE Tell(w) \/ (Tell(a) /\ told)
      <3>1. PICK m \in {w, a} : Tell(m) /\ (m = a => told)
        BY <2>2, <2>8
      <3>0. epoch < TopEpoch
        BY <1>3, <2>6, ConstantBounds
      <3>5. InOK(w)
        BY <1>3, <2>2, <2>6 DEF InOK
      <3>6. InOK(a)
        BY <1>3, <2>2, <2>3, <3>0 DEF InOK
      <3>2. InOK(m) /\ ~(m.op = "announce" /\ m.mine) /\ m.id = nextId /\ m.op # "proposals"
        BY <2>2, <3>1, <3>5, <3>6
      <3>3. Later(m) => Underway(move', m.id)
        BY <2>2, <2>6, <3>1, <3>2 DEF Later
      <3>4. nextId' \in Nat /\ nextId <= nextId' /\ m.id < nextId' /\ m.id >= nextId - 1 /\ m.id >= nextId
        BY <1>3, <2>6, <3>2
      <3> HIDE DEF Tell
      <3> QED BY <1>1, <1>2, <2>6, <2>7, <3>1, <3>2, <3>3, <3>4, OthersTell
    <2>9. CASE inbox' = inbox
      <3>1. TurnOf(inbox', nextId')
        <4>1. nextId' = nextId + 1 /\ inbox' = inbox
          BY <2>6, <2>9
        <4>2. \A i \in 1 .. Len(inbox) : Dated(inbox[i]) => inbox[i].id \in Int
          BY <1>2 DEF OKInbox, InOK, Dated, Later
        <4>3. Given(inbox, nextId + 1)
          BY <1>3, <4>2 DEF Given, TurnInv, TurnOf
        <4>4. pendingId < nextId + 1 /\ lastDone < nextId + 1
          BY <1>3 DEF TurnInv, TurnOf, Types, NumbersOK
        <4>5. \A o \in Said(outbox) : o.op = "invalid" => Before(o.id, inbox) /\ o.id < nextId + 1
          <5>1. \A o \in Said(outbox) : o.op = "invalid" => o.id \in Int
            BY DEF Types, MailOK, OKOutbox, OutOK, Said
          <5> QED BY <1>3, <5>1 DEF TurnInv, TurnOf
        <4> QED BY <4>1, <4>3, <4>4, <4>5 DEF TurnInv, TurnOf
      <3>2. WaitOf(inbox', move')
        BY <2>7, <2>9 DEF WaitInv, WaitOf
      <3>3. CommitInv'
        BY <1>2, <2>9, OthersCommit
      <3> QED BY <1>1, <1>2, <2>6, <2>9, <3>1, <3>2, <3>3, OthersKeep
    <2> QED BY <2>1, <2>8, <2>9
  <1>6. CASE Execute
    <2> DEFINE m == [op |-> "execute", id |-> move.id]
    <2>1. /\ UNCHANGED <<epoch, winner, member, spare, channel, offered, nextId>>
          /\ move # NoMove /\ move' = NoMove /\ live' = move.to
          /\ Tell(m) \/ (~move.told /\ inbox' = inbox)
      BY <1>6 DEF Execute
    <2>2. m.op = "execute" /\ m.id = move.id
      OBVIOUS
    <2> HIDE DEF m
    <2>3. /\ move.to = epoch /\ move.id = nextId - 1 /\ move.id \in Nat
          /\ offered = NoOffer
      BY <1>2, <2>1 DEF ServerOK
    <2>4. ServerOK'
      BY <1>2, <1>3, <2>1, <2>3 DEF ServerOK
    <2>5. CASE Tell(m)
      <3>1. InOK(m) /\ Dated(m) /\ ~Later(m) /\ m.op # "proposals" /\ m.op # "announce"
        BY <2>2, <2>3 DEF InOK, Dated, Later
      <3>2. \A k : Underway(move, k) => Go(m, k)
        BY <2>2 DEF Underway, Go
      <3>3. /\ m.id < nextId /\ m.id >= nextId - 1 /\ nextId' = nextId /\ nextId \in Nat
            /\ nextId <= nextId'
        BY <1>3, <2>1, <2>2, <2>3
      <3> QED BY <1>1, <1>2, <2>4, <2>5, <3>1, <3>2, <3>3, OthersTell
    <2>6. CASE ~move.told /\ inbox' = inbox
      <3>1. \A k : ~Underway(move, k)
        BY <2>6 DEF Underway
      <3>2. WaitOf(inbox', move')
        BY <2>6, <3>1 DEF WaitInv, WaitOf
      <3>3. TurnOf(inbox', nextId')
        BY <2>1, <2>6 DEF TurnInv
      <3>4. CommitInv'
        BY <1>2, <2>6, OthersCommit
      <3> QED BY <1>1, <1>2, <2>4, <2>6, <3>2, <3>3, <3>4, OthersKeep
    <2> QED BY <2>1, <2>5, <2>6
  <1> QED BY <1>4, <1>5, <1>6

-----------------------------------------------------------------------------
(* And so does whatever may happen to a call.                                 *)

\* What may go wrong within a session.
LEMMA UpsetsKeep ==
    ASSUME KeysInv, InboxInv, Types, TurnInv, CommitInv, WaitInv, AloneInv,
           Downgrade \/ StartOver \/ Revoke \/ Repeat
    PROVE  Types' /\ TurnInv' /\ CommitInv' /\ WaitInv' /\ AloneInv'
  <1>1. SenderFirst(inbox', mediaReady')
    BY UpsetStep DEF Upsets, InboxInv
  <1>2. /\ UNCHANGED client /\ UNCHANGED outbox /\ UNCHANGED <<winner, epoch, live>>
        /\ IsList(outbox) /\ OKInbox(inbox) /\ IsList(inbox) /\ ServerOK
    BY DEF Downgrade, StartOver, Revoke, Repeat, Upset, Types, MailOK, OKOutbox, OKInbox
  <1>3. nextId \in Nat /\ nextId # 0 /\ 0 \in 0 .. Packages /\ NoOffer \in NoOffer .. Packages
    BY <1>2, ConstantBounds DEF ServerOK, NoOffer
  <1>4. move = NoMove /\ move' = NoMove
    <2>1. CASE Revoke
      BY <1>2, <2>1 DEF Revoke, ServerOK
    <2> QED BY <2>1 DEF Downgrade, StartOver, Repeat
  <1>5. \A k : ~Underway(move, k)
    BY <1>4 DEF Underway
  <1>6. ASSUME ServerOK', NEW m, Tell(m), nextId' = nextId, m.op \in {"epoch", "revoke", "execute"},
               m.op = "execute" => m.id \in Nat /\ m.id = nextId - 1
        PROVE  Types' /\ TurnInv' /\ CommitInv' /\ WaitInv' /\ AloneInv'
    <2>1. InOK(m) /\ ~Later(m) /\ (Dated(m) => m.op = "execute")
      BY <1>6 DEF InOK, Later, Dated
    <2>2. Dated(m) => m.id < nextId' /\ m.id >= nextId - 1
      BY <1>3, <1>6, <2>1
    <2>3. nextId' \in Nat /\ nextId <= nextId'
      BY <1>3, <1>6
    <2> QED BY <1>1, <1>2, <1>5, <1>6, <2>1, <2>2, <2>3, OthersTell
  <1>7. ASSUME ServerOK', nextId' = nextId + 1, NEW v \in 0 .. 1,
               inbox' = inbox \o <<[op |-> "prepare", id |-> nextId, version |-> v],
                                   [op |-> "execute", id |-> nextId]>>
        PROVE  Types' /\ TurnInv' /\ CommitInv' /\ WaitInv' /\ AloneInv'
    <2> DEFINE a == [op |-> "prepare", id |-> nextId, version |-> v]
               b == [op |-> "execute", id |-> nextId]
               s == Append(inbox, a)
    <2>1. /\ a.op = "prepare" /\ a.version = v /\ b.op = "execute" /\ b.id = nextId
      OBVIOUS
    <2>2. inbox' = inbox \o <<a, b>>
      BY <1>7
    <2> HIDE DEF a, b
    <2>3. inbox' = Append(s, b)
      BY <1>2, <2>2, ListPair
    <2>4. InOK(a) /\ InOK(b) /\ ~Later(a) /\ ~Later(b) /\ ~Dated(a)
      BY <1>3, <2>1 DEF InOK, Later, Dated
    <2>5. nextId <= nextId
      BY <1>3
    <2>6. TurnOf(s, nextId) /\ OKInbox(s)
      BY <1>2, <1>3, <2>4, <2>5, TurnGrows DEF TurnInv
    <2>7. WaitOf(s, move)
      BY <1>2, <1>5, <2>1, <2>4, WaitGrows DEF WaitInv
    <2>8. IsList(s)
      BY <2>6 DEF OKInbox
    <2>9. Said(inbox') \subseteq Said(inbox) \union {a, b}
      BY <1>2, <2>3, <2>8, SaidAppend
    <2> HIDE DEF s
    <2>10. /\ nextId' \in Nat /\ nextId <= nextId'
           /\ Dated(b) => b.id < nextId' /\ b.id >= nextId - 1
      BY <1>3, <1>7, <2>1
    <2>11. TurnOf(inbox', nextId') /\ OKInbox(inbox')
      BY <1>3, <2>3, <2>4, <2>6, <2>10, TurnGrows
    <2>12. WaitOf(inbox', move')
      BY <1>5, <2>1, <2>3, <2>4, <2>7, <2>8, WaitGrows
    <2>13. CommitInv'
      BY <1>2, <2>1, <2>9, OthersCommit
    <2> QED BY <1>1, <1>2, <1>7, <2>11, <2>12, <2>13, OthersKeep
  <1>8. ASSUME offered' = NoOffer \/ UNCHANGED offered, spare' = 0 \/ UNCHANGED spare,
               channel' \in 0 .. 1, nextId' \in Nat \ {0}
        PROVE  ServerOK'
    BY <1>2, <1>3, <1>4, <1>8 DEF ServerOK
  <1>9. CASE Downgrade
    <2>1. /\ offered' = NoOffer /\ spare' = 0 /\ channel' = 0 /\ nextId' = nextId + 1
          /\ inbox' = inbox \o <<[op |-> "prepare", id |-> nextId, version |-> 0],
                                 [op |-> "execute", id |-> nextId]>>
      BY <1>9 DEF Downgrade
    <2>2. ServerOK' /\ 0 \in 0 .. 1
      BY <1>3, <1>8, <2>1
    <2> QED BY <1>7, <2>1, <2>2
  <1>10. CASE StartOver
    <2>1. /\ offered' = NoOffer /\ spare' = 0 /\ channel' = 1
          /\ \/ /\ nextId' = nextId + 1
                /\ inbox' = inbox \o <<[op |-> "prepare", id |-> nextId, version |-> 1],
                                       [op |-> "execute", id |-> nextId]>>
             \/ Tell([op |-> "epoch"]) /\ nextId' = nextId
      BY <1>10 DEF StartOver
    <2>2. ServerOK' /\ 1 \in 0 .. 1
      BY <1>3, <1>8, <2>1
    <2> DEFINE m == [op |-> "epoch"]
    <2>3. m.op = "epoch"
      OBVIOUS
    <2>4. CASE Tell(m) /\ nextId' = nextId
      <3> HIDE DEF m
      <3> QED BY <1>6, <2>2, <2>3, <2>4
    <2> QED BY <1>7, <2>1, <2>2, <2>4
  <1>11. CASE Revoke
    <2> DEFINE m == [op |-> "revoke"]
    <2>1. m.op = "revoke" /\ Tell(m) /\ nextId' = nextId /\ offered' = NoOffer
          /\ UNCHANGED <<spare, channel>>
      BY <1>11 DEF Revoke
    <2> HIDE DEF m
    <2>2. ServerOK'
      BY <1>2, <1>3, <1>8, <2>1 DEF ServerOK
    <2> QED BY <1>6, <2>1, <2>2
  <1>12. CASE Repeat
    <2> DEFINE m == [op |-> "execute", id |-> nextId - 1]
    <2>1. m.op = "execute" /\ m.id = nextId - 1 /\ Tell(m) /\ nextId' = nextId /\ nextId > 1
          /\ UNCHANGED <<offered, spare, channel>>
      BY <1>12 DEF Repeat
    <2> HIDE DEF m
    <2>2. ServerOK'
      BY <1>2, <1>3, <1>8, <2>1 DEF ServerOK
    <2>3. m.id \in Nat
      BY <1>3, <2>1
    <2> QED BY <1>6, <2>1, <2>2, <2>3
  <1> QED BY <1>9, <1>10, <1>11, <1>12

\* A session made anew starts with nothing awaited.
LEMMA RehandshakeKeeps ==
    ASSUME KeysInv, InboxInv, Types, CommitInv, Rehandshake
    PROVE  Types' /\ TurnInv' /\ CommitInv' /\ WaitInv' /\ AloneInv'
  <1>1. SenderFirst(inbox', mediaReady')
    BY UpsetStep DEF Upsets, InboxInv
  <1>2. /\ inbox' = Hello(channel) /\ outbox' = <<>>
        /\ active' = (channel = 1) /\ version' = channel /\ versionNext' = channel
        /\ groupReady' = FALSE /\ mediaReady' = FALSE /\ package' = 0
        /\ own' = OwnNone /\ pending' = NoCommit /\ pendingId' = 0
        /\ lastDone' = -1 /\ ratchet' = 0 /\ ws = "idle" /\ tick = "idle"
        /\ spare' = 0 /\ offered' = NoOffer /\ move' = NoMove /\ live' = epoch /\ nextId' = 1
        /\ UNCHANGED <<group, groupNext, ws, tick, epoch, winner, channel>>
    BY DEF Rehandshake, NoneDone
  <1>3. FlagsOK /\ NumbersOK /\ ServerOK /\ 0 \in Groups /\ 0 \in 0 .. Packages
    BY ConstantBounds DEF Types, Groups, Fork
  <1>4. pending'.have = FALSE /\ own'.won = FALSE
    BY <1>2 DEF NoCommit, OwnNone
  <1>5. FlagsOK'
    <2>1. own' \in [ready : BOOLEAN, won : BOOLEAN]
      BY <1>2, OwnOK
    <2>2. active' \in BOOLEAN /\ mediaReady' \in BOOLEAN /\ groupReady' \in BOOLEAN
      BY <1>2
    <2>3. ws' = "idle" /\ tick' = "idle"
      BY <1>2
    <2> QED BY <1>4, <2>1, <2>2, <2>3 DEF FlagsOK
  <1>6. NumbersOK'
    <2>1. channel \in 0 .. 1
      BY <1>3 DEF ServerOK
    <2> QED BY <1>2, <1>3, <1>4, <2>1 DEF NumbersOK
  <1>7. ServerOK'
    BY <1>2, <1>3, ConstantBounds DEF ServerOK, NoOffer
  <1>8. Said(outbox') = {} /\ OKOutbox(outbox')
    BY <1>2, ListEmpty DEF Said, OKOutbox
  <1>9. /\ OKInbox(inbox')
        /\ \A i \in 1 .. Len(inbox') :
              /\ ~Later(inbox'[i]) /\ inbox'[i].op # "announce"
              /\ Dated(inbox'[i]) => inbox'[i].id = 0
    BY <1>2, HelloIs DEF Later, Dated
  <1>11. TurnInv'
    <2>1. InTurn(inbox') /\ Given(inbox', 1) /\ Before(0, inbox') /\ Before(-1, inbox')
      BY <1>9 DEF InTurn, Given, Before, Past
    <2> QED BY <1>2, <1>8, <2>1 DEF TurnInv, TurnOf
  <1>12. ~Wrapping' /\ ~Awaits'
    BY <1>2 DEF Wrapping, Awaits
  <1>13. WaitInv'
    BY <1>9, <1>12 DEF WaitInv, WaitOf
  <1>14. CommitInv'
    <2>1. \A m \in Said(inbox') : m.op # "announce"
      BY <1>9 DEF Said
    <2> QED BY <1>4, <1>8, <2>1 DEF CommitInv
  <1>15. AloneInv'
    BY <1>1, <1>2, <1>12 DEF AloneInv
  <1> QED BY <1>5, <1>6, <1>7, <1>8, <1>9, <1>11, <1>13, <1>14, <1>15 DEF Types, MailOK

-----------------------------------------------------------------------------
\* The invariant holds when the first session starts,
LEMMA ChannelInit ==
    ASSUME Init PROVE ChannelInv
  <1>1. KeysInv
    BY DEF Init, KeysInv, RatchetsFollow, Sealing, Midway
  <1>2. /\ inbox = Hello(1) /\ outbox = <<>> /\ mediaReady = FALSE /\ pendingId = 0 /\ lastDone = -1
        /\ nextId = 1 /\ own = OwnNone /\ pending = NoCommit /\ move = NoMove /\ offered = NoOffer
        /\ ws = "idle" /\ tick = "idle" /\ winner = [e \in 1 .. TopEpoch |-> 0]
    BY DEF Init, NoneDone
  <1>3. InboxInv
    BY <1>2, HelloStartsIt DEF InboxInv
  <1>4. /\ 0 \in Groups /\ 0 \in 0 .. Packages /\ NoOffer \in NoOffer .. Packages
        /\ epoch \in {0, 1} /\ epoch \in 0 .. TopEpoch
    BY ConstantBounds DEF Init, Groups, Fork, NoOffer
  <1>5. OKInbox(inbox) /\ OKOutbox(outbox) /\ Said(outbox) = {}
    BY <1>2, HelloIs, ListEmpty DEF OKOutbox, Said
  <1>6. \A i \in 1 .. Len(inbox) : /\ ~Later(inbox[i]) /\ inbox[i].op # "announce"
                                   /\ Dated(inbox[i]) => inbox[i].id = 0
    BY <1>2, HelloIs DEF Later, Dated
  <1>7. pending.have = FALSE /\ own.won = FALSE
    BY <1>2 DEF NoCommit, OwnNone
  <1>8. FlagsOK
    <2>1. active = TRUE /\ groupReady = FALSE
      BY DEF Init
    <2>2. own \in [ready : BOOLEAN, won : BOOLEAN]
      BY <1>2, OwnOK
    <2> QED BY <1>2, <1>7, <2>1, <2>2 DEF FlagsOK
  <1>9. NumbersOK
    <2>1. /\ version = 1 /\ versionNext = 1 /\ group = 0 /\ ratchet = 0 /\ package = 0
          /\ groupNext.base = 0 /\ groupNext.number = 0
      BY DEF Init
    <2> QED BY <1>2, <1>4, <1>7, <2>1 DEF NumbersOK
  <1>10. ServerOK
    <2>1. live = epoch /\ spare = 0 /\ channel = 1
      BY DEF Init
    <2>2. live \in 0 .. epoch
      BY <1>4, <2>1
    <2>3. winner \in [1 .. TopEpoch -> Nat] /\ \A e \in 1 .. TopEpoch : winner[e] = 0
      BY <1>2
    <2> QED BY <1>2, <1>4, <2>1, <2>2, <2>3 DEF ServerOK
  <1>11. TurnInv
    <2>1. InTurn(inbox) /\ Given(inbox, 1) /\ Before(0, inbox) /\ Before(-1, inbox)
      BY <1>6 DEF InTurn, Given, Before, Past
    <2> QED BY <1>2, <1>5, <2>1 DEF TurnInv, TurnOf
  <1>12. ~Wrapping /\ ~Awaits
    BY <1>2 DEF Wrapping, Awaits
  <1>13. WaitInv
    BY <1>6, <1>12 DEF WaitInv, WaitOf
  <1>14. CommitInv
    <2>1. \A m \in Said(inbox) : m.op # "announce"
      BY <1>6 DEF Said
    <2> QED BY <1>5, <1>7, <2>1 DEF CommitInv
  <1>15. AloneInv /\ InGroupInv
    BY <1>2, <1>3, <1>12 DEF AloneInv, InGroupInv, InboxInv
  <1> QED BY <1>1, <1>3, <1>5, <1>8, <1>9, <1>10, <1>11, <1>13, <1>14, <1>15
          DEF ChannelInv, Types, MailOK

\* and every step keeps it, wherever the two threads are.
LEMMA ChannelStep ==
    ASSUME ChannelInv, [Next]_vars PROVE ChannelInv'
  <1>0. KeysInv /\ InboxInv /\ Types /\ TurnInv /\ CommitInv /\ WaitInv /\ AloneInv /\ InGroupInv
    BY DEF ChannelInv
  <1>1. KeysInv' /\ InboxInv'
    <2>1. CASE UNCHANGED vars
      BY <1>0, <2>1, SilentStep DEF vars
    <2>2. CASE Next
      BY <1>0, <2>2, WsThreadStep, TickThreadStep, ServerStep, UpsetStep DEF Next
    <2> QED BY <2>1, <2>2
  <1>9. InGroupInv'
    BY <1>0, InGroupStep
  <1>2. CASE Handle
    BY <1>0, <1>1, <1>2, <1>9, HandleTypes, HandleTurn, HandleCommit, HandleWait, HandleAlone DEF ChannelInv
  <1>3. CASE \/ ResetRatchets \/ Welcomed \/ ForgetFirst \/ Rebuild \/ TickThread
    BY <1>0, <1>1, <1>3, <1>9, QuietStep DEF TickThread, ChannelInv
  <1>4. CASE Take
    BY <1>0, <1>1, <1>4, <1>9, TakeStep DEF ChannelInv
  <1>5. CASE Offer \/ OtherCommit \/ Execute
    BY <1>0, <1>1, <1>5, <1>9, OtherServerStep DEF ChannelInv
  <1>6. CASE Downgrade \/ StartOver \/ Revoke \/ Repeat
    BY <1>0, <1>1, <1>6, <1>9, UpsetsKeep DEF ChannelInv
  <1>7. CASE Rehandshake
    BY <1>0, <1>1, <1>7, <1>9, RehandshakeKeeps DEF ChannelInv
  <1>8. CASE UNCHANGED vars
    <2>1. UNCHANGED <<client, inbox, outbox, winner, nextId, move, server>>
      BY <1>8 DEF vars, server
    <2>2. ServerOK'
      BY <1>0, <2>1 DEF Types, ServerOK, server
    <2>3. /\ OKInbox(inbox') /\ TurnOf(inbox', nextId') /\ WaitOf(inbox', move')
          /\ IsList(outbox) /\ SenderFirst(inbox', mediaReady')
      BY <1>0, <1>1, <2>1 DEF Types, MailOK, OKOutbox, TurnInv, WaitInv, InboxInv
    <2>4. CommitInv'
      BY <1>0, <2>1, OthersCommit
    <2> QED BY <1>0, <1>1, <1>9, <2>1, <2>2, <2>3, <2>4, OthersKeep DEF ChannelInv
  <1> QED BY <1>2, <1>3, <1>4, <1>5, <1>6, <1>7, <1>8 DEF Next, WsThread, Server, Upsets

\* "Media must not flow before that" (NeverAlone): no frame is wrapped for the group
\* a client made for itself while it waits for a welcome, nor for an epoch only its
\* own commit led to, unless the websocket thread took a welcome between the watchdog's
\* throwing the group away and its making a new one. voice.cpp opens the media with a
\* welcome, or when the channel is not encrypted at all, and takes its own commit for the
\* group only when the announced one is that commit.
THEOREM NeverWrapsAlone == Spec => []NeverAlone
  <1>1. Init => ChannelInv
    BY ChannelInit
  <1>2. ChannelInv /\ [Next]_vars => ChannelInv'
    BY ChannelStep
  <1>3. ChannelInv => NeverAlone
    <2> SUFFICES ASSUME ChannelInv, Sealing, ~Midway, ~crossed PROVE group > 0
      BY DEF NeverAlone
    <2>1. InGroupInv /\ ws = "idle" /\ active /\ mediaReady
      BY DEF ChannelInv, Sealing, Midway
    <2> QED BY <2>1 DEF InGroupInv, Wrapping
  <1> QED BY <1>1, <1>2, <1>3, PTL DEF Spec

\* Every variable has its type, and a commit is kept for later (g_pending_commit) only
\* while there is a group it could be applied to.
THEOREM TypeCorrect == Spec => []TypeOK
  <1>1. Init => ChannelInv
    BY ChannelInit
  <1>2. ChannelInv /\ [Next]_vars => ChannelInv'
    BY ChannelStep
  <1>3. ChannelInv => TypeOK
    BY DEF ChannelInv, Types, FlagsOK, NumbersOK, ServerOK, TypeOK
  <1> QED BY <1>1, <1>2, <1>3, PTL DEF Spec

-----------------------------------------------------------------------------
(* Why no client is ahead of its channel: the invariant.                      *)

\* The messages that may lead a client to another epoch, and the epoch.
Leads(m) == m.op = "announce" \/ m.op = "welcome"
Reach(m) == IF m.op = "announce" THEN m.base + 1 ELSE m.epoch

\* The channel is about to stop encrypting; it encrypts again.
Falls(m) == m.op = "prepare" /\ m.version = 0
Rises(m) == m.op = "epoch" \/ (m.op = "prepare" /\ m.version = 1)

\* The word to go with transition zero, which a session starts with.
Zero(m) == m.op = "execute" /\ m.id = 0

\* Who is at epoch x by transition `id` was told to move there, or moves with it.
Under(x, id) == x <= epoch /\ (move # NoMove /\ x = epoch => id = move.id)

\* Epoch x was gone through with, and the server does not count the client as
\* one of its members: nothing the client can commit there is taken.
Old(x) == x <= live /\ (member => x < epoch)

\* The client has been told, or will be, that the channel stops encrypting.
Falling == (versionNext = 0 /\ version # 0) \/ \E m \in Said(inbox) : Falls(m)

\* The channel is at the epoch the group is, or under way to it.
LiveInv == IF move = NoMove THEN live = epoch ELSE live + 1 = epoch

\* Transition zero is over before anything is proposed.
ZeroOf(s) == \A i, j \in 1 .. Len(s) : Zero(s[i]) /\ j < i => s[j].op # "proposals"

\* Numbers of transitions and commits are used once.
DateInv ==
    /\ \A m \in Said(inbox) : m.op = "execute" /\ move # NoMove => m.id # move.id
    /\ epoch = 0 => pendingId = 0
    /\ own.ready => groupNext.number # 0 /\ \A m \in Said(inbox) : ~Zero(m)
    /\ \A e \in 1 .. TopEpoch : winner[e] <= groupNext.number
    /\ ZeroOf(inbox)

\* Nothing the client is at, kept, or has still to read leads past the epoch the
\* group is at; and to that epoch, while the channel is under way to it, only by
\* the transition that leads there. A client that has keys knows it has done that one.
ReachInv ==
    /\ group <= epoch
    /\ \A o \in Said(outbox) : o.op = "commit" => o.base <= epoch
    /\ \A m \in Said(inbox) : Leads(m) => Under(Reach(m), m.id)
    /\ pending.have => Under(pending.base + 1, pendingId)
    /\ own.won => Under(Swapped, pendingId)
    /\ mediaReady => Under(group, lastDone)

\* The word to go follows at once when the version is to change.
PairedOf(s) == \A i \in 1 .. Len(s) : s[i].op = "prepare" =>
                   i + 1 \in 1 .. Len(s) /\ s[i + 1].op = "execute"

VersionInv ==
    /\ active <=> version = 1
    /\ own.ready => active
    /\ PairedOf(inbox)
    /\ versionNext # version => inbox # <<>> /\ inbox[1].op = "execute"

\* Nothing is proposed after the i-th message before the channel encrypts again.
Dry(s, i) == \A j \in 1 .. Len(s) : i < j /\ s[j].op = "proposals" =>
                 \E l \in 1 .. Len(s) : i < l /\ l < j /\ Rises(s[l])
Lifts(s, i) == \E l \in 1 .. Len(s) : i < l /\ Rises(s[l])

\* Nothing is proposed to a channel that does not encrypt.
DryOf(s, v) ==
    /\ \A i \in 1 .. Len(s) : Falls(s[i]) => Dry(s, i) /\ (v = 0 \/ Lifts(s, i))
    /\ versionNext = 0 => Dry(s, 0) /\ (v = 0 \/ Lifts(s, 0))

DryInv == DryOf(inbox, channel)

\* Before the channel stops encrypting nothing leads to where it may have got since.
OldOf(s) == \A i, j \in 1 .. Len(s) : i < j /\ Falls(s[j]) /\ Leads(s[i]) => Old(Reach(s[i]))

FallenOK ==
    /\ Old(group)
    /\ \A o \in Said(outbox) : o.op = "commit" => Old(o.base)
    /\ pending.have => Old(pending.base + 1)
    /\ own.won => Old(Swapped)
    /\ own.ready /\ Swapped > 0 => Old(Swapped) \/ (pendingId = 0 /\ Swapped = 1)
    /\ OldOf(inbox)

FallInv == Falling => FallenOK

AheadInv == LiveInv /\ DateInv /\ ReachInv /\ VersionInv /\ DryInv /\ FallInv

-----------------------------------------------------------------------------
(* What reading and telling do to it.                                         *)

\* Reading takes the first away and leaves the others in their order.
LEMMA AheadTail ==
    ASSUME NEW s, IsList(s), s # <<>>
    PROVE  /\ ZeroOf(s) => ZeroOf(Tail(s))
           /\ PairedOf(s) => PairedOf(Tail(s))
           /\ PairedOf(s) /\ Head(s).op = "prepare" => Tail(s) # <<>> /\ Tail(s)[1].op = "execute"
           /\ OldOf(s) => OldOf(Tail(s))
           /\ OldOf(s) /\ Leads(Head(s)) /\ (\E m \in Said(Tail(s)) : Falls(m)) => Old(Reach(Head(s)))
  <1>1. /\ Len(s) \in Nat /\ Len(s) >= 1 /\ Len(Tail(s)) = Len(s) - 1 /\ Head(s) = s[1]
        /\ \A i \in 1 .. (Len(s) - 1) : Tail(s)[i] = s[i + 1]
        /\ IsList(Tail(s))
    BY ListTail
  <1>2. \A i \in 1 .. Len(Tail(s)) : i + 1 \in 1 .. Len(s) /\ Tail(s)[i] = s[i + 1]
    BY <1>1
  <1>3. ASSUME ZeroOf(s) PROVE ZeroOf(Tail(s))
    <2> SUFFICES ASSUME NEW i \in 1 .. Len(Tail(s)), NEW j \in 1 .. Len(Tail(s)),
                        Zero(Tail(s)[i]), j < i
                 PROVE  Tail(s)[j].op # "proposals"
      BY DEF ZeroOf
    <2>1. j + 1 < i + 1
      BY <1>1
    <2> QED BY <1>2, <1>3, <2>1 DEF ZeroOf
  <1>4. ASSUME PairedOf(s) PROVE PairedOf(Tail(s))
    <2> SUFFICES ASSUME NEW i \in 1 .. Len(Tail(s)), Tail(s)[i].op = "prepare"
                 PROVE  i + 1 \in 1 .. Len(Tail(s)) /\ Tail(s)[i + 1].op = "execute"
      BY DEF PairedOf
    <2>1. i + 1 \in 1 .. Len(s) /\ s[i + 1].op = "prepare"
      BY <1>2
    <2>2. (i + 1) + 1 \in 1 .. Len(s) /\ s[(i + 1) + 1].op = "execute"
      BY <1>4, <2>1 DEF PairedOf
    <2>3. i + 1 \in 1 .. Len(Tail(s))
      BY <1>1, <2>2
    <2> QED BY <1>2, <2>2, <2>3
  <1>5. ASSUME PairedOf(s), Head(s).op = "prepare" PROVE Tail(s) # <<>> /\ Tail(s)[1].op = "execute"
    <2>1. 1 \in 1 .. Len(s) /\ s[1].op = "prepare"
      BY <1>1, <1>5
    <2>2. 1 + 1 \in 1 .. Len(s) /\ s[1 + 1].op = "execute"
      BY <1>5, <2>1 DEF PairedOf
    <2>3. 1 \in 1 .. Len(Tail(s)) /\ Len(Tail(s)) # 0
      BY <1>1, <2>2
    <2> QED BY <1>2, <2>2, <2>3, ListEmpty
  <1>6. ASSUME OldOf(s) PROVE OldOf(Tail(s))
    <2> SUFFICES ASSUME NEW i \in 1 .. Len(Tail(s)), NEW j \in 1 .. Len(Tail(s)), i < j,
                        Falls(Tail(s)[j]), Leads(Tail(s)[i])
                 PROVE  Old(Reach(Tail(s)[i]))
      BY DEF OldOf
    <2>1. i + 1 < j + 1
      BY <1>1
    <2> QED BY <1>2, <1>6, <2>1 DEF OldOf
  <1>7. ASSUME OldOf(s), Leads(Head(s)), NEW m \in Said(Tail(s)), Falls(m) PROVE Old(Reach(Head(s)))
    <2>1. PICK j \in 1 .. Len(Tail(s)) : m = Tail(s)[j]
      BY DEF Said
    <2>2. 1 \in 1 .. Len(s) /\ j + 1 \in 1 .. Len(s) /\ 1 < j + 1 /\ Falls(s[j + 1])
      BY <1>1, <1>2, <1>7, <2>1
    <2> QED BY <1>1, <1>7, <2>2 DEF OldOf
  <1> QED BY <1>3, <1>4, <1>5, <1>6, <1>7

\* Reading what does not lift leaves what does to be read.
LEMMA DryTail ==
    ASSUME NEW s, IsList(s), s # <<>>, NEW i \in Nat, i >= 1 \/ ~Rises(Head(s))
    PROVE  LET h == IF i = 0 THEN 0 ELSE i - 1 IN
           /\ Dry(s, i) => Dry(Tail(s), h)
           /\ Lifts(s, i) => Lifts(Tail(s), h)
  <1> DEFINE h == IF i = 0 THEN 0 ELSE i - 1
  <1>1. /\ Len(s) \in Nat /\ Len(s) >= 1 /\ Len(Tail(s)) = Len(s) - 1 /\ Head(s) = s[1]
        /\ \A j \in 1 .. (Len(s) - 1) : Tail(s)[j] = s[j + 1]
    BY ListTail
  <1>2. ASSUME NEW l \in 1 .. Len(s), i < l, Rises(s[l])
        PROVE  l - 1 \in 1 .. Len(Tail(s)) /\ h < l - 1 /\ Rises(Tail(s)[l - 1])
    <2>1. l # 1
      BY <1>1, <1>2
    <2>2. l - 1 \in 1 .. (Len(s) - 1) /\ (l - 1) + 1 = l /\ h < l - 1
      BY <1>1, <2>1, <1>2
    <2> QED BY <1>1, <1>2, <2>2
  <1> HIDE DEF h
  <1>3. Lifts(s, i) => Lifts(Tail(s), h)
    BY <1>2 DEF Lifts
  <1>4. ASSUME Dry(s, i), NEW j \in 1 .. Len(Tail(s)), h < j, Tail(s)[j].op = "proposals"
        PROVE  \E l \in 1 .. Len(Tail(s)) : h < l /\ l < j /\ Rises(Tail(s)[l])
    <2>1. j + 1 \in 1 .. Len(s) /\ i < j + 1 /\ s[j + 1] = Tail(s)[j]
      BY <1>1, <1>4 DEF h
    <2>2. PICK l \in 1 .. Len(s) : i < l /\ l < j + 1 /\ Rises(s[l])
      BY <1>4, <2>1 DEF Dry
    <2>3. l - 1 \in 1 .. Len(Tail(s)) /\ h < l - 1 /\ l - 1 < j /\ Rises(Tail(s)[l - 1])
      BY <1>1, <1>2, <2>2
    <2> QED BY <2>3
  <1> QED BY <1>3, <1>4 DEF Dry, h

\* A message more: proposals only to a channel that will encrypt again.
LEMMA DryAppend ==
    ASSUME NEW s, IsList(s), NEW m, NEW i \in Nat, i <= Len(s)
    PROVE  /\ Dry(s, i) /\ (m.op = "proposals" => Lifts(s, i)) => Dry(Append(s, m), i)
           /\ Lifts(s, i) \/ Rises(m) => Lifts(Append(s, m), i)
  <1> DEFINE t == Append(s, m)
  <1>1. /\ Len(s) \in Nat /\ Len(t) = Len(s) + 1
        /\ \A j \in 1 .. Len(s) : t[j] = s[j]
        /\ t[Len(s) + 1] = m
    BY ListAppend
  <1> HIDE DEF t
  <1>2. \A j \in 1 .. Len(s) : j \in 1 .. Len(t) /\ t[j] = s[j] /\ j < Len(s) + 1
    BY <1>1
  <1>3. Len(s) + 1 \in 1 .. Len(t) /\ i < Len(s) + 1
    BY <1>1
  <1>4. Lifts(s, i) \/ Rises(m) => Lifts(t, i)
    <2>1. CASE Lifts(s, i)
      BY <1>2, <2>1 DEF Lifts
    <2>2. CASE Rises(m)
      BY <1>1, <1>3, <2>2 DEF Lifts
    <2> QED BY <2>1, <2>2
  <1>5. ASSUME Dry(s, i), m.op = "proposals" => Lifts(s, i) PROVE Dry(t, i)
    <2> SUFFICES ASSUME NEW j \in 1 .. Len(t), i < j, t[j].op = "proposals"
                 PROVE  \E l \in 1 .. Len(t) : i < l /\ l < j /\ Rises(t[l])
      BY DEF Dry
    <2>1. CASE j \in 1 .. Len(s)
      <3>1. PICK l \in 1 .. Len(s) : i < l /\ l < j /\ Rises(s[l])
        BY <1>2, <1>5, <2>1 DEF Dry
      <3> QED BY <1>2, <3>1
    <2>2. CASE j = Len(s) + 1
      <3>1. PICK l \in 1 .. Len(s) : i < l /\ Rises(s[l])
        BY <1>1, <1>5, <2>2 DEF Lifts
      <3> QED BY <1>2, <2>2, <3>1
    <2> QED BY <1>1, <2>1, <2>2
  <1> QED BY <1>4, <1>5 DEF t

-----------------------------------------------------------------------------
(* What is old stays old.                                                     *)

\* The numbers are numbers.
LEMMA ServerNumbers ==
    ASSUME Types
    PROVE  /\ epoch \in Nat /\ live \in Nat /\ live <= epoch /\ TopEpoch \in Nat
           /\ group \in Int /\ groupNext.base \in Int /\ groupNext.number \in Nat
           /\ Swapped \in Int /\ (own.ready \in BOOLEAN) /\ (own.won \in BOOLEAN)
           /\ move # NoMove => epoch > 0 /\ move.id \in Nat /\ move.id # 0 /\ move.id = nextId - 1
           /\ pendingId \in Nat /\ lastDone \in Int /\ nextId \in Nat
           /\ pending.have => pending.base \in Nat
           /\ Packages \in Nat
  <1>1. epoch \in Nat /\ live \in Nat /\ live <= epoch /\ TopEpoch \in Nat /\ Packages \in Nat
    BY ConstantBounds DEF Types, ServerOK
  <1>2. group \in Int /\ groupNext.base \in Int /\ groupNext.number \in Nat
    BY <1>1 DEF Types, NumbersOK, Groups, Fork
  <1>3. Swapped \in Int
    BY <1>1, <1>2 DEF Swapped, Fork
  <1>4. move # NoMove => epoch > 0 /\ move.id \in Nat /\ move.id # 0 /\ move.id = nextId - 1
    BY <1>1 DEF Types, ServerOK
  <1> QED BY <1>1, <1>2, <1>3, <1>4 DEF Types, FlagsOK, NumbersOK, ServerOK

\* A group of one, or none anybody has, leads nowhere.
LEMMA LowIsOld ==
    ASSUME Types, LiveInv, NEW x \in Int, x <= 0
    PROVE  /\ \A id : Under(x, id)
           /\ x < 0 => Old(x)
  <1>1. epoch \in Nat /\ live \in Nat /\ (move # NoMove => epoch > 0)
    BY ServerNumbers
  <1> QED BY <1>1 DEF Under, Old

\* What is old is over, by whatever transition.
LEMMA OldIsUnder ==
    ASSUME Types, LiveInv, NEW x \in Int, Old(x) PROVE \A id : Under(x, id)
  <1>1. epoch \in Nat /\ live \in Nat /\ live <= epoch
    BY ServerNumbers
  <1>2. move # NoMove => live + 1 = epoch
    BY DEF LiveInv
  <1> QED BY <1>1, <1>2 DEF Under, Old

\* What comes before what is old is older.
LEMMA OlderIsOld ==
    ASSUME Types, NEW x \in Int, NEW y \in Int, Old(x), y <= x PROVE Old(y)
  <1>1. epoch \in Nat /\ live \in Nat
    BY ServerNumbers
  <1> QED BY <1>1 DEF Old

\* A message leads to an epoch, and never to none.
LEMMA ReachIs ==
    ASSUME NEW m, InOK(m), Leads(m) PROVE Reach(m) \in Nat /\ Reach(m) >= 1 /\ m.id \in Nat
  <1>1. CASE m.op = "announce"
    <2>1. Reach(m) = m.base + 1 /\ m.base \in Nat /\ m.id \in Nat
      BY <1>1 DEF Reach, InOK
    <2> QED BY <2>1
  <1>2. CASE m.op = "welcome"
    <2>1. Reach(m) = m.epoch /\ m.epoch \in 1 .. TopEpoch /\ m.id \in Nat
      BY <1>2 DEF Reach, InOK
    <2> QED BY <2>1, ConstantBounds
  <1> QED BY <1>1, <1>2 DEF Leads

\* Our own commit, announced, leads where the copy of the group does.
LEMMA MineLeads ==
    ASSUME Types, CommitInv, NEW m \in Said(inbox), InOK(m), m.op = "announce", m.mine,
           m.number = groupNext.number
    PROVE  Swapped = Reach(m)
  <1>1. /\ m.number # 0 /\ winner[m.base + 1] = m.number
        /\ m.base + 1 = Target(groupNext.base)
        /\ m.base \in Nat /\ m.base < TopEpoch
    BY DEF CommitInv, InOK
  <1>2. /\ Target(groupNext.base) <= TopEpoch
        /\ winner[Target(groupNext.base)] = groupNext.number
    BY <1>1, ConstantBounds
  <1>3. Swapped = Target(groupNext.base)
    BY <1>2 DEF Swapped, Target
  <1> QED BY <1>1, <1>3 DEF Reach

\* A commit of ours leads no further than the channel is.
LEMMA SwapKnown ==
    ASSUME Types, DateInv, own.ready PROVE Swapped <= epoch
  <1> DEFINE e == IF groupNext.base > 0 THEN groupNext.base + 1 ELSE 1
  <1>1. /\ groupNext.number # 0 /\ epoch \in Nat /\ groupNext.base \in Int
        /\ TopEpoch \in Nat /\ Packages \in Nat
    BY ServerNumbers DEF DateInv
  <1>2. CASE e <= TopEpoch /\ winner[e] = groupNext.number
    <2>1. e \in 1 .. TopEpoch
      BY <1>1, <1>2
    <2>2. e <= epoch
      BY <1>1, <1>2, <2>1 DEF Types, ServerOK
    <2>3. Swapped = e
      BY <1>2 DEF Swapped
    <2> QED BY <2>2, <2>3
  <1>3. CASE ~(e <= TopEpoch /\ winner[e] = groupNext.number)
    <2>1. Swapped = Fork
      BY <1>3 DEF Swapped
    <2> QED BY <1>1, <2>1 DEF Fork
  <1> QED BY <1>2, <1>3

-----------------------------------------------------------------------------
(* What a handler needs to know of the version.                               *)

\* The word to go while the version is to change, changes it.
LEMMA ExecuteChanges ==
    ASSUME Handle, NEW m, m = Head(inbox), VersionInv, IsList(inbox), versionNext # version
    PROVE  m.op = "execute" /\ ChangeVersion
  <1>1. inbox # <<>> /\ m.op = "execute"
    BY ListTail DEF Handle, VersionInv
  <1>2. OnExecute(m)
    BY <1>1 DEF Handle
  <1> QED BY <1>1, <1>2 DEF OnExecute

\* The version is announced by nobody else.
LEMMA HandlerVersion ==
    ASSUME Types, Handle, NEW m, m = Head(inbox), InOK(m), VersionInv
    PROVE  \/ /\ UNCHANGED <<active, version, versionNext>> /\ versionNext = version
              /\ m.op # "prepare" /\ m.op # "epoch"
           \/ /\ m.op = "prepare" /\ versionNext' = m.version /\ UNCHANGED <<active, version>>
              /\ versionNext = version
           \/ m.op = "epoch" /\ active' = TRUE /\ version' = 1 /\ versionNext' = 1
           \/ /\ m.op = "execute" /\ versionNext # version /\ version' = versionNext
              /\ versionNext' = versionNext /\ (active' <=> versionNext = 1)
              /\ ChangeVersion
  <1>1. IsList(inbox)
    BY DEF Types, MailOK, OKInbox
  <1>2. CASE versionNext # version
    <2>1. m.op = "execute" /\ ChangeVersion
      BY <1>1, <1>2, ExecuteChanges
    <2>2. versionNext \in 0 .. 1
      BY DEF Types, NumbersOK
    <2>3. version' = versionNext /\ versionNext' = versionNext /\ (active' <=> versionNext = 1)
      BY <2>1, <2>2 DEF ChangeVersion
    <2> QED BY <1>2, <2>1, <2>3
  <1>3. CASE versionNext = version
    <2>1. CASE m.op = "sender" /\ OnSender
      BY <1>3, <2>1 DEF OnSender
    <2>2. CASE m.op = "proposals" /\ OnProposals(m)
      BY <1>3, <2>2 DEF OnProposals
    <2>3. CASE m.op = "revoke" /\ OnRevoke
      BY <1>3, <2>3 DEF OnRevoke
    <2>4. CASE m.op = "welcome" /\ OnWelcome(m)
      BY <1>3, <2>4 DEF OnWelcome, client
    <2>5. CASE m.op = "announce" /\ OnAnnounce(m)
      BY <1>3, <2>5 DEF OnAnnounce, OnAnnounceNow, OnAnnounceLater, client
    <2>6. CASE m.op = "prepare" /\ OnPrepare(m)
      BY <1>3, <2>6 DEF OnPrepare
    <2>7. CASE m.op = "execute" /\ OnExecute(m)
      BY <1>3, <2>7 DEF OnExecute, Swap, Missed, ApplyPending, client
    <2>8. CASE m.op = "epoch" /\ OnEpochOne
      BY <1>3, <2>8 DEF OnEpochOne
    <2> QED BY <2>1, <2>2, <2>3, <2>4, <2>5, <2>6, <2>7, <2>8 DEF Handle
  <1> QED BY <1>2, <1>3

\* A handler leaves a commit of ours as it was, makes one more, or has none.
LEMMA HandlerOwn ==
    ASSUME Types, Handle, NEW m, m = Head(inbox)
    PROVE  \/ ~own'.ready
           \/ /\ own.ready /\ groupNext' = groupNext
              /\ pendingId' = pendingId \/ (m.op = "announce" /\ m.id # 0 /\ OnAnnounceLater(m))
              /\ ~(versionNext # version /\ versionNext = 0 /\ ChangeVersion)
           \/ m.op = "proposals" /\ groupNext' = [base |-> group, number |-> groupNext.number + 1]
  <1>0. own \in [ready : BOOLEAN, won : BOOLEAN]
    BY DEF Types, FlagsOK
  <1>1. CASE Ignored \/ OnSender \/ OnRevoke \/ Enters(m) \/ OnAnnounceNow(m) \/ OnPrepare(m)
             \/ Applied(m.id)
    <2>1. UNCHANGED <<own, groupNext, pendingId, version>>
      BY <1>1 DEF Ignored, client, OnSender, OnRevoke, Enters, OnAnnounceNow, OnPrepare, Applied
    <2> QED BY <2>1 DEF ChangeVersion
  <1>6. CASE OnEpochOne
    <2>1. UNCHANGED <<own, groupNext, pendingId>> /\ version' = 1
      BY <1>6 DEF OnEpochOne
    <2> QED BY <2>1 DEF ChangeVersion
  <1>2. CASE m.op = "proposals" /\ OnProposals(m)
    <2>1. UNCHANGED <<version, pendingId>>
      BY <1>2 DEF OnProposals
    <2> QED BY <1>2, <2>1 DEF OnProposals, ChangeVersion
  <1>3. CASE Refused(m) \/ Swap(m.id)
    BY <1>3 DEF Refused, Forget, Swap, OwnNone
  <1>4. CASE m.op = "announce" /\ m.id # 0 /\ OnAnnounceLater(m)
    <2>1. own'.ready = own.ready /\ UNCHANGED <<groupNext, version>>
      BY <1>0, <1>4 DEF OnAnnounceLater
    <2> QED BY <1>4, <2>1 DEF ChangeVersion
  <1>5. CASE ChangeVersion
    BY <1>5 DEF ChangeVersion, OwnNone
  <1> QED BY <1>1, <1>2, <1>3, <1>4, <1>5, <1>6, HandlerIs

-----------------------------------------------------------------------------
(* A handler keeps it.                                                        *)

\* What it reads, and what is left.
LEMMA HandlerReads ==
    ASSUME Types, Handle, NEW m, m = Head(inbox)
    PROVE  /\ inbox # <<>> /\ inbox' = Tail(inbox) /\ IsList(inbox) /\ IsList(inbox') /\ UNCHANGED server
           /\ m = inbox[1] /\ 1 \in 1 .. Len(inbox) /\ m \in Said(inbox) /\ InOK(m) /\ OKInbox(inbox)
           /\ Said(inbox') \subseteq Said(inbox)
           /\ UNCHANGED <<epoch, live, winner, member, channel, move, nextId>>
           /\ ws = "idle"
  <1>1. inbox # <<>> /\ inbox' = Tail(inbox) /\ IsList(inbox) /\ UNCHANGED server /\ OKInbox(inbox)
        /\ ws = "idle"
    BY HandlerIs DEF Types, MailOK, OKInbox
  <1>2. /\ Said(inbox') \subseteq Said(inbox) /\ m \in Said(inbox) /\ InOK(m) /\ IsList(inbox')
    BY <1>1, SaidTail, InboxTail DEF OKInbox
  <1>3. m = inbox[1] /\ 1 \in 1 .. Len(inbox)
    BY <1>1, ListTail
  <1> QED BY <1>1, <1>2, <1>3 DEF server

\* Proposals are not read while the channel does not encrypt.
LEMMA NoneProposed ==
    ASSUME Types, DryInv, VersionInv, Handle, NEW m, m = Head(inbox), m.op = "proposals"
    PROVE  active
  <1>1. /\ inbox # <<>> /\ m = inbox[1] /\ 1 \in 1 .. Len(inbox) /\ IsList(inbox)
    BY HandlerReads
  <1>2. versionNext = version
    BY <1>1 DEF VersionInv
  <1>3. version \in 0 .. 1
    BY DEF Types, NumbersOK
  <1>4. CASE versionNext = 0
    <2>1. Dry(inbox, 0)
      BY <1>4 DEF DryInv, DryOf
    <2>2. PICK l \in 1 .. Len(inbox) : 0 < l /\ l < 1 /\ Rises(inbox[l])
      BY <1>1, <2>1 DEF Dry
    <2> QED BY <2>2
  <1> QED BY <1>2, <1>3, <1>4 DEF VersionInv

\* A handler keeps the version in step.
LEMMA HandleVersion ==
    ASSUME Types, DryInv, VersionInv, Handle PROVE VersionInv'
  <1> DEFINE m == Head(inbox)
  <1>1. /\ inbox # <<>> /\ inbox' = Tail(inbox) /\ IsList(inbox) /\ InOK(m) /\ m = inbox[1]
    BY HandlerReads
  <1>2. PairedOf(inbox) /\ PairedOf(inbox')
        /\ (m.op = "prepare" => inbox' # <<>> /\ inbox'[1].op = "execute")
    BY <1>1, AheadTail DEF VersionInv
  <1> HIDE DEF m
  <1>3. \/ /\ UNCHANGED <<active, version, versionNext>> /\ versionNext = version
           /\ m.op # "prepare" /\ m.op # "epoch"
        \/ /\ m.op = "prepare" /\ versionNext' = m.version /\ UNCHANGED <<active, version>>
           /\ versionNext = version
        \/ m.op = "epoch" /\ active' = TRUE /\ version' = 1 /\ versionNext' = 1
        \/ /\ m.op = "execute" /\ versionNext # version /\ version' = versionNext
           /\ versionNext' = versionNext /\ (active' <=> versionNext = 1)
           /\ ChangeVersion
    BY <1>1, HandlerVersion DEF m
  <1>4. active' <=> version' = 1
    BY <1>3 DEF VersionInv
  <1>5. versionNext' # version' => inbox' # <<>> /\ inbox'[1].op = "execute"
    BY <1>2, <1>3
  <1>6. ASSUME own'.ready PROVE active'
    <2>1. CASE m.op = "proposals"
      <3>1. active
        BY <2>1, NoneProposed DEF m
      <3> QED BY <1>3, <2>1, <3>1
    <2>2. CASE own.ready /\ ~(versionNext # version /\ versionNext = 0 /\ ChangeVersion)
      <3>1. active /\ version = 1
        BY <2>2 DEF VersionInv
      <3>2. versionNext \in 0 .. 1
        BY DEF Types, NumbersOK
      <3>3. CASE versionNext # version /\ ChangeVersion /\ (active' <=> versionNext = 1)
        <4>1. versionNext = 1
          BY <2>2, <3>2, <3>3
        <4> QED BY <3>3, <4>1
      <3> QED BY <1>3, <3>1, <3>3
    <2> QED BY <1>6, <2>1, <2>2, HandlerOwn DEF m
  <1> QED BY <1>2, <1>4, <1>5, <1>6 DEF VersionInv

\* A handler leaves what lifts to be read before what is proposed.
LEMMA HandleDry ==
    ASSUME Types, DryInv, VersionInv, Handle PROVE DryInv'
  <1> DEFINE m == Head(inbox)
  <1>1. /\ inbox # <<>> /\ inbox' = Tail(inbox) /\ IsList(inbox) /\ InOK(m) /\ m = inbox[1]
        /\ channel' = channel /\ 1 \in 1 .. Len(inbox)
    BY HandlerReads
  <1>2. /\ Len(inbox) \in Nat /\ Len(inbox') = Len(inbox) - 1
        /\ \A i \in 1 .. (Len(inbox) - 1) : inbox'[i] = inbox[i + 1]
    BY <1>1, ListTail
  <1> HIDE DEF m
  <1>3. ASSUME NEW i \in 1 .. Len(inbox), Falls(inbox[i])
        PROVE  Dry(inbox', i - 1) /\ (channel = 0 \/ Lifts(inbox', i - 1))
    <2>1. Dry(inbox, i) /\ (channel = 0 \/ Lifts(inbox, i))
      BY <1>3 DEF DryInv, DryOf
    <2>2. i \in Nat /\ i >= 1
      BY <1>2
    <2> QED BY <1>1, <2>1, <2>2, DryTail
  <1>4. ASSUME NEW i \in 1 .. Len(inbox'), Falls(inbox'[i])
        PROVE  Dry(inbox', i) /\ (channel = 0 \/ Lifts(inbox', i))
    <2>1. i + 1 \in 1 .. Len(inbox) /\ inbox'[i] = inbox[i + 1] /\ (i + 1) - 1 = i
      BY <1>2
    <2> QED BY <1>3, <1>4, <2>1
  <1>5. ASSUME versionNext' = 0
        PROVE  Dry(inbox', 0) /\ (channel = 0 \/ Lifts(inbox', 0))
    <2>1. m.op # "epoch" /\ (m.op = "prepare" => m.version = 0)
          /\ (m.op # "prepare" => versionNext = 0)
      BY <1>1, <1>5, HandlerVersion DEF m
    <2>2. CASE m.op = "prepare"
      <3>1. Falls(inbox[1]) /\ 1 - 1 = 0
        BY <1>1, <2>1, <2>2 DEF Falls
      <3> QED BY <1>1, <1>3, <3>1
    <2>3. CASE m.op # "prepare"
      <3>1. Dry(inbox, 0) /\ (channel = 0 \/ Lifts(inbox, 0))
        BY <2>1, <2>3 DEF DryInv, DryOf
      <3>2. ~Rises(Head(inbox)) /\ 0 \in Nat
        BY <2>1, <2>3 DEF Rises, m
      <3> QED BY <1>1, <3>1, <3>2, DryTail
    <2> QED BY <2>2, <2>3
  <1> QED BY <1>1, <1>4, <1>5 DEF DryInv, DryOf

\* A handler keeps the numbers.
LEMMA HandleDate ==
    ASSUME Types, CommitInv, DateInv, ReachInv, Handle PROVE DateInv'
  <1> DEFINE m == Head(inbox)
  <1>1. /\ inbox # <<>> /\ inbox' = Tail(inbox) /\ IsList(inbox) /\ InOK(m) /\ m \in Said(inbox)
        /\ UNCHANGED <<winner, move, epoch>> /\ Said(inbox') \subseteq Said(inbox)
        /\ m = inbox[1] /\ 1 \in 1 .. Len(inbox) /\ OKInbox(inbox)
    BY HandlerReads
  <1> HIDE DEF m
  <1>2. /\ groupNext.number \in Nat /\ epoch \in Nat
    BY ServerNumbers
  <1>3. ZeroOf(inbox')
    BY <1>1, AheadTail DEF DateInv
  <1>4. groupNext'.number = groupNext.number \/ groupNext'.number = groupNext.number + 1
    BY HandlerRemembers DEF m
  <1>5. winner \in [1 .. TopEpoch -> Nat]
    BY DEF Types, ServerOK
  <1>6. ASSUME NEW e \in 1 .. TopEpoch PROVE winner'[e] <= groupNext'.number
    <2>1. winner[e] \in Nat /\ winner[e] <= groupNext.number
      BY <1>5 DEF DateInv
    <2> QED BY <1>1, <1>2, <1>4, <2>1
  <1>7. ASSUME epoch = 0 PROVE pendingId' = 0
    <2>1. ~Leads(m)
      <3> SUFFICES ASSUME Leads(m) PROVE FALSE
        OBVIOUS
      <3>1. Under(Reach(m), m.id) /\ Reach(m) >= 1 /\ Reach(m) \in Nat
        BY <1>1, ReachIs DEF ReachInv
      <3> QED BY <1>7, <3>1 DEF Under
    <2>2. m.op # "announce"
      BY <2>1 DEF Leads
    <2>3. pendingId' = pendingId
      <3>1. CASE OnProposals(m) \/ Ignored \/ OnSender \/ OnRevoke \/ Enters(m) \/ Refused(m)
                 \/ OnPrepare(m) \/ OnEpochOne \/ ChangeVersion \/ Swap(m.id) \/ Applied(m.id)
        BY <3>1 DEF OnProposals, Ignored, client, OnSender, OnRevoke, Enters, Refused, OnPrepare,
                    OnEpochOne, ChangeVersion, Swap, Applied
      <3> QED BY <2>2, <3>1, HandlerIs DEF m
    <2> QED BY <1>7, <2>3 DEF DateInv
  <1>8. ASSUME own'.ready PROVE groupNext'.number # 0 /\ \A a \in Said(inbox') : ~Zero(a)
    <2>1. CASE own.ready /\ groupNext' = groupNext
      BY <1>1, <2>1 DEF DateInv
    <2>2. CASE m.op = "proposals" /\ groupNext' = [base |-> group, number |-> groupNext.number + 1]
      <3>1. groupNext'.number = groupNext.number + 1
        BY <2>2
      <3>2. ASSUME NEW a \in Said(inbox'), Zero(a) PROVE FALSE
        <4>1. a \in Said(inbox)
          BY <1>1
        <4>2. PICK i \in 1 .. Len(inbox) : a = inbox[i]
          BY <4>1 DEF Said
        <4>3. i # 1
          BY <1>1, <2>2, <3>2, <4>2 DEF Zero
        <4>4. 1 < i
          BY <4>2, <4>3
        <4> QED BY <1>1, <2>2, <3>2, <4>2, <4>4 DEF DateInv, ZeroOf
      <3> QED BY <1>2, <3>1, <3>2
    <2> QED BY <1>8, <2>1, <2>2, HandlerOwn DEF m
  <1> QED BY <1>1, <1>3, <1>6, <1>7, <1>8 DEF DateInv

\* Our own commit that was announced leads where the copy does, before and after.
LEMMA HandlerWon ==
    ASSUME Types, CommitInv, Handle, NEW m, m = Head(inbox), own'.won
    PROVE  \/ own.won /\ pendingId' = pendingId /\ Swapped' = Swapped
           \/ m.op = "announce" /\ pendingId' = m.id /\ Swapped' = Reach(m)
  <1>1. UNCHANGED winner /\ m \in Said(inbox) /\ InOK(m)
    BY HandlerReads
  <1>2. groupNext' = groupNext
    BY HandlerRemembers, HandlerWins DEF Types
  <1>3. Swapped' = Swapped
    BY <1>1, <1>2 DEF Swapped
  <1>4. CASE m.op = "announce" /\ m.mine /\ m.number = groupNext.number /\ pendingId' = m.id
    BY <1>1, <1>3, <1>4, MineLeads
  <1> QED BY <1>3, <1>4, HandlerWins DEF Types

\* What a handler keeps for later it has just read, or kept before.
LEMMA HandlerKept ==
    ASSUME Types, Handle, NEW m, m = Head(inbox), pending'.have
    PROVE  \/ pending.have /\ pending' = pending /\ pendingId' = pendingId
           \/ m.op = "announce" /\ pendingId' = m.id /\ pending'.base + 1 = Reach(m)
  <1>1. CASE Ignored \/ OnSender \/ OnRevoke \/ OnProposals(m) \/ Enters(m) \/ OnAnnounceNow(m)
             \/ OnPrepare(m) \/ OnEpochOne
    BY <1>1 DEF Ignored, client, OnSender, OnRevoke, OnProposals, Enters, OnAnnounceNow, OnPrepare,
                OnEpochOne
  <1>2. CASE Refused(m) \/ Swap(m.id) \/ Applied(m.id)
    BY <1>2 DEF Refused, Forget, Swap, Applied, NoCommit
  <1>3. CASE m.op = "announce" /\ OnAnnounceLater(m)
    <2>1. PICK mine \in {FALSE, own.ready /\ m.mine /\ m.number = groupNext.number} :
          /\ pending' = IF mine THEN NoCommit
                        ELSE [have |-> TRUE, base |-> m.base, mine |-> m.mine]
          /\ pendingId' = m.id
      BY <1>3 DEF OnAnnounceLater
    <2>2. CASE mine
      BY <2>1, <2>2 DEF NoCommit
    <2>3. CASE ~mine
      BY <1>3, <2>1, <2>3 DEF Reach
    <2> QED BY <2>2, <2>3
  <1>4. CASE ChangeVersion
    BY <1>4 DEF ChangeVersion, NoCommit
  <1> QED BY <1>1, <1>2, <1>3, <1>4, HandlerIs

\* Where a handler leaves the group.
GroupGoes(m) ==
    \/ group' = group /\ lastDone' = lastDone /\ (mediaReady' => mediaReady)
    \/ group' < 0 /\ group' \in Int
    \/ ~mediaReady' /\ group' = group
    \/ m.op = "welcome" /\ group' = Reach(m) /\ lastDone' = m.id
    \/ m.op = "announce" /\ m.id = 0 /\ group' = Reach(m)
    \/ versionNext # version /\ versionNext = 0 /\ group' = group
    \/ /\ m.op = "execute" /\ m.id # lastDone /\ OwnWon(m.id) /\ group' = Swapped /\ lastDone' = m.id
       /\ mediaReady' = mediaReady
    \/ /\ m.op = "execute" /\ m.id = pendingId /\ pending.have /\ group' = pending.base + 1
       /\ lastDone' = m.id

\* It does so.
LEMMA HandlerGoes ==
    ASSUME Types, Handle, NEW m, m = Head(inbox) PROVE GroupGoes(m)
  <1> USE DEF GroupGoes
  <1>1. CASE Ignored \/ OnRevoke \/ OnProposals(m) \/ OnAnnounceLater(m) \/ OnPrepare(m) \/ OnEpochOne
    BY <1>1 DEF Ignored, client, OnRevoke, OnProposals, OnAnnounceLater, OnPrepare, OnEpochOne
  <1>2. CASE OnSender
    <2>1. SendKeyPackage
      BY <1>2 DEF OnSender
    <2>2. package \in Nat /\ package % Packages \in 0 .. (Packages - 1)
      BY ConstantBounds DEF Types, NumbersOK
    <2>3. package' \in Nat /\ package' > 0
      BY <2>1, <2>2, ConstantBounds DEF SendKeyPackage, After
    <2>5. \A k \in Nat : k > 0 => -k < 0 /\ -k \in Int
      OBVIOUS
    <2>4. group' < 0 /\ group' \in Int
      BY <2>1, <2>3, <2>5 DEF SendKeyPackage
    <2> QED BY <2>4
  <1>3. CASE m.op = "welcome" /\ Enters(m)
    BY <1>3 DEF Enters, Reach
  <1>4. CASE Refused(m)
    BY <1>4 DEF Refused, Forget
  <1>5. CASE m.op = "announce" /\ m.id = 0 /\ OnAnnounceNow(m)
    <2>1. mediaReady' = mediaReady /\ lastDone' = lastDone
          /\ (group' = group \/ group' = m.base + 1)
      BY <1>5 DEF OnAnnounceNow
    <2> QED BY <1>5, <2>1 DEF Reach
  <1>6. CASE versionNext # version /\ ChangeVersion
    BY <1>6 DEF ChangeVersion
  <1>7. CASE m.op = "execute" /\ m.id # lastDone /\ OwnWon(m.id) /\ Swap(m.id)
    BY <1>7 DEF Swap
  <1>8. CASE m.op = "execute" /\ m.id = pendingId /\ pending.have /\ Applied(m.id)
    BY <1>8 DEF Applied
  <1> QED BY <1>1, <1>2, <1>3, <1>4, <1>5, <1>6, <1>7, <1>8, HandlerIs

\* A client that has keys goes over to its own commit only if that was announced.
LEMMA KeyedSwap ==
    ASSUME Types, TurnInv, WaitInv, VersionInv, Handle, NEW m, m = Head(inbox), m.op = "execute",
           m.id # lastDone, OwnWon(m.id), mediaReady
    PROVE  own.won
  <1>1. InOK(m) /\ m = inbox[1] /\ 1 \in 1 .. Len(inbox) /\ ws = "idle"
    BY HandlerReads
  <1>2. SUFFICES ASSUME ~own.won PROVE FALSE
    OBVIOUS
  <1>3. own.ready /\ ~pending.have /\ m.id = pendingId
    BY <1>2 DEF OwnWon
  <1>4. Wrapping
    BY <1>1, <1>3 DEF Wrapping, VersionInv
  <1>5. lastDone <= m.id /\ m.id \in Nat /\ lastDone \in Int
    BY <1>1 DEF TurnInv, TurnOf, Before, Past, Dated, InOK, Types, NumbersOK
  <1>6. Awaits
    BY <1>3, <1>4, <1>5 DEF Awaits
  <1> QED BY <1>2, <1>3, <1>6 DEF WaitInv, WaitOf

\* A handler leads the client no further than the channel is.
LEMMA HandleReach ==
    ASSUME Types, TurnInv, WaitInv, CommitInv, LiveInv, DateInv, ReachInv, VersionInv, FallInv, Handle
    PROVE  ReachInv'
  <1> DEFINE m == Head(inbox)
  <1>1. /\ InOK(m) /\ m \in Said(inbox) /\ Said(inbox') \subseteq Said(inbox)
        /\ UNCHANGED <<epoch, live, winner, member, channel, move, nextId>>
    BY HandlerReads
  <1> HIDE DEF m
  <1>2. \A x, id : Under(x, id)' <=> Under(x, id)
    BY <1>1 DEF Under
  <1>3. /\ epoch \in Nat /\ group \in Int /\ pendingId \in Nat
        /\ move # NoMove => epoch > 0 /\ move.id # 0
    BY ServerNumbers
  <1>4. \A a \in Said(inbox') : Leads(a) => Under(Reach(a), a.id)'
    BY <1>1, <1>2 DEF ReachInv
  <1>5. Leads(m) => Under(Reach(m), m.id) /\ Reach(m) \in Nat
    BY <1>1, ReachIs DEF ReachInv
  <1>6. ASSUME pending'.have PROVE Under(pending.base + 1, pendingId)'
    <2>1. Under(pending'.base + 1, pendingId')
      BY <1>5, <1>6, HandlerKept DEF ReachInv, Leads, m
    <2> QED BY <1>1, <2>1 DEF Under
  <1>7. ASSUME own'.won PROVE Under(Swapped, pendingId)'
    <2>1. Under(Swapped', pendingId')
      BY <1>5, <1>7, HandlerWon DEF ReachInv, Leads, m
    <2> QED BY <1>1, <2>1 DEF Under
  <1>8. ASSUME NEW o \in Said(outbox'), o.op = "commit" PROVE o.base <= epoch
    <2>1. CASE o \in Said(outbox)
      BY <1>8, <2>1 DEF ReachInv
    <2>2. CASE o \notin Said(outbox)
      <3>1. PICK p : /\ outbox' = Append(outbox, p)
                     /\ p.op = "commit" => p.base = group
        BY <1>1, <2>2, HandlerSays DEF m, Types
      <3>2. o = p
        BY <2>2, <3>1, SaidAppend DEF Types, MailOK, OKOutbox
      <3> QED BY <1>8, <3>1, <3>2 DEF ReachInv
    <2> QED BY <2>1, <2>2
  <1>9. group' <= epoch /\ (mediaReady' => Under(group', lastDone'))
    <2>1. group <= epoch /\ (mediaReady => Under(group, lastDone))
      BY DEF ReachInv
    <2>2. CASE group' = group /\ lastDone' = lastDone /\ (mediaReady' => mediaReady)
      BY <2>1, <2>2
    <2>3. CASE group' < 0 /\ group' \in Int
      BY <1>3, <2>3 DEF Under
    <2>4. CASE ~mediaReady' /\ group' = group
      BY <2>1, <2>4
    <2>5. CASE m.op = "welcome" /\ group' = Reach(m) /\ lastDone' = m.id
      BY <1>5, <2>5 DEF Leads, Under
    <2>6. CASE m.op = "announce" /\ m.id = 0 /\ group' = Reach(m)
      <3>1. Under(Reach(m), 0)
        BY <1>5, <2>6 DEF Leads
      <3> QED BY <1>3, <2>6, <3>1 DEF Under
    <2>7. CASE versionNext # version /\ versionNext = 0 /\ group' = group
      <3>1. Old(group)
        BY <2>7 DEF FallInv, Falling, FallenOK
      <3> QED BY <1>3, <2>1, <2>7, <3>1, OldIsUnder
    <2>8. CASE /\ m.op = "execute" /\ m.id # lastDone /\ OwnWon(m.id) /\ group' = Swapped
               /\ lastDone' = m.id /\ mediaReady' = mediaReady
      <3>1. CASE own.won
        <4>1. Under(Swapped, m.id)
          BY <2>8, <3>1 DEF ReachInv, OwnWon
        <4> QED BY <2>8, <4>1 DEF Under
      <3>2. CASE ~own.won
        <4>1. ~mediaReady
          BY <2>8, <3>2, KeyedSwap DEF m
        <4>2. Swapped <= epoch
          BY <2>8, <3>2, SwapKnown DEF OwnWon
        <4> QED BY <2>8, <4>1, <4>2
      <3> QED BY <3>1, <3>2
    <2>9. CASE /\ m.op = "execute" /\ m.id = pendingId /\ pending.have /\ group' = pending.base + 1
               /\ lastDone' = m.id
      BY <2>9 DEF ReachInv, Under
    <2> QED BY <2>2, <2>3, <2>4, <2>5, <2>6, <2>7, <2>8, <2>9, HandlerGoes DEF GroupGoes, m
  <1>10. mediaReady' => Under(group, lastDone)'
    BY <1>1, <1>9 DEF Under
  <1> QED BY <1>1, <1>4, <1>6, <1>7, <1>8, <1>9, <1>10 DEF ReachInv

\* What is read before the channel stops encrypting leads nowhere new.
LEMMA HeadIsOld ==
    ASSUME Types, VersionInv, FallInv, Handle, Falling', NEW m, m = Head(inbox)
    PROVE  Falling /\ (Leads(m) => Old(Reach(m)))
  <1>1. /\ inbox # <<>> /\ inbox' = Tail(inbox) /\ IsList(inbox) /\ Said(inbox') \subseteq Said(inbox)
        /\ m \in Said(inbox) /\ InOK(m) /\ m = inbox[1]
    BY HandlerReads
  <1>2. CASE \E a \in Said(inbox') : Falls(a)
    <2>1. Falling
      BY <1>1, <1>2 DEF Falling
    <2>2. OldOf(inbox)
      BY <2>1 DEF FallInv, FallenOK
    <2> QED BY <1>1, <1>2, <2>1, <2>2, AheadTail
  <1>3. CASE versionNext' = 0 /\ version' # 0
    <2>1. CASE m.op = "prepare"
      <3>1. m.version = 0
        BY <1>1, <1>3, <2>1, HandlerVersion
      <3>2. Falls(m)
        BY <2>1, <3>1 DEF Falls
      <3> QED BY <1>1, <2>1, <3>2 DEF Falling, Leads
    <2>2. CASE m.op # "prepare"
      <3>1. /\ UNCHANGED <<version, versionNext>> /\ versionNext = version
        BY <1>1, <1>3, <2>2, HandlerVersion
      <3> QED BY <1>3, <3>1
    <2> QED BY <2>1, <2>2
  <1> QED BY <1>2, <1>3 DEF Falling

\* A handler leads a client whose channel stops encrypting nowhere new.
LEMMA HandleFall ==
    ASSUME Types, CommitInv, LiveInv, DateInv, ReachInv, VersionInv, FallInv, Handle
    PROVE  FallInv'
  <1> DEFINE m == Head(inbox)
  <1>1. /\ InOK(m) /\ m \in Said(inbox) /\ Said(inbox') \subseteq Said(inbox) /\ inbox # <<>>
        /\ inbox' = Tail(inbox) /\ IsList(inbox)
        /\ UNCHANGED <<epoch, live, winner, member, channel, move, nextId>>
    BY HandlerReads
  <1> HIDE DEF m
  <1>0. SUFFICES ASSUME Falling' PROVE FallenOK'
    BY DEF FallInv
  <1>2. Falling /\ (Leads(m) => Old(Reach(m)))
    BY <1>0, HeadIsOld DEF m
  <1>3. FallenOK
    BY <1>2 DEF FallInv
  <1>4. \A x : Old(x)' <=> Old(x)
    BY <1>1 DEF Old
  <1>5. /\ epoch \in Nat /\ group \in Int /\ pendingId \in Nat /\ Swapped \in Int
        /\ groupNext.number \in Nat /\ Packages \in Nat /\ TopEpoch \in Nat
    BY ServerNumbers
  <1>6. Leads(m) => Reach(m) \in Nat /\ Reach(m) >= 1
    BY <1>1, ReachIs
  <1>7. Old(group')
    <2>1. Old(group)
      BY <1>3 DEF FallenOK
    <2>2. CASE group' = group
      BY <2>1, <2>2
    <2>3. CASE group' < 0 /\ group' \in Int
      BY <2>3, LowIsOld
    <2>4. CASE (m.op = "welcome" \/ m.op = "announce") /\ group' = Reach(m)
      BY <1>2, <2>4 DEF Leads
    <2>5. CASE m.op = "execute" /\ OwnWon(m.id) /\ group' = Swapped
      <3>1. CASE own.won
        BY <1>3, <2>5, <3>1 DEF FallenOK
      <3>2. CASE ~own.won
        <4>1. own.ready /\ m.id = pendingId
          BY <2>5, <3>2 DEF OwnWon
        <4>2. pendingId # 0
          <5>1. ~Zero(m)
            BY <1>1, <4>1 DEF DateInv
          <5> QED BY <2>5, <4>1, <5>1 DEF Zero
        <4>3. CASE Swapped > 0
          BY <1>3, <2>5, <4>1, <4>2, <4>3 DEF FallenOK
        <4>4. CASE ~(Swapped > 0)
          <5>1. Swapped = Fork \/ Swapped > 0
            BY <1>5, ConstantBounds, ServerNumbers DEF Swapped
          <5>2. Fork < 0 /\ Fork \in Int
            BY <1>5 DEF Fork
          <5> QED BY <2>5, <4>4, <5>1, <5>2, LowIsOld
        <4> QED BY <4>3, <4>4
      <3> QED BY <3>1, <3>2
    <2>6. CASE pending.have /\ group' = pending.base + 1
      BY <1>3, <2>6 DEF FallenOK
    <2> QED BY <2>2, <2>3, <2>4, <2>5, <2>6, HandlerGoes DEF GroupGoes, m
  <1>8. ASSUME NEW o \in Said(outbox'), o.op = "commit" PROVE Old(o.base)
    <2>1. CASE o \in Said(outbox)
      BY <1>3, <1>8, <2>1 DEF FallenOK
    <2>2. CASE o \notin Said(outbox)
      <3>1. PICK p : /\ outbox' = Append(outbox, p)
                     /\ p.op = "commit" => p.base = group
        BY <1>1, <2>2, HandlerSays DEF m, Types
      <3>2. o = p
        BY <2>2, <3>1, SaidAppend DEF Types, MailOK, OKOutbox
      <3> QED BY <1>3, <1>8, <3>1, <3>2 DEF FallenOK
    <2> QED BY <2>1, <2>2
  <1>9. ASSUME pending'.have PROVE Old(pending'.base + 1)
    BY <1>2, <1>3, <1>9, HandlerKept DEF FallenOK, Leads, m
  <1>10. ASSUME own'.won PROVE Old(Swapped')
    BY <1>2, <1>3, <1>10, HandlerWon DEF FallenOK, Leads, m
  <1>11. ASSUME own'.ready, Swapped' > 0 PROVE Old(Swapped') \/ (pendingId' = 0 /\ Swapped' = 1)
    <2>1. CASE own.ready /\ groupNext' = groupNext
      <3>1. Swapped' = Swapped
        BY <1>1, <2>1 DEF Swapped
      <3>2. Old(Swapped) \/ (pendingId = 0 /\ Swapped = 1)
        BY <1>3, <1>11, <2>1, <3>1 DEF FallenOK
      <3>3. CASE pendingId' = pendingId
        BY <3>1, <3>2, <3>3
      <3>4. CASE m.op = "announce"
        <4>1. Old(Reach(m)) /\ Reach(m) \in Nat /\ 1 <= Reach(m)
          BY <1>2, <1>6, <3>4 DEF Leads
        <4>2. Old(1)
          BY <4>1, OlderIsOld
        <4> QED BY <3>1, <3>2, <4>2
      <3>5. CASE m.op = "proposals"
        <4>1. pendingId' = pendingId
          BY <3>5, HandlerRemembers DEF Dated, Later, m
        <4> QED BY <3>3, <4>1
      <3>6. pendingId' = pendingId \/ m.op = "announce" \/ m.op = "proposals"
        BY <1>11, HandlerOwn DEF m
      <3> QED BY <3>3, <3>4, <3>5, <3>6
    <2>2. CASE groupNext' = [base |-> group, number |-> groupNext.number + 1]
      <3> DEFINE e == IF group > 0 THEN group + 1 ELSE 1
      <3>1. groupNext'.base = group /\ groupNext'.number = groupNext.number + 1
        BY <2>2
      <3>2. ASSUME e <= TopEpoch PROVE winner[e] # groupNext.number + 1
        <4>1. e \in 1 .. TopEpoch
          BY <1>5, <3>2
        <4>2. winner[e] \in Nat /\ winner[e] <= groupNext.number
          BY <4>1 DEF DateInv, Types, ServerOK
        <4> QED BY <1>5, <4>2
      <3>3. Swapped' = Fork
        BY <1>1, <3>1, <3>2 DEF Swapped
      <3> QED BY <1>5, <1>11, <3>3 DEF Fork
    <2> QED BY <1>11, <2>1, <2>2, HandlerOwn DEF m
  <1>12. \A i, j \in 1 .. Len(inbox') :
           i < j /\ Falls(inbox'[j]) /\ Leads(inbox'[i]) => Old(Reach(inbox'[i]))
    BY <1>1, <1>3, AheadTail DEF FallenOK, OldOf
  <1> QED BY <1>4, <1>7, <1>8, <1>9, <1>10, <1>11, <1>12 DEF FallenOK, OldOf

\* A handler keeps the invariant.
LEMMA HandleAhead ==
    ASSUME Types, TurnInv, CommitInv, WaitInv, AheadInv, Handle PROVE AheadInv'
  <1>1. LiveInv'
    BY HandlerReads DEF AheadInv, LiveInv
  <1> QED BY <1>1, HandleDate, HandleReach, HandleVersion, HandleDry, HandleFall DEF AheadInv

-----------------------------------------------------------------------------
(* The steps of the client that read nothing keep it.                         *)

\* One that moves the group, if at all, to one of its own, and gives no keys.
LEMMA QuietAhead ==
    ASSUME Types, AheadInv,
           UNCHANGED <<server, inbox, pendingId, lastDone, groupNext, active, version, versionNext>>,
           \/ outbox' = outbox
           \/ \E o : outbox' = Append(outbox, o) /\ o.op # "commit",
           own' = own \/ own' = OwnNone, pending' = pending \/ pending' = NoCommit,
           group' = group \/ (group' < 0 /\ group' \in Int), mediaReady' => mediaReady
    PROVE  AheadInv'
  <1>1. UNCHANGED <<epoch, live, winner, member, channel, move>>
    BY DEF server
  <1>2. epoch \in Nat
    BY ServerNumbers
  <1>3. \A o \in Said(outbox') : o.op = "commit" => o \in Said(outbox)
    <2>1. CASE outbox' = outbox
      BY <2>1
    <2>2. CASE \E o : outbox' = Append(outbox, o) /\ o.op # "commit"
      <3>1. PICK o : outbox' = Append(outbox, o) /\ o.op # "commit"
        BY <2>2
      <3>2. \A a \in Said(outbox') : a \in Said(outbox) \/ a = o
        BY <3>1, SaidAppend DEF Types, MailOK, OKOutbox
      <3> QED BY <3>1, <3>2
    <2> QED BY <2>1, <2>2
  <1>4. /\ own'.ready => own.ready
        /\ own'.won => own.won
        /\ pending'.have => pending' = pending
    BY DEF OwnNone, NoCommit
  <1>5. Swapped' = Swapped
    BY <1>1 DEF Swapped
  <1>6. (\A x, id : Under(x, id)' <=> Under(x, id)) /\ (\A x : Old(x)' <=> Old(x))
    BY <1>1 DEF Under, Old
  <1>7. (\A id : Under(group, id) => Under(group', id)) /\ (Old(group) => Old(group'))
    BY LowIsOld DEF AheadInv
  <1>8. LiveInv'
    BY <1>1 DEF AheadInv, LiveInv
  <1>9. DateInv'
    BY <1>1, <1>4 DEF AheadInv, DateInv
  <1>10. ReachInv'
    <2>1. ReachInv
      BY DEF AheadInv
    <2>2. group' <= epoch
      BY <1>2, <2>1 DEF ReachInv
    <2>3. mediaReady' => Under(group', lastDone)
      BY <1>7, <2>1 DEF ReachInv
    <2> QED BY <1>1, <1>3, <1>4, <1>5, <1>6, <2>1, <2>2, <2>3 DEF ReachInv
  <1>11. VersionInv'
    BY <1>4 DEF AheadInv, VersionInv
  <1>12. DryInv'
    BY <1>1 DEF AheadInv, DryInv, DryOf
  <1>13. FallInv'
    <2>1. Falling' <=> Falling
      BY DEF Falling
    <2>2. FallenOK => FallenOK'
      BY <1>3, <1>4, <1>5, <1>6, <1>7 DEF FallenOK, OldOf
    <2> QED BY <2>1, <2>2 DEF AheadInv, FallInv
  <1> QED BY <1>8, <1>9, <1>10, <1>11, <1>12, <1>13 DEF AheadInv

\* A fresh package is nobody's epoch.
LEMMA PackageIsLow ==
    ASSUME Types, SendKeyPackage
    PROVE  /\ group' < 0 /\ group' \in Int
           /\ \E o : outbox' = Append(outbox, o) /\ o.op # "commit"
  <1>1. package \in Nat /\ package % Packages \in 0 .. (Packages - 1)
    BY ConstantBounds DEF Types, NumbersOK
  <1>2. package' \in Nat /\ package' > 0
    BY <1>1, ConstantBounds DEF SendKeyPackage, After
  <1>3. \A k \in Nat : k > 0 => -k < 0 /\ -k \in Int
    OBVIOUS
  <1>4. group' < 0 /\ group' \in Int
    BY <1>2, <1>3 DEF SendKeyPackage
  <1>5. PICK o : outbox' = Append(outbox, o) /\ o.op = "package"
    BY PackageOK DEF Types
  <1> QED BY <1>4, <1>5

\* The second halves of the handlers and the tick thread.
LEMMA QuietStepAhead ==
    ASSUME Types, AheadInv,
           \/ ResetRatchets \/ Welcomed \/ ForgetFirst \/ Rebuild
           \/ CheckMedia \/ UseRatchet \/ Watchdog \/ WatchdogRebuild \/ FiveSeconds
    PROVE  AheadInv'
  <1>1. CASE ResetRatchets \/ CheckMedia \/ UseRatchet \/ FiveSeconds
    <2>1. /\ UNCHANGED <<server, inbox, pendingId, lastDone, groupNext, active, version, versionNext>>
          /\ UNCHANGED <<outbox, own, pending, group, mediaReady>>
      BY <1>1 DEF ResetRatchets, CheckMedia, UseRatchet, FiveSeconds
    <2> QED BY <2>1, QuietAhead
  <1>2. CASE Welcomed
    <2> DEFINE o == [op |-> "ready", id |-> lastDone]
    <2>1. /\ UNCHANGED <<server, inbox, pendingId, lastDone, groupNext, active, version, versionNext>>
          /\ UNCHANGED <<own, pending, group, mediaReady>> /\ outbox' = Append(outbox, o)
      BY <1>2 DEF Welcomed, Say
    <2>2. o.op # "commit"
      OBVIOUS
    <2> HIDE DEF o
    <2> QED BY <2>1, <2>2, QuietAhead
  <1>3. CASE ForgetFirst \/ Watchdog
    <2>1. /\ UNCHANGED <<server, inbox, pendingId, lastDone, groupNext, active, version, versionNext>>
          /\ UNCHANGED <<outbox, group>> /\ own' = OwnNone /\ pending' = NoCommit /\ ~mediaReady'
      BY <1>3 DEF ForgetFirst, Watchdog, Forget
    <2> QED BY <2>1, QuietAhead
  <1>4. CASE Rebuild \/ WatchdogRebuild
    <2>1. /\ UNCHANGED <<server, inbox, pendingId, lastDone, groupNext, active, version, versionNext>>
          /\ UNCHANGED <<own, pending, mediaReady>> /\ SendKeyPackage
      BY <1>4 DEF Rebuild, WatchdogRebuild
    <2>2. /\ group' < 0 /\ group' \in Int
          /\ \E o : outbox' = Append(outbox, o) /\ o.op # "commit"
      BY <2>1, PackageIsLow
    <2> QED BY <2>1, <2>2, QuietAhead
  <1> QED BY <1>1, <1>2, <1>3, <1>4

-----------------------------------------------------------------------------
(* What a message that is added does to it.                                   *)

\* One message more.
LEMMA Told ==
    ASSUME NEW s, IsList(s), NEW m, NEW t, t = Append(s, m)
    PROVE  /\ IsList(t)
           /\ \A a \in Said(t) : a \in Said(s) \/ a = m
           /\ ZeroOf(s) /\ ~Zero(m) => ZeroOf(t)
           /\ PairedOf(s) /\ m.op # "prepare" => PairedOf(t)
           /\ s # <<>> => t # <<>> /\ t[1] = s[1]
           /\ \A i, j \in 1 .. Len(t) : i < j /\ Falls(t[j]) /\ ~Falls(m) =>
                 /\ i \in 1 .. Len(s) /\ j \in 1 .. Len(s) /\ t[i] = s[i] /\ t[j] = s[j]
  <1>1. /\ Len(s) \in Nat /\ Len(t) = Len(s) + 1 /\ IsList(t)
        /\ \A j \in 1 .. Len(s) : t[j] = s[j]
        /\ t[Len(s) + 1] = m
    BY ListAppend
  <1>2. \A a \in Said(t) : a \in Said(s) \/ a = m
    BY SaidAppend
  <1>3. s # <<>> => t # <<>> /\ t[1] = s[1]
    <2> SUFFICES ASSUME s # <<>> PROVE t # <<>> /\ t[1] = s[1]
      OBVIOUS
    <2>1. 1 \in 1 .. Len(s)
      BY ListTail
    <2> QED BY <1>1, <2>1, ListEmpty
  <1>4. \A j \in 1 .. Len(t) : (j \in 1 .. Len(s) /\ t[j] = s[j]) \/ (j = Len(s) + 1 /\ t[j] = m)
    BY <1>1
  <1>5. \A j \in 1 .. Len(s) : j \in 1 .. Len(t) /\ t[j] = s[j]
    BY <1>1
  <1>6. ASSUME ZeroOf(s), ~Zero(m) PROVE ZeroOf(t)
    <2> SUFFICES ASSUME NEW i \in 1 .. Len(t), NEW j \in 1 .. Len(t), Zero(t[i]), j < i
                 PROVE  t[j].op # "proposals"
      BY DEF ZeroOf
    <2>1. i \in 1 .. Len(s) /\ t[i] = s[i]
      BY <1>4, <1>6
    <2>2. j \in 1 .. Len(s) /\ t[j] = s[j]
      BY <1>1, <1>4, <2>1
    <2> QED BY <1>6, <2>1, <2>2 DEF ZeroOf
  <1>7. ASSUME PairedOf(s), m.op # "prepare" PROVE PairedOf(t)
    <2> SUFFICES ASSUME NEW i \in 1 .. Len(t), t[i].op = "prepare"
                 PROVE  i + 1 \in 1 .. Len(t) /\ t[i + 1].op = "execute"
      BY DEF PairedOf
    <2>1. i \in 1 .. Len(s) /\ t[i] = s[i]
      BY <1>4, <1>7
    <2>2. i + 1 \in 1 .. Len(s) /\ s[i + 1].op = "execute"
      BY <1>7, <2>1 DEF PairedOf
    <2> QED BY <1>5, <2>2
  <1>8. ASSUME NEW i \in 1 .. Len(t), NEW j \in 1 .. Len(t), i < j, Falls(t[j]), ~Falls(m)
        PROVE  i \in 1 .. Len(s) /\ j \in 1 .. Len(s) /\ t[i] = s[i] /\ t[j] = s[j]
    <2>1. j \in 1 .. Len(s) /\ t[j] = s[j]
      BY <1>4, <1>8
    <2> QED BY <1>1, <1>4, <1>8, <2>1
  <1> QED BY <1>1, <1>2, <1>3, <1>6, <1>7, <1>8

\* The word to go right behind the version.
LEMMA PairTold ==
    ASSUME NEW s, IsList(s), PairedOf(s), NEW a, NEW b, b.op = "execute"
    PROVE  PairedOf(Append(Append(s, a), b))
  <1> DEFINE t == Append(s, a)
             u == Append(t, b)
  <1>1. /\ Len(s) \in Nat /\ Len(t) = Len(s) + 1 /\ IsList(t)
        /\ \A j \in 1 .. Len(s) : t[j] = s[j]
        /\ t[Len(s) + 1] = a
    BY ListAppend
  <1> HIDE DEF t
  <1>2. /\ Len(u) = Len(t) + 1
        /\ \A j \in 1 .. Len(t) : u[j] = t[j]
        /\ u[Len(t) + 1] = b
    BY <1>1, ListAppend
  <1> HIDE DEF u
  <1>3. ASSUME NEW i \in 1 .. Len(u), u[i].op = "prepare"
        PROVE  i + 1 \in 1 .. Len(u) /\ u[i + 1].op = "execute"
    <2>1. i # Len(t) + 1
      BY <1>2, <1>3
    <2>2. CASE i = Len(t)
      BY <1>1, <1>2, <2>2
    <2>3. CASE i \in 1 .. Len(s)
      <3>1. s[i].op = "prepare"
        BY <1>1, <1>2, <1>3, <2>3
      <3>2. i + 1 \in 1 .. Len(s) /\ s[i + 1].op = "execute"
        BY <2>3, <3>1 DEF PairedOf
      <3> QED BY <1>1, <1>2, <3>2
    <2> QED BY <1>1, <1>2, <2>1, <2>2, <2>3
  <1>4. PairedOf(u)
    BY <1>3 DEF PairedOf
  <1> QED BY <1>4 DEF t, u

\* Proposals are added only to a channel that encrypts, or will before they are read.
LEMMA DryGrows ==
    ASSUME NEW s, IsList(s), NEW v, NEW w, NEW m, DryOf(s, v), m.op = "proposals" => v # 0,
           v = 0 => w = 0 \/ Rises(m), Falls(m) => w = 0
    PROVE  DryOf(Append(s, m), w)
  <1> DEFINE t == Append(s, m)
  <1>1. /\ Len(s) \in Nat /\ Len(t) = Len(s) + 1
        /\ \A j \in 1 .. Len(s) : t[j] = s[j]
        /\ t[Len(s) + 1] = m
    BY ListAppend
  <1>2. ASSUME NEW i \in Nat, i <= Len(s), Dry(s, i), v = 0 \/ Lifts(s, i)
        PROVE  Dry(t, i) /\ (w = 0 \/ Lifts(t, i))
    <2>1. /\ Dry(s, i) /\ (m.op = "proposals" => Lifts(s, i)) => Dry(t, i)
          /\ Lifts(s, i) \/ Rises(m) => Lifts(t, i)
      BY <1>2, DryAppend
    <2>2. CASE v = 0
      BY <1>2, <2>1, <2>2
    <2>3. CASE v # 0
      BY <1>2, <2>1, <2>3
    <2> QED BY <2>2, <2>3
  <1> HIDE DEF t
  <1>3. ASSUME NEW i \in 1 .. Len(t), Falls(t[i])
        PROVE  Dry(t, i) /\ (w = 0 \/ Lifts(t, i))
    <2>1. CASE i \in 1 .. Len(s)
      <3>1. Falls(s[i]) /\ i \in Nat /\ i <= Len(s)
        BY <1>1, <1>3, <2>1
      <3>2. Dry(s, i) /\ (v = 0 \/ Lifts(s, i))
        BY <2>1, <3>1 DEF DryOf
      <3> QED BY <1>2, <3>1, <3>2
    <2>2. CASE i = Len(s) + 1
      <3>1. Dry(t, i)
        BY <1>1, <2>2 DEF Dry
      <3> QED BY <1>1, <1>3, <2>2, <3>1
    <2> QED BY <1>1, <2>1, <2>2
  <1>4. ASSUME versionNext = 0 PROVE Dry(t, 0) /\ (w = 0 \/ Lifts(t, 0))
    <2>1. Dry(s, 0) /\ (v = 0 \/ Lifts(s, 0)) /\ 0 \in Nat /\ 0 <= Len(s)
      BY <1>1, <1>4 DEF DryOf
    <2> QED BY <1>2, <2>1
  <1> QED BY <1>3, <1>4 DEF DryOf, t

-----------------------------------------------------------------------------
(* The steps of the server and of the call keep it.                           *)

\* The channel goes on, without letting the client in or starting a transition;
\* or the group goes to its next epoch.
Grows ==
    /\ live' \in Nat /\ live <= live'
    /\ \/ /\ epoch' = epoch /\ (member' => member)
          /\ move' # NoMove => move # NoMove /\ move'.id = move.id
       \/ epoch' = epoch + 1

\* What is reached and what is old stay so.
LEMMA GrowsKeeps ==
    ASSUME Types, Grows
    PROVE  /\ epoch \in Nat /\ epoch' \in Nat /\ epoch <= epoch'
           /\ \A x \in Int : \A id : Under(x, id) => Under(x, id)'
           /\ \A x \in Int : Old(x) => Old(x)'
  <1>1. epoch \in Nat /\ live \in Nat /\ live <= epoch
    BY ServerNumbers
  <1>2. CASE epoch' = epoch
    <2>1. /\ live' \in Nat /\ live <= live' /\ (member' => member)
          /\ move' # NoMove => move # NoMove /\ move'.id = move.id
      BY <1>1, <1>2 DEF Grows
    <2>3. ASSUME NEW x \in Int, NEW id, Under(x, id) PROVE Under(x, id)'
      BY <1>2, <2>1, <2>3 DEF Under
    <2>4. ASSUME NEW x \in Int, Old(x) PROVE Old(x)'
      BY <1>1, <1>2, <2>1, <2>4 DEF Old
    <2> QED BY <1>1, <1>2, <2>3, <2>4
  <1>3. CASE epoch' = epoch + 1
    <2>1. live' \in Nat /\ live <= live'
      BY DEF Grows
    <2>2. ASSUME NEW x \in Int, NEW id, Under(x, id) PROVE Under(x, id)'
      BY <1>1, <1>3, <2>2 DEF Under
    <2>3. ASSUME NEW x \in Int, Old(x) PROVE Old(x)'
      BY <1>1, <1>3, <2>1, <2>3 DEF Old
    <2> QED BY <1>1, <1>3, <2>2, <2>3
  <1> QED BY <1>2, <1>3 DEF Grows

\* The client does nothing; what it is told leads no further than the group.
LEMMA OthersAhead ==
    ASSUME Types, AheadInv, UNCHANGED client, Grows, Said(outbox') \subseteq Said(outbox),
           \A e \in 1 .. TopEpoch : winner'[e] <= groupNext.number,
           own.won => Swapped' = Swapped,
           \A m \in Said(inbox') : m.op = "execute" /\ move' # NoMove => m.id # move'.id,
           \A m \in Said(inbox') : m \in Said(inbox) \/
               /\ ~Zero(m)
               /\ Leads(m) => Reach(m) <= epoch' /\ (move' # NoMove => m.id = move'.id),
           ZeroOf(inbox'), PairedOf(inbox'), DryOf(inbox', channel'),
           versionNext # version => inbox' # <<>> /\ inbox'[1] = inbox[1]
    PROVE  DateInv' /\ ReachInv' /\ VersionInv' /\ DryInv'
  <1>1. UNCHANGED <<active, version, versionNext, group, groupNext, mediaReady, own, pending,
                    pendingId, lastDone>>
    BY DEF client
  <1>2. /\ epoch \in Nat /\ epoch' \in Nat /\ epoch <= epoch'
        /\ \A x \in Int : \A id : Under(x, id) => Under(x, id)'
        /\ epoch' = 0 => epoch = 0
    BY GrowsKeeps
  <1>3. DateInv /\ ReachInv /\ VersionInv
    BY DEF AheadInv
  <1>4. DateInv'
    <2>1. own.ready => groupNext.number # 0 /\ \A m \in Said(inbox') : ~Zero(m)
      BY <1>3 DEF DateInv
    <2>2. epoch' = 0 => pendingId = 0
      BY <1>2, <1>3 DEF DateInv
    <2> QED BY <1>1, <2>1, <2>2 DEF DateInv
  <1>5. ReachInv'
    <2>1. /\ group \in Int /\ Swapped \in Int
          /\ pending.have => pending.base \in Nat /\ pending.base + 1 \in Int
      BY ServerNumbers
    <2>2. group' <= epoch'
      BY <1>1, <1>2, <1>3, <2>1 DEF ReachInv
    <2>3. ASSUME NEW o \in Said(outbox'), o.op = "commit" PROVE o.base <= epoch'
      <3>1. o \in Said(outbox) /\ OutOK(o)
        BY <2>3 DEF Types, MailOK, OKOutbox, Said
      <3>2. o.base \in Int /\ o.base <= epoch
        BY <1>3, <2>3, <3>1, ConstantBounds DEF ReachInv, OutOK, Groups, Fork
      <3> QED BY <1>2, <3>2
    <2>4. ASSUME NEW m \in Said(inbox'), Leads(m) PROVE Under(Reach(m), m.id)'
      <3>1. CASE m \in Said(inbox)
        <4>1. InOK(m)
          BY <3>1 DEF Types, MailOK, OKInbox, Said
        <4>2. Reach(m) \in Int
          BY <2>4, <4>1, ReachIs
        <4>3. Under(Reach(m), m.id)
          BY <1>3, <2>4, <3>1 DEF ReachInv
        <4> QED BY <1>2, <4>2, <4>3
      <3>2. CASE m \notin Said(inbox)
        BY <2>4, <3>2 DEF Under
      <3> QED BY <3>1, <3>2
    <2>5. pending'.have => Under(pending.base + 1, pendingId)'
      <3> SUFFICES ASSUME pending'.have PROVE Under(pending.base + 1, pendingId)'
        OBVIOUS
      <3>1. pending.base + 1 \in Int /\ Under(pending.base + 1, pendingId)
        BY <1>1, <1>3, <2>1 DEF ReachInv
      <3> QED BY <1>1, <1>2, <3>1 DEF Under
    <2>6. own'.won => Under(Swapped, pendingId)'
      <3> SUFFICES ASSUME own'.won PROVE Under(Swapped, pendingId)'
        OBVIOUS
      <3>1. Under(Swapped, pendingId) /\ Swapped' = Swapped
        BY <1>1, <1>3 DEF ReachInv
      <3>2. \A x, id : Under(x, id)' <=> (x <= epoch' /\ (move' # NoMove /\ x = epoch' => id = move'.id))
        BY DEF Under
      <3>3. Swapped <= epoch' /\ (move' # NoMove /\ Swapped = epoch' => pendingId = move'.id)
        BY <1>2, <2>1, <3>1, <3>2
      <3> QED BY <1>1, <3>1, <3>3 DEF Under
    <2>7. mediaReady' => Under(group, lastDone)'
      <3> SUFFICES ASSUME mediaReady' PROVE Under(group, lastDone)'
        OBVIOUS
      <3>1. Under(group, lastDone)
        BY <1>1, <1>3 DEF ReachInv
      <3> QED BY <1>1, <1>2, <2>1, <3>1 DEF Under
    <2> QED BY <2>2, <2>3, <2>4, <2>5, <2>6, <2>7 DEF ReachInv
  <1>6. VersionInv'
    BY <1>1, <1>3 DEF VersionInv
  <1>7. DryInv'
    BY <1>1 DEF DryInv, DryOf
  <1> QED BY <1>4, <1>5, <1>6, <1>7

\* And nothing new says that the channel stops encrypting.
LEMMA OthersFall ==
    ASSUME Types, AheadInv, UNCHANGED client, Grows, Said(outbox') \subseteq Said(outbox),
           \A m \in Said(inbox') : Falls(m) => m \in Said(inbox),
           \A i, j \in 1 .. Len(inbox') : i < j /\ Falls(inbox'[j]) =>
               /\ i \in 1 .. Len(inbox) /\ j \in 1 .. Len(inbox)
               /\ inbox'[i] = inbox[i] /\ inbox'[j] = inbox[j],
           own.won => Swapped' = Swapped,
           Falling /\ own.ready /\ Swapped' > 0 =>
               Swapped' = Swapped \/ (pendingId = 0 /\ Swapped' = 1)
    PROVE  FallInv'
  <1>1. UNCHANGED <<active, version, versionNext, group, groupNext, mediaReady, own, pending,
                    pendingId, lastDone>>
    BY DEF client
  <1>2. \A x \in Int : Old(x) => Old(x)'
    BY GrowsKeeps
  <1>3. Falling' => Falling
    BY <1>1 DEF Falling
  <1> SUFFICES ASSUME Falling PROVE FallenOK'
    BY <1>3 DEF FallInv
  <1>4. FallenOK
    BY DEF AheadInv, FallInv
  <1>5. /\ group \in Int /\ Swapped \in Int
        /\ pending.have => pending.base \in Nat /\ pending.base + 1 \in Int
    BY ServerNumbers
  <1>6. Old(group)'
    BY <1>1, <1>2, <1>4, <1>5 DEF FallenOK, Old
  <1>7. ASSUME NEW o \in Said(outbox'), o.op = "commit" PROVE Old(o.base)'
    <2>1. o \in Said(outbox) /\ OutOK(o)
      BY <1>7 DEF Types, MailOK, OKOutbox, Said
    <2>2. o.base \in Int /\ Old(o.base)
      BY <1>4, <1>7, <2>1, ConstantBounds DEF FallenOK, OutOK, Groups, Fork
    <2> QED BY <1>2, <2>2
  <1>8. pending'.have => Old(pending.base + 1)'
    <2> SUFFICES ASSUME pending'.have PROVE Old(pending.base + 1)'
      OBVIOUS
    <2>1. pending.base + 1 \in Int /\ Old(pending.base + 1)
      BY <1>1, <1>4, <1>5 DEF FallenOK
    <2> QED BY <1>1, <1>2, <2>1 DEF Old
  <1>9. Swapped' = Swapped /\ Old(Swapped) => Old(Swapped)'
    <2> SUFFICES ASSUME Swapped' = Swapped, Old(Swapped) PROVE Old(Swapped)'
      OBVIOUS
    <2>1. \A x : Old(x)' <=> (x <= live' /\ (member' => x < epoch'))
      BY DEF Old
    <2>2. Swapped <= live' /\ (member' => Swapped < epoch')
      BY <1>2, <1>5, <2>1
    <2> QED BY <2>2 DEF Old
  <1>10. own'.won => Old(Swapped)'
    BY <1>1, <1>4, <1>9 DEF FallenOK
  <1>11. own'.ready /\ Swapped' > 0 => Old(Swapped)' \/ (pendingId' = 0 /\ Swapped' = 1)
    BY <1>1, <1>4, <1>9 DEF FallenOK
  <1>12. OldOf(inbox)'
    <2>0. \A x : Old(x)' <=> (x <= live' /\ (member' => x < epoch'))
      BY DEF Old
    <2>1. ASSUME NEW i \in 1 .. Len(inbox'), NEW j \in 1 .. Len(inbox'), i < j,
                 Falls(inbox'[j]), Leads(inbox'[i])
          PROVE  Reach(inbox'[i]) <= live' /\ (member' => Reach(inbox'[i]) < epoch')
      <3>1. /\ i \in 1 .. Len(inbox) /\ j \in 1 .. Len(inbox)
            /\ inbox'[i] = inbox[i] /\ inbox'[j] = inbox[j]
        BY <2>1
      <3>2. Old(Reach(inbox[i])) /\ InOK(inbox[i])
        BY <1>4, <2>1, <3>1 DEF FallenOK, OldOf, Types, MailOK, OKInbox
      <3>3. Reach(inbox[i]) \in Int
        BY <2>1, <3>1, <3>2, ReachIs
      <3>4. Reach(inbox'[i]) = Reach(inbox[i])
        BY <3>1
      <3> QED BY <1>2, <2>0, <3>2, <3>3, <3>4
    <2> QED BY <2>1 DEF OldOf, Old
  <1> QED BY <1>6, <1>7, <1>8, <1>10, <1>11, <1>12 DEF FallenOK

\* The client is told nothing.
LEMMA SilentAhead ==
    ASSUME Types, AheadInv, UNCHANGED <<client, inbox, winner, channel>>,
           Said(outbox') \subseteq Said(outbox), Grows, LiveInv',
           \A a \in Said(inbox) : a.op = "execute" /\ move' # NoMove => a.id # move'.id
    PROVE  AheadInv'
  <1>1. UNCHANGED groupNext /\ Swapped' = Swapped
    BY DEF client, Swapped
  <1>2. DateInv /\ VersionInv /\ DryInv
    BY DEF AheadInv
  <1>3. ZeroOf(inbox') /\ PairedOf(inbox') /\ DryOf(inbox', channel')
    BY <1>2 DEF DateInv, VersionInv, DryInv
  <1>4. /\ \A e \in 1 .. TopEpoch : winner'[e] <= groupNext.number
        /\ versionNext # version => inbox' # <<>> /\ inbox'[1] = inbox[1]
        /\ \A a \in Said(inbox') : a \in Said(inbox)
    BY <1>2 DEF DateInv, VersionInv
  <1>5. DateInv' /\ ReachInv' /\ VersionInv' /\ DryInv'
    BY <1>1, <1>3, <1>4, OthersAhead
  <1>6. \A i, j \in 1 .. Len(inbox') : i < j /\ Falls(inbox'[j]) =>
           /\ i \in 1 .. Len(inbox) /\ j \in 1 .. Len(inbox)
           /\ inbox'[i] = inbox[i] /\ inbox'[j] = inbox[j]
    OBVIOUS
  <1>7. FallInv'
    BY <1>1, <1>4, <1>6, OthersFall
  <1> QED BY <1>5, <1>7 DEF AheadInv

\* It is told one thing.
LEMMA TellAhead ==
    ASSUME Types, AheadInv, UNCHANGED client, Said(outbox') \subseteq Said(outbox),
           Grows, LiveInv', NEW m, Tell(m), m.op # "prepare", ~Zero(m),
           Leads(m) => Reach(m) <= epoch' /\ (move' # NoMove => m.id = move'.id),
           \A a \in Said(inbox) \union {m} :
               a.op = "execute" /\ move' # NoMove => a.id # move'.id,
           m.op = "proposals" => channel # 0, channel = 0 => channel' = 0 \/ Rises(m),
           \A e \in 1 .. TopEpoch : winner'[e] <= groupNext.number,
           own.won => Swapped' = Swapped,
           Falling /\ own.ready /\ Swapped' > 0 =>
               Swapped' = Swapped \/ (pendingId = 0 /\ Swapped' = 1)
    PROVE  AheadInv'
  <1>1. inbox' = Append(inbox, m) /\ IsList(inbox) /\ ~Falls(m)
    BY DEF Tell, Types, MailOK, OKInbox, Falls
  <1>2. DateInv /\ VersionInv /\ DryInv
    BY DEF AheadInv
  <1>0. ZeroOf(inbox) /\ PairedOf(inbox)
    BY <1>2 DEF DateInv, VersionInv
  <1>3. /\ \A a \in Said(inbox') : a \in Said(inbox) \/ a = m
        /\ ZeroOf(inbox') /\ PairedOf(inbox')
        /\ inbox # <<>> => inbox' # <<>> /\ inbox'[1] = inbox[1]
        /\ \A i, j \in 1 .. Len(inbox') : i < j /\ Falls(inbox'[j]) =>
              /\ i \in 1 .. Len(inbox) /\ j \in 1 .. Len(inbox)
              /\ inbox'[i] = inbox[i] /\ inbox'[j] = inbox[j]
    <2>1. \A a \in Said(inbox') : a \in Said(inbox) \/ a = m
      BY <1>1, Told
    <2>2. ZeroOf(inbox')
      BY <1>0, <1>1, Told
    <2>3. PairedOf(inbox')
      BY <1>0, <1>1, Told
    <2>4. inbox # <<>> => inbox' # <<>> /\ inbox'[1] = inbox[1]
      BY <1>1, Told
    <2>5. \A i, j \in 1 .. Len(inbox') : i < j /\ Falls(inbox'[j]) =>
             /\ i \in 1 .. Len(inbox) /\ j \in 1 .. Len(inbox)
             /\ inbox'[i] = inbox[i] /\ inbox'[j] = inbox[j]
      BY <1>1, Told
    <2> QED BY <2>1, <2>2, <2>3, <2>4, <2>5
  <1>4. DryOf(inbox', channel')
    BY <1>1, <1>2, DryGrows DEF DryInv
  <1>5. versionNext # version => inbox' # <<>> /\ inbox'[1] = inbox[1]
    BY <1>2, <1>3 DEF VersionInv
  <1>6. DateInv' /\ ReachInv' /\ VersionInv' /\ DryInv'
    BY <1>3, <1>4, <1>5, OthersAhead
  <1>7. FallInv'
    BY <1>1, <1>3, OthersFall
  <1> QED BY <1>6, <1>7 DEF AheadInv

\* A transition starts, or is over at once.
LEMMA MovesAhead ==
    ASSUME Types, AheadInv, offered # NoOffer, TurnInv, NEW id, NEW told \in BOOLEAN,
           id \in {0, nextId}, Moves(id, told)
    PROVE  /\ Grows /\ LiveInv' /\ epoch' = epoch + 1 /\ channel' = channel
           /\ move' # NoMove => move'.id = id /\ id = nextId
           /\ \A a \in Said(inbox) : a.op = "execute" /\ move' # NoMove => a.id # move'.id
  <1>1. /\ epoch \in Nat /\ live \in Nat /\ live = epoch /\ move = NoMove /\ nextId \in Nat
        /\ nextId # 0
    BY ServerNumbers DEF AheadInv, LiveInv, Types, ServerOK
  <1>2. epoch' = epoch + 1 /\ channel' = channel
    BY DEF Moves
  <1>3. CASE id = 0
    <2>1. move' = NoMove /\ live' = epoch + 1
      BY <1>3 DEF Moves
    <2> QED BY <1>1, <1>2, <2>1 DEF Grows, LiveInv
  <1>4. CASE id # 0
    <2>1. id = nextId /\ live' = live /\ move'.id = id /\ move'.to = epoch + 1
      BY <1>4 DEF Moves
    <2>2. move' # NoMove
      BY <1>1, <2>1 DEF NoMove
    <2>3. ASSUME NEW a \in Said(inbox), a.op = "execute" PROVE a.id # move'.id
      <3>1. a.id < nextId /\ a.id \in Nat
        BY <2>3 DEF TurnInv, TurnOf, Given, Dated, Said, Types, MailOK, OKInbox, InOK
      <3> QED BY <1>1, <2>1, <3>1
    <2> QED BY <1>1, <1>2, <2>1, <2>2, <2>3 DEF Grows, LiveInv
  <1> QED BY <1>3, <1>4

\* What the client commits does not change what a commit of its own that was
\* announced leads to.
LEMMA WonStays ==
    ASSUME Types, CommitInv, own.won, groupNext' = groupNext,
           \A e \in 1 .. TopEpoch : e <= epoch => winner'[e] = winner[e]
    PROVE  Swapped' = Swapped
  <1> DEFINE e == IF groupNext.base > 0 THEN groupNext.base + 1 ELSE 1
  <1>1. groupNext.base \in Int /\ groupNext.number # 0 /\ Swapped > 0
    BY ServerNumbers DEF CommitInv
  <1>2. e <= TopEpoch /\ winner[e] = groupNext.number
    BY <1>1, ConstantBounds DEF Swapped, Fork
  <1>3. e \in 1 .. TopEpoch
    BY <1>1, <1>2, ConstantBounds
  <1>4. e <= epoch
    BY <1>1, <1>2, <1>3 DEF Types, ServerOK
  <1>5. winner'[e] = winner[e]
    BY <1>3, <1>4
  <1> QED BY <1>1, <1>2, <1>5 DEF Swapped

\* The server takes a commit of the client's.
LEMMA TakeCommitAhead ==
    ASSUME ChannelInv, ChannelInv', AheadInv, Take, NEW m, m = Head(outbox), m.op = "commit",
           TakeCommit(m), Acceptable(m)
    PROVE  AheadInv'
  <1>1. /\ outbox # <<>> /\ outbox' = Tail(outbox) /\ UNCHANGED client
    BY DEF Take
  <1>2. /\ IsList(outbox) /\ OutOK(m) /\ m \in Said(outbox)
        /\ Said(outbox') \subseteq Said(outbox) /\ Types /\ TurnInv /\ CommitInv /\ ServerOK
        /\ ServerOK' /\ CommitInv'
    BY <1>1, OutboxTail, SaidTail DEF Types, MailOK, OKOutbox, ChannelInv
  <1>3. PICK id \in IF epoch = 0 THEN {0, nextId} ELSE {nextId} :
          /\ Moves(id, TRUE)
          /\ winner' = [winner EXCEPT ![epoch + 1] = m.number]
          /\ Tell([op |-> "announce", id |-> id, base |-> epoch, mine |-> TRUE,
                   number |-> m.number])
    BY DEF TakeCommit
  <1> DEFINE a == [op |-> "announce", id |-> id, base |-> epoch, mine |-> TRUE,
                   number |-> m.number]
  <1>4. a.op = "announce" /\ a.id = id /\ a.base = epoch /\ Tell(a)
    BY <1>3
  <1> HIDE DEF a
  <1>5. /\ Grows /\ LiveInv' /\ epoch' = epoch + 1 /\ channel' = channel
        /\ move' # NoMove => move'.id = id
        /\ \A b \in Said(inbox) : b.op = "execute" /\ move' # NoMove => b.id # move'.id
    <2>1. offered # NoOffer /\ id \in {0, nextId}
      BY <1>3 DEF Acceptable
    <2> QED BY <1>2, <1>3, <2>1, MovesAhead
  <1>6. epoch \in Nat /\ epoch < TopEpoch /\ winner \in [1 .. TopEpoch -> Nat]
        /\ TopEpoch \in Nat /\ epoch + 1 \in 1 .. TopEpoch
    BY <1>2, ConstantBounds DEF ServerOK, Acceptable
  <1>7. m.number \in Nat /\ m.number <= groupNext.number /\ groupNext.number \in Nat
    BY <1>2, ServerNumbers DEF CommitInv, OutOK
  <1>8. \A e \in 1 .. TopEpoch : e # epoch + 1 => winner'[e] = winner[e]
    BY <1>3, <1>6
  <1>9. \A e \in 1 .. TopEpoch : winner'[e] <= groupNext.number
    BY <1>3, <1>6, <1>7 DEF AheadInv, DateInv
  <1>10. groupNext' = groupNext /\ groupNext.base \in Int
    BY <1>1, <1>2, ServerNumbers DEF client
  <1>11. own.won => Swapped' = Swapped
    <2>1. \A e \in 1 .. TopEpoch : e <= epoch => winner'[e] = winner[e]
      BY <1>6, <1>8
    <2> QED BY <1>2, <1>10, <2>1, WonStays
  <1>12. Falling /\ own.ready /\ Swapped' > 0 => pendingId = 0 /\ Swapped' = 1
    <2> SUFFICES ASSUME Falling, own.ready, Swapped' > 0 PROVE pendingId = 0 /\ Swapped' = 1
      OBVIOUS
    <2>1. Old(m.base)
      BY <1>2 DEF AheadInv, FallInv, FallenOK
    <2>2. epoch = 0
      BY <1>6, <2>1 DEF Old, Acceptable
    <2>3. pendingId = 0 /\ groupNext.number # 0
      BY <2>2 DEF AheadInv, DateInv
    <2> DEFINE e == IF groupNext.base > 0 THEN groupNext.base + 1 ELSE 1
    <2>4. Swapped' = e /\ e <= TopEpoch /\ winner'[e] = groupNext.number
      BY <1>10, ConstantBounds DEF Swapped, Fork
    <2>5. e \in 1 .. TopEpoch
      BY <1>10, <2>4, ConstantBounds
    <2>6. e <= epoch'
      BY <1>2, <2>3, <2>4, <2>5 DEF ServerOK
    <2> QED BY <1>5, <2>2, <2>3, <2>4, <2>5, <2>6
  <1>13. /\ a.op # "prepare" /\ ~Zero(a) /\ a.op # "proposals" /\ a.op # "execute"
         /\ Reach(a) = epoch + 1
    BY <1>4 DEF Zero, Reach
  <1>14. /\ Reach(a) <= epoch' /\ (move' # NoMove => a.id = move'.id)
         /\ \A b \in Said(inbox) \union {a} :
                b.op = "execute" /\ move' # NoMove => b.id # move'.id
    BY <1>4, <1>5, <1>6, <1>13
  <1>15. channel = 0 => channel' = 0
    BY <1>5
  <1> HIDE DEF Tell
  <1> QED BY <1>1, <1>2, <1>4, <1>5, <1>9, <1>11, <1>12, <1>13, <1>14, <1>15, TellAhead

\* It is told one thing, and no commit of the client's is taken.
LEMMA TellSameAhead ==
    ASSUME Types, AheadInv, UNCHANGED client, Said(outbox') \subseteq Said(outbox),
           Grows, LiveInv', winner' = winner, NEW m, Tell(m), m.op # "prepare", ~Zero(m),
           Leads(m) => Reach(m) <= epoch' /\ (move' # NoMove => m.id = move'.id),
           \A a \in Said(inbox) \union {m} :
               a.op = "execute" /\ move' # NoMove => a.id # move'.id,
           m.op = "proposals" => channel # 0, channel = 0 => channel' = 0 \/ Rises(m)
    PROVE  AheadInv'
  <1>1. Swapped' = Swapped
    BY DEF client, Swapped
  <1>2. \A e \in 1 .. TopEpoch : winner'[e] <= groupNext.number
    BY DEF AheadInv, DateInv
  <1> HIDE DEF Tell
  <1> QED BY <1>1, <1>2, TellAhead

\* The server reads something the client said.
LEMMA TakeAhead ==
    ASSUME ChannelInv, ChannelInv', AheadInv, Take PROVE AheadInv'
  <1> DEFINE m == Head(outbox)
  <1>1. /\ outbox # <<>> /\ outbox' = Tail(outbox) /\ UNCHANGED client
        /\ \/ m.op = "package" /\ TakePackage(m)
           \/ m.op = "invalid" /\ TakeInvalid(m)
           \/ m.op = "commit" /\ TakeCommit(m)
           \/ m.op = "ready" /\ TakeReady(m)
    BY DEF Take
  <1>2. /\ IsList(outbox) /\ Said(outbox') \subseteq Said(outbox) /\ Types /\ ServerOK
        /\ epoch \in Nat /\ live \in Nat
    BY <1>1, SaidTail, ServerNumbers DEF Types, MailOK, OKOutbox, ChannelInv
  <1> HIDE DEF m
  <1>3. ASSUME UNCHANGED <<epoch, live, winner, channel, inbox>>, member' => member,
               move' # NoMove <=> move # NoMove, move' # NoMove => move'.id = move.id
        PROVE  AheadInv'
    <2>1. Grows /\ LiveInv'
      BY <1>2, <1>3 DEF Grows, AheadInv, LiveInv
    <2>2. \A a \in Said(inbox) : a.op = "execute" /\ move' # NoMove => a.id # move'.id
      BY <1>3 DEF AheadInv, DateInv
    <2> QED BY <1>1, <1>2, <1>3, <2>1, <2>2, SilentAhead
  <1>4. ASSUME move # NoMove
        PROVE  /\ [move EXCEPT !.told = FALSE] # NoMove /\ [move EXCEPT !.told = FALSE].id = move.id
               /\ [move EXCEPT !.ready = TRUE] # NoMove /\ [move EXCEPT !.ready = TRUE].id = move.id
    <2>1. move \in [to : Nat \ {0}, id : Nat \ {0}, told : BOOLEAN, ready : BOOLEAN]
      BY <1>2, <1>4 DEF ServerOK
    <2> QED BY <2>1 DEF NoMove
  <1>5. CASE m.op = "package" /\ TakePackage(m)
    BY <1>3, <1>5 DEF TakePackage
  <1>6. CASE m.op = "invalid" /\ TakeInvalid(m)
    <2>1. /\ UNCHANGED <<epoch, live, winner, channel, inbox>> /\ member' = FALSE
          /\ move' = IF move # NoMove /\ m.id = move.id THEN [move EXCEPT !.told = FALSE] ELSE move
      BY <1>6 DEF TakeInvalid
    <2> QED BY <1>3, <1>4, <2>1
  <1>7. CASE m.op = "ready" /\ TakeReady(m)
    <2>1. /\ UNCHANGED <<epoch, live, winner, channel, inbox, member>>
          /\ move' = IF move # NoMove /\ m.id = move.id THEN [move EXCEPT !.ready = TRUE] ELSE move
      BY <1>7 DEF TakeReady
    <2> QED BY <1>3, <1>4, <2>1
  <1>8. CASE m.op = "commit" /\ TakeCommit(m) /\ ~Acceptable(m)
    <2>1. UNCHANGED <<server, inbox>>
      BY <1>8 DEF TakeCommit
    <2>2. UNCHANGED <<epoch, live, winner, channel, inbox, member, move>>
      BY <2>1 DEF server
    <2> QED BY <1>3, <2>2
  <1>9. CASE m.op = "commit" /\ TakeCommit(m) /\ Acceptable(m)
    BY <1>9, TakeCommitAhead DEF m
  <1> QED BY <1>1, <1>5, <1>6, <1>7, <1>8, <1>9

\* It proposes, another member's commit is taken, everybody is told to go.
LEMMA OtherServerAhead ==
    ASSUME ChannelInv, AheadInv, Offer \/ OtherCommit \/ Execute PROVE AheadInv'
  <1>1. /\ UNCHANGED client /\ UNCHANGED outbox /\ UNCHANGED winner
        /\ Said(outbox') \subseteq Said(outbox) /\ Types /\ ServerOK /\ TurnInv /\ LiveInv
    BY DEF Offer, OtherCommit, Execute, Types, ChannelInv, AheadInv
  <1>2. epoch \in Nat /\ live \in Nat /\ live <= epoch /\ nextId \in Nat
        /\ (move # NoMove => move.id \in Nat /\ move.id # 0)
    BY <1>1, ServerNumbers
  <1>3. CASE Offer
    <2> DEFINE m == [op |-> "proposals", base |-> epoch]
    <2>1. UNCHANGED <<epoch, live, member, channel, move>> /\ Tell(m) /\ channel = 1 /\ move = NoMove
      BY <1>3 DEF Offer
    <2>2. m.op = "proposals"
      OBVIOUS
    <2> HIDE DEF m, Tell
    <2>3. m.op # "prepare" /\ ~Zero(m) /\ ~Leads(m) /\ m.op # "execute"
      BY <2>2 DEF Zero, Leads
    <2>4. Grows /\ LiveInv'
      BY <1>1, <1>2, <2>1 DEF Grows, LiveInv
    <2>5. \A a \in Said(inbox) \union {m} : a.op = "execute" /\ move' # NoMove => a.id # move'.id
      BY <2>1
    <2> QED BY <1>1, <2>1, <2>3, <2>4, <2>5, TellSameAhead
  <1>4. CASE OtherCommit
    <2> DEFINE told == member \/ offered > 0
               w == [op |-> "welcome", id |-> nextId, epoch |-> epoch + 1, package |-> offered]
               a == [op |-> "announce", id |-> nextId, base |-> epoch, mine |-> FALSE,
                     number |-> 0]
    <2>1. /\ offered # NoOffer /\ Moves(nextId, told)
          /\ Tell(w) \/ Tell(a) \/ inbox' = inbox
      BY <1>4 DEF OtherCommit
    <2>2. /\ w.op = "welcome" /\ w.id = nextId /\ w.epoch = epoch + 1
          /\ a.op = "announce" /\ a.id = nextId /\ a.base = epoch
      OBVIOUS
    <2>3. told \in BOOLEAN
      OBVIOUS
    <2> HIDE DEF told, a, w, Tell
    <2>4. /\ Grows /\ LiveInv' /\ epoch' = epoch + 1 /\ channel' = channel
          /\ move' # NoMove => move'.id = nextId
          /\ \A b \in Said(inbox) : b.op = "execute" /\ move' # NoMove => b.id # move'.id
      BY <1>1, <2>1, <2>3, MovesAhead
    <2>5. CASE inbox' = inbox
      BY <1>1, <2>4, <2>5, SilentAhead
    <2>6. ASSUME NEW m, m = w \/ m = a, Tell(m) PROVE AheadInv'
      <3>1. /\ m.op # "prepare" /\ ~Zero(m) /\ m.op # "execute" /\ m.op # "proposals"
            /\ Reach(m) = epoch + 1 /\ m.id = nextId
        BY <2>2, <2>6 DEF Zero, Reach
      <3>2. Reach(m) <= epoch' /\ (move' # NoMove => m.id = move'.id)
        BY <1>2, <2>4, <3>1
      <3>3. \A b \in Said(inbox) \union {m} : b.op = "execute" /\ move' # NoMove => b.id # move'.id
        BY <2>4, <3>1
      <3> QED BY <1>1, <2>4, <2>6, <3>1, <3>2, <3>3, TellSameAhead
    <2> QED BY <2>1, <2>5, <2>6
  <1>5. CASE Execute
    <2> DEFINE m == [op |-> "execute", id |-> move.id]
    <2>1. /\ UNCHANGED <<epoch, member, channel>>
          /\ move # NoMove /\ move' = NoMove /\ live' = move.to
          /\ Tell(m) \/ inbox' = inbox
      BY <1>5 DEF Execute
    <2>2. m.op = "execute" /\ m.id = move.id
      OBVIOUS
    <2> HIDE DEF m, Tell
    <2>3. move.to = epoch
      BY <1>1, <2>1 DEF ServerOK
    <2>4. Grows /\ LiveInv'
      BY <1>1, <1>2, <2>1, <2>3 DEF Grows, LiveInv
    <2>5. CASE inbox' = inbox
      BY <1>1, <2>1, <2>4, <2>5, SilentAhead
    <2>6. CASE Tell(m)
      <3>1. m.op # "prepare" /\ ~Zero(m) /\ ~Leads(m) /\ m.op # "proposals"
        BY <1>2, <2>1, <2>2 DEF Zero, Leads
      <3>2. \A a \in Said(inbox) \union {m} : a.op = "execute" /\ move' # NoMove => a.id # move'.id
        BY <2>1
      <3> QED BY <1>1, <2>1, <2>4, <2>6, <3>1, <3>2, TellSameAhead
    <2> QED BY <2>1, <2>5, <2>6
  <1> QED BY <1>3, <1>4, <1>5

\* The channel is to change its version: all but what falls with it.
LEMMA PairAhead ==
    ASSUME Types, AheadInv, UNCHANGED <<client, outbox, winner, epoch, live>>,
           move = NoMove, move' = NoMove, member' => member, NEW v \in 0 .. 1, channel' = v,
           NEW a, NEW b, inbox' = inbox \o <<a, b>>,
           a.op = "prepare", a.version = v, b.op = "execute", b.id # 0
    PROVE  /\ Grows /\ LiveInv' /\ DateInv' /\ ReachInv' /\ VersionInv' /\ DryInv'
           /\ v = 1 => FallInv'
  <1> DEFINE s == Append(inbox, a)
  <1>1. /\ IsList(inbox) /\ epoch \in Nat /\ live \in Nat
        /\ DateInv /\ VersionInv /\ DryInv /\ LiveInv
    BY ServerNumbers DEF Types, MailOK, OKInbox, AheadInv
  <1>2. inbox' = Append(s, b) /\ IsList(s)
    BY <1>1, ListPair, ListAppend
  <1>3. ~Zero(a) /\ ~Zero(b) /\ ~Leads(a) /\ ~Leads(b) /\ ~Falls(b) /\ (Falls(a) => v = 0)
        /\ (v = 1 => Rises(a)) /\ a.op # "proposals" /\ b.op # "proposals"
    BY DEF Zero, Leads, Falls, Rises
  <1>4. Grows /\ LiveInv'
    BY <1>1 DEF Grows, LiveInv
  <1>5. \A m \in Said(s) : m \in Said(inbox) \/ m = a
    BY <1>1, Told
  <1>6. ZeroOf(s)
    BY <1>1, <1>3, Told DEF DateInv
  <1>7. inbox # <<>> => s # <<>> /\ s[1] = inbox[1]
    BY <1>1, Told
  <1>8. DryOf(s, v)
    BY <1>1, <1>3, DryGrows DEF DryInv
  <1>9. PairedOf(inbox')
    BY <1>1, <1>2, PairTold DEF VersionInv
  <1>10. ~Falls(a) => \A i, j \in 1 .. Len(s) : i < j /\ Falls(s[j]) =>
              /\ i \in 1 .. Len(inbox) /\ j \in 1 .. Len(inbox)
              /\ s[i] = inbox[i] /\ s[j] = inbox[j]
    BY <1>1, Told
  <1> HIDE DEF s
  <1>11. \A m \in Said(inbox') : m \in Said(inbox) \/ m = a \/ m = b
    <2>1. \A m \in Said(inbox') : m \in Said(s) \/ m = b
      BY <1>2, Told
    <2> QED BY <1>5, <2>1
  <1>12. ZeroOf(inbox')
    BY <1>2, <1>3, <1>6, Told
  <1>13. versionNext # version => inbox' # <<>> /\ inbox'[1] = inbox[1]
    <2>1. s # <<>> => inbox' # <<>> /\ inbox'[1] = s[1]
      BY <1>2, Told
    <2> QED BY <1>1, <1>7, <2>1 DEF VersionInv
  <1>14. DryOf(inbox', channel')
    <2>1. DryOf(Append(s, b), v)
      BY <1>2, <1>3, <1>8, DryGrows
    <2> QED BY <1>2, <2>1
  <1>15. Swapped' = Swapped /\ \A e \in 1 .. TopEpoch : winner'[e] <= groupNext.number
    BY <1>1 DEF client, Swapped, DateInv
  <1>16. DateInv' /\ ReachInv' /\ VersionInv' /\ DryInv'
    <2>1. \A m \in Said(inbox') : m \in Said(inbox) \/
               /\ ~Zero(m)
               /\ Leads(m) => Reach(m) <= epoch' /\ (move' # NoMove => m.id = move'.id)
      BY <1>3, <1>11
    <2> QED BY <1>4, <1>9, <1>12, <1>13, <1>14, <1>15, <2>1, OthersAhead
  <1>17. ASSUME v = 1 PROVE FallInv'
    <2>1. ~Falls(a)
      BY <1>3, <1>17
    <2>2. \A m \in Said(inbox') : Falls(m) => m \in Said(inbox)
      BY <1>3, <1>11, <2>1
    <2>3. \A i, j \in 1 .. Len(inbox') : i < j /\ Falls(inbox'[j]) =>
              /\ i \in 1 .. Len(s) /\ j \in 1 .. Len(s)
              /\ inbox'[i] = s[i] /\ inbox'[j] = s[j]
      BY <1>2, <1>3, Told
    <2>4. \A i, j \in 1 .. Len(inbox') : i < j /\ Falls(inbox'[j]) =>
              /\ i \in 1 .. Len(inbox) /\ j \in 1 .. Len(inbox)
              /\ inbox'[i] = inbox[i] /\ inbox'[j] = inbox[j]
      BY <1>10, <2>1, <2>3
    <2> QED BY <1>4, <1>15, <2>2, <2>4, OthersFall
  <1> QED BY <1>4, <1>16, <1>17

\* Somebody joins who cannot encrypt: all that was reached by then is old.
LEMMA DowngradeAhead ==
    ASSUME ChannelInv, AheadInv, Downgrade PROVE AheadInv'
  <1> DEFINE a == [op |-> "prepare", id |-> nextId, version |-> 0]
             b == [op |-> "execute", id |-> nextId]
  <1>1. /\ UNCHANGED <<client, outbox, winner, epoch, live>> /\ move = NoMove /\ move' = NoMove
        /\ member' = FALSE /\ channel' = 0 /\ inbox' = inbox \o <<a, b>>
    BY DEF Downgrade, Upset
  <1>2. a.op = "prepare" /\ a.version = 0 /\ b.op = "execute" /\ b.id = nextId
    OBVIOUS
  <1>3. Types /\ ServerOK /\ nextId # 0 /\ live = epoch
    BY <1>1 DEF ChannelInv, Types, ServerOK, AheadInv, LiveInv
  <1> HIDE DEF a, b
  <1>4. /\ LiveInv' /\ DateInv' /\ ReachInv' /\ VersionInv' /\ DryInv'
        /\ \A m \in Said(inbox') : m \in Said(inbox) \/ m = a \/ m = b
    <2>1. 0 \in 0 .. 1 /\ b.id # 0 /\ (member' => member)
      BY <1>1, <1>2, <1>3
    <2>2. LiveInv' /\ DateInv' /\ ReachInv' /\ VersionInv' /\ DryInv'
      BY <1>1, <1>2, <1>3, <2>1, PairAhead
    <2>3. \A m \in Said(inbox') : m \in Said(inbox) \/ m = a \/ m = b
      <3>1. IsList(inbox) /\ IsList(Append(inbox, a)) /\ inbox' = Append(Append(inbox, a), b)
        BY <1>1, <1>3, ListPair, ListAppend DEF Types, MailOK, OKInbox
      <3>2. \A m \in Said(Append(inbox, a)) : m \in Said(inbox) \/ m = a
        BY <3>1, SaidAppend
      <3>3. \A m \in Said(inbox') : m \in Said(Append(inbox, a)) \/ m = b
        BY <3>1, SaidAppend
      <3> QED BY <3>2, <3>3
    <2> QED BY <2>2, <2>3
  <1>5. \A x : Old(x)' <=> x <= epoch
    BY <1>1, <1>3 DEF Old
  <1>6. DateInv /\ ReachInv
    BY DEF AheadInv
  <1>7. UNCHANGED <<group, groupNext, own, pending, pendingId>> /\ Swapped' = Swapped
    BY <1>1 DEF client, Swapped
  <1>8. Old(group)'
    <2>1. group' <= epoch
      BY <1>6, <1>7 DEF ReachInv
    <2> QED BY <1>1, <1>3, <2>1 DEF Old
  <1>9. \A o \in Said(outbox') : o.op = "commit" => Old(o.base)'
    BY <1>1, <1>5, <1>6 DEF ReachInv
  <1>10. pending'.have => Old(pending.base + 1)'
    <2>1. pending'.have => pending'.base + 1 <= epoch
      BY <1>6, <1>7 DEF ReachInv, Under
    <2> QED BY <1>1, <1>3, <2>1 DEF Old
  <1>11. own'.ready => Old(Swapped)'
    <2>1. own'.ready => Swapped' <= epoch
      BY <1>3, <1>6, <1>7, SwapKnown
    <2> QED BY <1>1, <1>3, <2>1 DEF Old
  <1>12. own'.won => Old(Swapped)'
    <2>1. own'.won => Swapped' <= epoch
      BY <1>6, <1>7 DEF ReachInv, Under
    <2> QED BY <1>1, <1>3, <2>1 DEF Old
  <1>13. OldOf(inbox)'
    <2>1. ASSUME NEW i \in 1 .. Len(inbox'), Leads(inbox'[i])
          PROVE  Reach(inbox'[i]) <= live' /\ ~member'
      <3>1. inbox'[i] \in Said(inbox)
        BY <1>2, <1>4, <2>1 DEF Leads, Said
      <3>2. Reach(inbox'[i]) <= epoch
        BY <1>6, <2>1, <3>1 DEF ReachInv, Under
      <3> QED BY <1>1, <1>3, <3>2
    <2> QED BY <2>1 DEF OldOf, Old
  <1>14. FallInv'
    BY <1>8, <1>9, <1>10, <1>11, <1>12, <1>13 DEF FallInv, FallenOK
  <1> QED BY <1>4, <1>14 DEF AheadInv

\* The other things that may go wrong within a session.
LEMMA UpsetsAhead ==
    ASSUME ChannelInv, AheadInv, StartOver \/ Revoke \/ Repeat PROVE AheadInv'
  <1>1. /\ UNCHANGED <<client, outbox, winner, epoch, live>>
        /\ Said(outbox') \subseteq Said(outbox) /\ Types /\ ServerOK /\ LiveInv
    BY DEF StartOver, Revoke, Repeat, Upset, ChannelInv, Types, AheadInv
  <1>2. nextId \in Nat /\ nextId # 0 /\ live \in Nat
    BY <1>1, ServerNumbers DEF ServerOK
  <1>3. move = NoMove /\ move' = NoMove
    <2>1. CASE Revoke
      BY <1>1, <2>1 DEF Revoke, ServerOK
    <2> QED BY <2>1 DEF StartOver, Repeat
  <1>4. ASSUME NEW m, Tell(m), m.op \in {"epoch", "revoke", "execute"}, ~Zero(m),
               member' => member, channel = 0 => channel' = 0 \/ Rises(m)
        PROVE  AheadInv'
    <2>1. m.op # "prepare" /\ ~Leads(m) /\ m.op # "proposals"
      BY <1>4 DEF Leads
    <2>2. Grows /\ LiveInv'
      BY <1>1, <1>2, <1>3, <1>4 DEF Grows, LiveInv
    <2>3. \A a \in Said(inbox) \union {m} : a.op = "execute" /\ move' # NoMove => a.id # move'.id
      BY <1>3
    <2> HIDE DEF Tell
    <2> QED BY <1>1, <1>4, <2>1, <2>2, <2>3, TellSameAhead
  <1>5. CASE StartOver
    <2> DEFINE a == [op |-> "prepare", id |-> nextId, version |-> 1]
               b == [op |-> "execute", id |-> nextId]
               m == [op |-> "epoch"]
    <2>1. /\ member' = FALSE /\ channel' = 1
          /\ inbox' = inbox \o <<a, b>> \/ Tell(m)
      BY <1>5 DEF StartOver
    <2>2. /\ a.op = "prepare" /\ a.version = 1 /\ b.op = "execute" /\ b.id = nextId
          /\ m.op = "epoch"
      OBVIOUS
    <2> HIDE DEF a, b, m
    <2>3. CASE inbox' = inbox \o <<a, b>>
      <3>1. 1 \in 0 .. 1 /\ b.id # 0 /\ (member' => member)
        BY <1>2, <2>1, <2>2
      <3> QED BY <1>1, <1>3, <2>1, <2>2, <2>3, <3>1, PairAhead DEF AheadInv
    <2>4. CASE Tell(m)
      <3>1. ~Zero(m) /\ Rises(m) /\ (member' => member)
        BY <2>1, <2>2 DEF Zero, Rises
      <3> QED BY <1>4, <2>2, <2>4, <3>1
    <2> QED BY <2>1, <2>3, <2>4
  <1>6. CASE Revoke
    <2> DEFINE m == [op |-> "revoke"]
    <2>1. Tell(m) /\ UNCHANGED <<member, channel>>
      BY <1>6 DEF Revoke
    <2>2. m.op = "revoke"
      OBVIOUS
    <2> HIDE DEF m
    <2>3. ~Zero(m)
      BY <2>2 DEF Zero
    <2> QED BY <1>4, <2>1, <2>2, <2>3
  <1>7. CASE Repeat
    <2> DEFINE m == [op |-> "execute", id |-> nextId - 1]
    <2>1. Tell(m) /\ UNCHANGED <<member, channel>> /\ nextId > 1
      BY <1>7 DEF Repeat
    <2>2. m.op = "execute" /\ m.id = nextId - 1
      OBVIOUS
    <2> HIDE DEF m
    <2>3. ~Zero(m)
      BY <1>2, <2>1, <2>2 DEF Zero
    <2> QED BY <1>4, <2>1, <2>2, <2>3
  <1> QED BY <1>5, <1>6, <1>7

\* What a session starts with goes to a channel that encrypts, the version first.
LEMMA HelloGoes ==
    ASSUME NEW v
    PROVE  /\ PairedOf(Hello(v))
           /\ \A i \in 1 .. Len(Hello(v)) : Hello(v)[i].op = "prepare" => Hello(v)[i].version = 1
  <1> DEFINE a == [op |-> "sender"]
             b == [op |-> "prepare", id |-> 0, version |-> 1]
             c == [op |-> "execute", id |-> 0]
  <1>1. CASE v = 0
    <2>1. Hello(v) = <<>>
      BY <1>1 DEF Hello
    <2> QED BY <2>1, ListEmpty DEF PairedOf
  <1>2. CASE v # 0
    <2>1. Hello(v) = <<a, b, c>>
      BY <1>2 DEF Hello
    <2>2. Len(<<a, b, c>>) = 3
      OBVIOUS
    <2>3. <<a, b, c>>[1] = a /\ <<a, b, c>>[2] = b /\ <<a, b, c>>[3] = c
      OBVIOUS
    <2>4. a.op = "sender" /\ b.op = "prepare" /\ b.version = 1 /\ c.op = "execute"
      OBVIOUS
    <2>5. Len(Hello(v)) = 3 /\ Hello(v)[1] = a /\ Hello(v)[2] = b /\ Hello(v)[3] = c
      BY <2>1, <2>2, <2>3
    <2> HIDE DEF a, b, c
    <2>6. \A i \in 1 .. Len(Hello(v)) : Hello(v)[i].op = "prepare" => i = 2
      BY <2>4, <2>5
    <2>7. PairedOf(Hello(v))
      <3>1. 2 + 1 \in 1 .. Len(Hello(v)) /\ Hello(v)[2 + 1].op = "execute"
        BY <2>4, <2>5
      <3> QED BY <2>6, <3>1 DEF PairedOf
    <2>8. \A i \in 1 .. Len(Hello(v)) : Hello(v)[i].op = "prepare" => Hello(v)[i].version = 1
      BY <2>4, <2>5, <2>6
    <2> QED BY <2>7, <2>8
  <1> QED BY <1>1, <1>2

\* A session starts with nothing told, nothing falling and nobody ahead.
LEMMA HelloAhead ==
    ASSUME NEW v
    PROVE  /\ PairedOf(Hello(v)) /\ ZeroOf(Hello(v)) /\ OldOf(Hello(v))
           /\ \A m \in Said(Hello(v)) : ~Leads(m) /\ ~Falls(m)
           /\ \A i \in Nat : Dry(Hello(v), i)
  <1>1. \A i \in 1 .. Len(Hello(v)) :
           /\ Hello(v)[i].op # "proposals" /\ ~Leads(Hello(v)[i]) /\ ~Falls(Hello(v)[i])
    BY HelloIs, HelloGoes DEF Leads, Falls
  <1> QED BY <1>1, HelloGoes DEF ZeroOf, OldOf, Said, Dry

\* A session made anew.
LEMMA RehandshakeAhead ==
    ASSUME ChannelInv, AheadInv, Rehandshake PROVE AheadInv'
  <1>1. /\ inbox' = Hello(channel) /\ outbox' = <<>>
        /\ active' = (channel = 1) /\ version' = channel /\ versionNext' = channel
        /\ mediaReady' = FALSE /\ own' = OwnNone /\ pending' = NoCommit /\ pendingId' = 0
        /\ move' = NoMove /\ live' = epoch
        /\ UNCHANGED <<group, groupNext, epoch, winner, channel>>
    BY DEF Rehandshake
  <1>2. /\ PairedOf(inbox') /\ ZeroOf(inbox')
        /\ \A m \in Said(inbox') : ~Leads(m) /\ ~Falls(m)
        /\ \A i \in Nat : Dry(inbox', i)
    BY <1>1, HelloAhead
  <1>3. Said(outbox') = {}
    BY <1>1, ListEmpty DEF Said
  <1>4. own'.ready = FALSE /\ own'.won = FALSE /\ pending'.have = FALSE
    BY <1>1 DEF OwnNone, NoCommit
  <1>5. DateInv /\ ReachInv
    BY DEF AheadInv
  <1>6. LiveInv'
    BY <1>1 DEF LiveInv
  <1>7. DateInv'
    BY <1>1, <1>2, <1>4, <1>5 DEF DateInv
  <1>8. ReachInv'
    BY <1>1, <1>2, <1>3, <1>4, <1>5 DEF ReachInv
  <1>9. VersionInv'
    <2>1. (active' <=> version' = 1) /\ versionNext' = version'
      BY <1>1
    <2> QED BY <1>2, <1>4, <2>1 DEF VersionInv
  <1>10. DryInv'
    <2>1. versionNext' = 0 => channel' = 0
      BY <1>1
    <2>2. \A i \in 1 .. Len(inbox') : ~Falls(inbox'[i])
      BY <1>2 DEF Said
    <2>3. Dry(inbox', 0)
      BY <1>2
    <2> QED BY <2>1, <2>2, <2>3 DEF DryInv, DryOf
  <1>11. FallInv'
    <2>1. versionNext' = version'
      BY <1>1
    <2> QED BY <1>2, <2>1 DEF FallInv, Falling
  <1> QED BY <1>6, <1>7, <1>8, <1>9, <1>10, <1>11 DEF AheadInv

\* It holds when the first session starts,
LEMMA AheadInit ==
    ASSUME Init PROVE AheadInv
  <1>1. /\ inbox = Hello(1) /\ outbox = <<>> /\ active = TRUE /\ version = 1 /\ versionNext = 1
        /\ mediaReady = FALSE /\ own = OwnNone /\ pending = NoCommit /\ pendingId = 0
        /\ move = NoMove /\ live = epoch /\ group = 0 /\ groupNext.number = 0
        /\ epoch \in {0, 1} /\ winner = [e \in 1 .. TopEpoch |-> 0]
    BY DEF Init
  <1>2. /\ PairedOf(inbox) /\ ZeroOf(inbox)
        /\ \A m \in Said(inbox) : ~Leads(m) /\ ~Falls(m)
    BY <1>1, HelloAhead
  <1>3. Said(outbox) = {}
    BY <1>1, ListEmpty DEF Said
  <1>4. own.ready = FALSE /\ own.won = FALSE /\ pending.have = FALSE
    BY <1>1 DEF OwnNone, NoCommit
  <1>5. LiveInv
    BY <1>1 DEF LiveInv
  <1>6. DateInv
    <2>1. \A e \in 1 .. TopEpoch : winner[e] <= groupNext.number
      BY <1>1
    <2> QED BY <1>1, <1>2, <1>4, <2>1 DEF DateInv
  <1>7. ReachInv
    <2>1. group <= epoch
      BY <1>1
    <2> QED BY <1>1, <1>2, <1>3, <1>4, <2>1 DEF ReachInv
  <1>8. VersionInv
    BY <1>1, <1>2, <1>4 DEF VersionInv
  <1>9. DryInv
    <2>1. \A i \in 1 .. Len(inbox) : ~Falls(inbox[i])
      BY <1>2 DEF Said
    <2> QED BY <1>1, <2>1 DEF DryInv, DryOf
  <1>10. FallInv
    BY <1>1, <1>2 DEF FallInv, Falling
  <1> QED BY <1>5, <1>6, <1>7, <1>8, <1>9, <1>10 DEF AheadInv

\* and every step keeps it.
LEMMA AheadStep ==
    ASSUME ChannelInv, ChannelInv', AheadInv, [Next]_vars PROVE AheadInv'
  <1>0. Types /\ TurnInv /\ CommitInv /\ WaitInv /\ AloneInv /\ Types' /\ epoch \in Nat /\ live \in Nat
    BY ServerNumbers DEF ChannelInv
  <1>1. CASE Handle
    BY <1>0, <1>1, HandleAhead DEF ChannelInv
  <1>2. CASE ResetRatchets \/ Welcomed \/ ForgetFirst \/ Rebuild \/ TickThread
    BY <1>0, <1>2, QuietStepAhead DEF TickThread
  <1>3. CASE Take
    BY <1>3, TakeAhead
  <1>4. CASE Offer \/ OtherCommit \/ Execute
    BY <1>4, OtherServerAhead
  <1>5. CASE Downgrade
    BY <1>5, DowngradeAhead
  <1>6. CASE StartOver \/ Revoke \/ Repeat
    BY <1>6, UpsetsAhead
  <1>7. CASE Rehandshake
    BY <1>7, RehandshakeAhead
  <1>8. CASE UNCHANGED vars
    <2>1. UNCHANGED <<client, server, inbox, outbox>>
      BY <1>8 DEF vars
    <2>2. UNCHANGED <<epoch, live, winner, member, channel, move>>
      BY <2>1 DEF server
    <2>3. Grows /\ LiveInv'
      BY <1>0, <2>2 DEF Grows, LiveInv, AheadInv
    <2>4. \A a \in Said(inbox) : a.op = "execute" /\ move' # NoMove => a.id # move'.id
      BY <2>2 DEF AheadInv, DateInv
    <2>5. Said(outbox') \subseteq Said(outbox)
      BY <2>1
    <2> QED BY <1>0, <2>1, <2>2, <2>3, <2>4, <2>5, SilentAhead
  <1> QED BY <1>1, <1>2, <1>3, <1>4, <1>5, <1>6, <1>7, <1>8 DEF Next, WsThread, Server, Upsets

\* NotAhead: a client that wraps its frames is on no epoch the channel was not told to
\* move to, except as the one a transition under way lets in, which is marked as having
\* done it, wherever the tick thread is. What voice.cpp keeps for a transition, its own
\* commit or another's, is applied only at the word to go with that transition's id; a
\* client let in takes the welcome at once.
THEOREM NeverAhead == Spec => []NotAhead
  <1>1. Init => ChannelInv /\ AheadInv
    BY ChannelInit, AheadInit
  <1>2. ChannelInv /\ AheadInv /\ [Next]_vars => ChannelInv' /\ AheadInv'
    BY ChannelStep, AheadStep
  <1>3. ChannelInv /\ AheadInv => NotAhead
    <2> SUFFICES ASSUME ChannelInv, AheadInv, Sealing, group > live
                 PROVE  move # NoMove /\ group = move.to /\ lastDone = move.id
      BY DEF NotAhead
    <2>1. epoch \in Nat /\ live \in Nat /\ group \in Int /\ LiveInv /\ Under(group, lastDone)
          /\ ServerOK
      BY ServerNumbers DEF ChannelInv, Types, AheadInv, ReachInv, Sealing
    <2>2. group <= epoch /\ move # NoMove /\ live + 1 = epoch /\ move.to = epoch
      BY <2>1 DEF LiveInv, Under, ServerOK
    <2>3. group = epoch
      BY <2>1, <2>2
    <2> QED BY <2>1, <2>2, <2>3 DEF Under
  <1> QED BY <1>1, <1>2, <1>3, PTL DEF Spec

-----------------------------------------------------------------------------
(* Why a client that wraps frames is heard: the invariant.                    *)

\* What is said after the i-th message.
Rest(s, i) == {s[l] : l \in {k \in 1 .. Len(s) : i < k}}

\* The group starts over, or nothing is encrypted any more.
Ends(m) == m.op = "epoch" \/ Falls(m)
EndsAfter(s, i) == \E m \in Rest(s, i) : Ends(m)
LetsIn(s, i) == \E m \in Rest(s, i) : m.op = "welcome"

\* Nothing is announced after the i-th message before the word for transition k.
Settled(k, s, i) == \A j \in 1 .. Len(s) : i < j /\ s[j].op = "announce" =>
                        \E l \in 1 .. Len(s) : i < l /\ l < j /\ Go(s[l], k)

\* The channel moves one transition at a time, and to a later epoch each time.
StreamOf(s) ==
    /\ \A i \in 1 .. Len(s) : s[i].op = "announce" =>
          /\ s[i].id # 0 /\ Settled(s[i].id, s, i)
          /\ \A m \in Rest(s, i) : m.op = "announce" => s[i].base < m.base
    /\ Awaits => Settled(pendingId, s, 0)

StreamInv == StreamOf(inbox)

\* Who cannot follow introduces itself again, and who has keys has been introduced.
PackOf(s) ==
    /\ \A o \in Said(s) : o.op = "package" => o.package # 0
    /\ \A i \in 1 .. Len(s) : s[i].op = "invalid" =>
          ws = "rebuild" \/ \E o \in Rest(s, i) : o.op = "package"

PackInv == (Wrapping => package # 0 /\ groupReady) /\ PackOf(outbox)

\* The client has been told, or will be, that its keys are over.
LapsesOf(s) == (versionNext = 0 /\ version # 0) \/ EndsAfter(s, 0)

\* It wraps no frames, or not for long.
ShutOf(s) ==
    /\ Wrapping => LapsesOf(s)
    /\ \A i \in 1 .. Len(s) : s[i].op = "welcome" => EndsAfter(s, i)

\* The server has a key package of the client's, or will have one.
AskedOf(s) ==
    \/ spare # 0
    \/ \E o \in Said(s) : o.op = "package"
    \/ ws \in {"forget", "rebuild"} \/ tick = "rebuild"

\* A client that is neither a member nor about to be let in wraps no frames.
ShutInv ==
    /\ channel = 0 => ~member /\ offered = NoOffer
    /\ channel = 0 \/ (~member /\ ~AskedOf(outbox)) => ShutOf(inbox)

\* The client said that it cannot follow.
RefusingOf(s) == \E o \in Said(s) : o.op = "invalid"

\* Where the word to go that it waits for takes it.
Reached == IF Awaits THEN group + 1 ELSE group

\* What is announced after the i-th message leads from epoch g to epoch n.
PathOf(s, i, g, n) ==
    /\ g <= n
    /\ \A e \in (g + 1) .. n : \E m \in Rest(s, i) : m.op = "announce" /\ m.base + 1 = e
    /\ \A m \in Rest(s, i) : m.op = "announce" => m.base >= g

\* A client that follows is told of every epoch from the one it is at, or will be let
\* in to, to the one the group is at.
TrackOf(s, n) ==
    /\ Wrapping /\ ~LapsesOf(s) /\ ~LetsIn(s, 0) =>
          PathOf(s, 0, Reached, n) /\ (Awaits /\ own.won => Swapped = group + 1)
    /\ \A i \in 1 .. Len(s) : s[i].op = "welcome" /\ ~LetsIn(s, i) /\ ~EndsAfter(s, i) =>
          PathOf(s, i, s[i].epoch, n)

TrackInv == member /\ ~RefusingOf(outbox) => TrackOf(inbox, epoch)

HeardInv == StreamInv /\ PackInv /\ ShutInv /\ TrackInv

\* A commit is to take effect as soon as it is read.
AtOnce(s) == \E m \in Said(s) : m.op = "announce" /\ m.id = 0

\* Until one is not applied, or a welcome crosses with the watchdog.
HeardSoFar == crossed \/ turnedDown \/ AtOnce(inbox) \/ HeardInv

-----------------------------------------------------------------------------
(* What reading and telling do to the rest.                                   *)

\* Reading leaves what follows the others as it was.
LEMMA RestTail ==
    ASSUME NEW s, IsList(s), s # <<>>
    PROVE  /\ \A i \in Nat : Rest(Tail(s), i) = Rest(s, i + 1)
           /\ Rest(s, 0) = {Head(s)} \union Rest(Tail(s), 0)
           /\ \A i \in 1 .. Len(Tail(s)) :
                 i \in Nat /\ i + 1 \in 1 .. Len(s) /\ Tail(s)[i] = s[i + 1]
           /\ 1 \in 1 .. Len(s) /\ s[1] = Head(s) /\ Rest(s, 1) = Rest(Tail(s), 0)
  <1>1. /\ Len(s) \in Nat /\ Len(s) >= 1 /\ Len(Tail(s)) = Len(s) - 1 /\ Head(s) = s[1]
        /\ \A i \in 1 .. (Len(s) - 1) : Tail(s)[i] = s[i + 1]
    BY ListTail
  <1>2. ASSUME NEW i \in Nat PROVE Rest(Tail(s), i) = Rest(s, i + 1)
    <2>1. ASSUME NEW l \in 1 .. Len(Tail(s)), i < l
          PROVE  l + 1 \in 1 .. Len(s) /\ i + 1 < l + 1 /\ Tail(s)[l] = s[l + 1]
      BY <1>1, <2>1
    <2>2. ASSUME NEW l \in 1 .. Len(s), i + 1 < l
          PROVE  l - 1 \in 1 .. Len(Tail(s)) /\ i < l - 1 /\ Tail(s)[l - 1] = s[l]
      <3>1. l - 1 \in 1 .. (Len(s) - 1) /\ (l - 1) + 1 = l /\ i < l - 1
        BY <1>1, <2>2
      <3> QED BY <1>1, <3>1
    <2>3. Rest(Tail(s), i) \subseteq Rest(s, i + 1)
      BY <2>1 DEF Rest
    <2>4. Rest(s, i + 1) \subseteq Rest(Tail(s), i)
      BY <2>2 DEF Rest
    <2> QED BY <2>3, <2>4
  <1>3. 1 \in 1 .. Len(s) /\ 0 \in Nat /\ 0 + 1 = 1
    BY <1>1
  <1>4. Rest(s, 1) = Rest(Tail(s), 0)
    BY <1>2, <1>3
  <1>5. Rest(s, 0) = {s[1]} \union Rest(s, 1)
    <2>1. \A l \in 1 .. Len(s) : l = 1 \/ 1 < l
      BY <1>1
    <2>2. \A l \in 1 .. Len(s) : 0 < l
      BY <1>1
    <2> QED BY <1>3, <2>1, <2>2 DEF Rest
  <1>6. \A i \in 1 .. Len(Tail(s)) : i \in Nat /\ i + 1 \in 1 .. Len(s) /\ Tail(s)[i] = s[i + 1]
    BY <1>1
  <1> QED BY <1>1, <1>2, <1>3, <1>4, <1>5, <1>6

\* Telling adds to what follows each of the others.
LEMMA RestAppend ==
    ASSUME NEW s, IsList(s), NEW m
    PROVE  /\ Len(s) \in Nat /\ IsList(Append(s, m))
           /\ \A i \in 0 .. Len(s) : Rest(Append(s, m), i) = Rest(s, i) \union {m}
           /\ Rest(Append(s, m), Len(s) + 1) = {}
           /\ \A i \in 1 .. Len(Append(s, m)) :
                 \/ i \in 1 .. Len(s) /\ i \in 0 .. Len(s) /\ Append(s, m)[i] = s[i]
                 \/ i = Len(s) + 1 /\ Append(s, m)[i] = m
  <1> DEFINE t == Append(s, m)
  <1>1. /\ IsList(t) /\ Len(s) \in Nat /\ Len(t) = Len(s) + 1
        /\ \A j \in 1 .. Len(s) : t[j] = s[j]
        /\ t[Len(s) + 1] = m
    BY ListAppend
  <1> HIDE DEF t
  <1>2. ASSUME NEW i \in 0 .. Len(s) PROVE Rest(t, i) = Rest(s, i) \union {m}
    <2>1. \A k \in 1 .. Len(t) : k \in 1 .. Len(s) \/ k = Len(s) + 1
      BY <1>1
    <2>2. \A k \in 1 .. Len(s) : k \in 1 .. Len(t)
      BY <1>1
    <2>3. Len(s) + 1 \in 1 .. Len(t) /\ i < Len(s) + 1
      BY <1>1
    <2> QED BY <1>1, <2>1, <2>2, <2>3 DEF Rest
  <1>3. Rest(t, Len(s) + 1) = {}
    <2>1. \A k \in 1 .. Len(t) : ~(Len(s) + 1 < k)
      BY <1>1
    <2> QED BY <2>1 DEF Rest
  <1>4. \A i \in 1 .. Len(t) : \/ i \in 1 .. Len(s) /\ i \in 0 .. Len(s) /\ t[i] = s[i]
                               \/ i = Len(s) + 1 /\ t[i] = m
    BY <1>1
  <1> QED BY <1>1, <1>2, <1>3, <1>4 DEF t

\* All of it follows the start.
LEMMA RestIsSaid ==
    ASSUME NEW s, IsList(s)
    PROVE  Rest(s, 0) = Said(s) /\ \A i : Rest(s, i) \subseteq Said(s)
  <1>1. Len(s) \in Nat
    BY DEF IsList
  <1>2. \A l \in 1 .. Len(s) : 0 < l
    BY <1>1
  <1> QED BY <1>2 DEF Rest, Said

\* What was said and what is said now.
LEMMA SaidMore ==
    ASSUME NEW s, IsList(s), NEW m PROVE Said(Append(s, m)) = Said(s) \union {m}
  <1>1. Len(s) \in Nat /\ IsList(Append(s, m)) /\ 0 \in 0 .. Len(s)
    BY RestAppend
  <1>2. Rest(Append(s, m), 0) = Rest(s, 0) \union {m}
    BY <1>1, RestAppend
  <1> QED BY <1>1, <1>2, RestIsSaid

\* Reading a message that is not the word to go leaves it to be read.
LEMMA SettledTail ==
    ASSUME NEW s, IsList(s), s # <<>>, NEW k, NEW i \in Nat, i >= 1 \/ ~Go(Head(s), k),
           Settled(k, s, i)
    PROVE  Settled(k, Tail(s), IF i = 0 THEN 0 ELSE i - 1)
  <1> DEFINE h == IF i = 0 THEN 0 ELSE i - 1
  <1>1. /\ Len(s) \in Nat /\ Len(s) >= 1 /\ Len(Tail(s)) = Len(s) - 1 /\ Head(s) = s[1]
        /\ \A j \in 1 .. (Len(s) - 1) : Tail(s)[j] = s[j + 1]
    BY ListTail
  <1>2. ASSUME NEW j \in 1 .. Len(Tail(s)), h < j, Tail(s)[j].op = "announce"
        PROVE  \E l \in 1 .. Len(Tail(s)) : h < l /\ l < j /\ Go(Tail(s)[l], k)
    <2>1. j + 1 \in 1 .. Len(s) /\ i < j + 1 /\ s[j + 1] = Tail(s)[j]
      BY <1>1, <1>2
    <2>2. PICK l \in 1 .. Len(s) : i < l /\ l < j + 1 /\ Go(s[l], k)
      BY <1>2, <2>1 DEF Settled
    <2>3. l # 1
      BY <1>1, <2>2
    <2>4. l - 1 \in 1 .. (Len(s) - 1) /\ (l - 1) + 1 = l /\ h < l - 1 /\ l - 1 < j
      BY <1>1, <2>2, <2>3
    <2>5. Tail(s)[l - 1] = s[l] /\ l - 1 \in 1 .. Len(Tail(s))
      BY <1>1, <2>4
    <2> QED BY <2>2, <2>4, <2>5
  <1> HIDE DEF h
  <1>3. Settled(k, Tail(s), h)
    BY <1>2 DEF Settled
  <1> QED BY <1>3 DEF h

\* A message more announces only if the word to go is there.
LEMMA SettledAppend ==
    ASSUME NEW s, IsList(s), NEW m, NEW k, NEW i \in Nat, Settled(k, s, i),
           m.op = "announce" => Goes(k, s, i)
    PROVE  Settled(k, Append(s, m), i)
  <1> DEFINE t == Append(s, m)
  <1>1. /\ Len(s) \in Nat /\ Len(t) = Len(s) + 1
        /\ \A j \in 1 .. Len(s) : t[j] = s[j]
        /\ t[Len(s) + 1] = m
    BY ListAppend
  <1> HIDE DEF t
  <1>2. \A j \in 1 .. Len(s) : j \in 1 .. Len(t) /\ t[j] = s[j] /\ j < Len(s) + 1
    BY <1>1
  <1> SUFFICES ASSUME NEW j \in 1 .. Len(t), i < j, t[j].op = "announce"
               PROVE  \E l \in 1 .. Len(t) : i < l /\ l < j /\ Go(t[l], k)
    BY DEF Settled, t
  <1>3. CASE j \in 1 .. Len(s)
    <2>1. PICK l \in 1 .. Len(s) : i < l /\ l < j /\ Go(s[l], k)
      BY <1>2, <1>3 DEF Settled
    <2> QED BY <1>2, <2>1
  <1>4. CASE j = Len(s) + 1
    <2>1. PICK l \in 1 .. Len(s) : i < l /\ Go(s[l], k)
      BY <1>1, <1>4 DEF Goes
    <2> QED BY <1>2, <1>4, <2>1
  <1> QED BY <1>1, <1>3, <1>4

-----------------------------------------------------------------------------
(* A handler keeps it.                                                        *)

\* A key package has a number.
LEMMA PackageIsSome ==
    ASSUME Types, SendKeyPackage
    PROVE  /\ package' # 0 /\ groupReady'
           /\ \E o : outbox' = Append(outbox, o) /\ o.op = "package" /\ o.package # 0
  <1>1. package \in Nat /\ package % Packages \in 0 .. (Packages - 1)
    BY ConstantBounds DEF Types, NumbersOK
  <1>2. package' \in Nat /\ package' # 0
    BY <1>1, ConstantBounds DEF SendKeyPackage, After
  <1> DEFINE o == [op |-> "package", package |-> package']
  <1>3. o.op = "package" /\ o.package = package' /\ outbox' = Append(outbox, o)
    BY DEF SendKeyPackage, Say
  <1> HIDE DEF o
  <1> QED BY <1>2, <1>3 DEF SendKeyPackage

\* A handler that says that it cannot follow introduces the client again, and one
\* that introduces it has made a key package.
LEMMA HandlerAsks ==
    ASSUME Types, Handle, NEW m, m = Head(inbox), m.op = "announce" => m.id # 0
    PROVE  \/ outbox' = outbox
           \/ \E o : /\ outbox' = Append(outbox, o)
                     /\ o.op = "invalid" => ws' = "rebuild"
                     /\ o.op = "package" => o.package # 0
  <1>1. CASE Ignored \/ OnRevoke \/ OnEpochOne \/ ChangeVersion \/ Enters(m) \/ Swap(m.id) \/ Applied(m.id)
    BY <1>1 DEF Ignored, OnRevoke, OnEpochOne, ChangeVersion, Enters, Swap, Applied, Stay
  <1>2. CASE OnSender
    BY <1>2, PackageIsSome DEF OnSender
  <1>3. CASE OnProposals(m)
    <2> DEFINE o == [op |-> "commit", base |-> group, number |-> groupNext.number + 1]
    <2>1. o.op = "commit" /\ (outbox' = outbox \/ outbox' = Append(outbox, o))
      BY <1>3 DEF OnProposals, Say, Stay
    <2> HIDE DEF o
    <2> QED BY <2>1
  <1>4. CASE Refused(m)
    <2> DEFINE o == [op |-> "invalid", id |-> m.id]
    <2>1. o.op = "invalid" /\ outbox' = Append(outbox, o) /\ ws' = "rebuild"
      BY <1>4 DEF Refused, Say
    <2> HIDE DEF o
    <2> QED BY <2>1
  <1>5. CASE OnAnnounceLater(m) \/ OnPrepare(m)
    <2> DEFINE o == [op |-> "ready", id |-> m.id]
    <2>1. o.op = "ready" /\ outbox' = Append(outbox, o)
      BY <1>5 DEF OnAnnounceLater, OnPrepare, Say
    <2> HIDE DEF o
    <2> QED BY <2>1
  <1> QED BY <1>1, <1>2, <1>3, <1>4, <1>5, HandlerIs

\* A client that wraps frames when a handler is done was let in by it, or wrapped
\* frames before; and what it may have done then.
LEMMA HandlerWraps ==
    ASSUME Types, AloneInv, StreamInv, PackInv, Handle, NEW m, m = Head(inbox), Wrapping'
    PROVE  \/ m.op = "welcome" /\ package # 0 /\ Enters(m)
           \/ /\ Wrapping /\ UNCHANGED <<package, groupReady>>
              /\ \/ /\ m.op \notin {"welcome", "announce"}
                    /\ UNCHANGED <<group, pendingId, lastDone>>
                    /\ own'.won => own.won /\ groupNext' = groupNext
                 \/ m.op = "announce" /\ m.id # 0 /\ OnAnnounceLater(m)
                 \/ /\ m.op = "execute" /\ m.id # lastDone /\ m.id = pendingId
                    /\ \/ OwnWon(m.id) /\ Swap(m.id)
                       \/ pending.have /\ pending.base = group /\ Applied(m.id)
  <1>1. /\ m = inbox[1] /\ 1 \in 1 .. Len(inbox) /\ ws = "idle"
        /\ active' /\ mediaReady' /\ ws' # "forget"
    BY HandlerReads DEF Wrapping
  <1>2. m.op = "announce" => m.id # 0
    BY <1>1 DEF StreamInv, StreamOf
  <1>3. CASE UNCHANGED <<active, mediaReady>>
    <2>1. Wrapping /\ package # 0 /\ groupReady
      BY <1>1, <1>3 DEF Wrapping, PackInv
    <2>2. CASE m.op = "execute" /\ Ignored
      BY <2>1, <2>2 DEF Ignored, client
    <2>3. CASE m.op = "proposals" /\ OnProposals(m)
      <3>1. UNCHANGED <<package, groupReady, group, pendingId, lastDone>> /\ ~own'.won
        BY <2>1, <2>3 DEF OnProposals
      <3> QED BY <2>1, <2>3, <3>1
    <2>4. CASE (m.op = "revoke" /\ OnRevoke) \/ (m.op = "prepare" /\ OnPrepare(m))
      <3>1. UNCHANGED <<package, groupReady, group, pendingId, lastDone, own, groupNext>>
        BY <2>4 DEF OnRevoke, OnPrepare
      <3> QED BY <2>1, <2>4, <3>1
    <2>5. CASE m.op = "announce" /\ m.id # 0 /\ OnAnnounceLater(m)
      BY <2>1, <2>5 DEF OnAnnounceLater
    <2>6. CASE m.op = "execute" /\ m.id # lastDone /\ OwnWon(m.id) /\ Swap(m.id)
      BY <2>1, <2>6 DEF Swap, OwnWon
    <2>7. CASE /\ m.op = "execute" /\ m.id = pendingId /\ pending.have /\ Applied(m.id)
               /\ m.id # lastDone /\ pending.base = group
      BY <2>1, <2>7 DEF Applied
    <2>8. CASE m.op = "welcome" /\ package # 0 /\ Enters(m)
      BY <2>8
    <2>9. CASE m.op = "sender" /\ OnSender
      BY <1>1, <1>3, <2>9 DEF AloneInv, SenderFirst
    <2>10. CASE OnEpochOne \/ ChangeVersion \/ Refused(m)
      BY <1>1, <2>10 DEF OnEpochOne, ChangeVersion, Refused, Forget
    <2>11. \/ m.op = "execute" /\ Ignored
           \/ m.op = "sender" /\ OnSender
           \/ m.op = "proposals" /\ OnProposals(m)
           \/ (m.op = "revoke" /\ OnRevoke) \/ (m.op = "prepare" /\ OnPrepare(m))
           \/ m.op = "welcome" /\ package # 0 /\ Enters(m)
           \/ OnEpochOne \/ ChangeVersion \/ Refused(m)
           \/ m.op = "announce" /\ m.id # 0 /\ OnAnnounceLater(m)
           \/ m.op = "execute" /\ m.id # lastDone /\ OwnWon(m.id) /\ Swap(m.id)
           \/ /\ m.op = "execute" /\ m.id = pendingId /\ pending.have /\ Applied(m.id)
              /\ m.id # lastDone /\ pending.base = group
      BY <1>2, <2>1, HandlerIs
    <2> QED BY <2>2, <2>3, <2>4, <2>5, <2>6, <2>7, <2>8, <2>9, <2>10, <2>11
  <1>4. CASE ~UNCHANGED <<active, mediaReady>>
    <2>1. CASE \/ Ignored \/ OnSender \/ OnProposals(m) \/ OnRevoke \/ OnAnnounceLater(m)
               \/ OnPrepare(m) \/ Swap(m.id) \/ Applied(m.id)
      BY <1>4, <2>1 DEF Ignored, client, OnSender, OnProposals, OnRevoke, OnAnnounceLater,
                        OnPrepare, Swap, Applied
    <2>2. CASE OnEpochOne \/ ChangeVersion \/ Refused(m)
      BY <1>1, <2>2 DEF OnEpochOne, ChangeVersion, Refused, Forget
    <2>3. CASE m.op = "welcome" /\ package # 0 /\ Enters(m)
      BY <2>3
    <2> QED BY <1>2, <2>1, <2>2, <2>3, HandlerIs
  <1> QED BY <1>3, <1>4

\* What makes the keys of a client lapse is not read without their being dropped.
LEMMA HandlerLapses ==
    ASSUME Types, VersionInv, Handle, NEW m, m = Head(inbox), Wrapping', LapsesOf(inbox)
    PROVE  LapsesOf(inbox)'
  <1>1. /\ IsList(inbox) /\ inbox # <<>> /\ inbox' = Tail(inbox) /\ ws = "idle" /\ InOK(m)
        /\ active' /\ ws' # "forget"
    BY HandlerReads DEF Wrapping
  <1>2. CASE versionNext # version
    <2>1. ChangeVersion
      BY <1>1, <1>2, ExecuteChanges
    <2> QED BY <1>1, <2>1 DEF ChangeVersion
  <1>3. CASE versionNext = version
    <2>1. PICK x \in Rest(inbox, 0) : Ends(x)
      BY <1>3 DEF LapsesOf, EndsAfter
    <2>2. CASE x \in Rest(inbox', 0)
      BY <2>1, <2>2 DEF LapsesOf, EndsAfter
    <2>3. CASE x = m /\ m.op = "epoch"
      <3>1. OnEpochOne
        BY <2>3 DEF Handle
      <3> QED BY <1>1, <3>1 DEF OnEpochOne
    <2>4. CASE x = m /\ Falls(m)
      <3>1. OnPrepare(m) /\ m.version = 0
        BY <2>4 DEF Handle, Falls
      <3>2. versionNext' = 0 /\ version' = version /\ active
        BY <1>1, <3>1 DEF OnPrepare
      <3>3. version' # 0
        BY <3>2 DEF VersionInv
      <3> QED BY <3>2, <3>3 DEF LapsesOf
    <2>5. Rest(inbox, 0) = {m} \union Rest(inbox', 0)
      BY <1>1, RestTail
    <2> QED BY <2>1, <2>2, <2>3, <2>4, <2>5 DEF Ends
  <1> QED BY <1>2, <1>3

\* A handler reads transitions one at a time.
LEMMA HandleStream ==
    ASSUME Types, TurnInv, WaitInv, AloneInv, StreamInv, Handle PROVE StreamInv'
  <1> DEFINE m == Head(inbox)
  <1>1. /\ IsList(inbox) /\ inbox # <<>> /\ inbox' = Tail(inbox) /\ epoch' = epoch
        /\ m = inbox[1] /\ 1 \in 1 .. Len(inbox)
    BY HandlerReads
  <1> HIDE DEF m
  <1>2. ASSUME NEW i \in 1 .. Len(inbox'), inbox'[i].op = "announce"
        PROVE  /\ inbox'[i].id # 0 /\ Settled(inbox'[i].id, inbox', i)
               /\ \A a \in Rest(inbox', i) : a.op = "announce" => inbox'[i].base < a.base
    <2>1. /\ i \in Nat /\ i + 1 \in 1 .. Len(inbox) /\ inbox'[i] = inbox[i + 1]
          /\ Rest(inbox', i) = Rest(inbox, i + 1)
      BY <1>1, RestTail
    <2>2. /\ inbox[i + 1].id # 0 /\ Settled(inbox[i + 1].id, inbox, i + 1)
          /\ \A a \in Rest(inbox, i + 1) : a.op = "announce" => inbox[i + 1].base < a.base
      BY <1>2, <2>1 DEF StreamInv, StreamOf
    <2>3. i + 1 \in Nat /\ i + 1 >= 1 /\ (IF i + 1 = 0 THEN 0 ELSE (i + 1) - 1) = i
      BY <2>1
    <2>4. Settled(inbox[i + 1].id, inbox', i)
      <3>1. Settled(inbox[i + 1].id, Tail(inbox), IF i + 1 = 0 THEN 0 ELSE (i + 1) - 1)
        BY <1>1, <2>2, <2>3, SettledTail
      <3> QED BY <1>1, <2>3, <3>1
    <2> QED BY <2>1, <2>2, <2>4
  <1>3. ASSUME Awaits' PROVE Settled(pendingId', inbox', 0)
    <2>1. CASE m.op = "announce" /\ m.id # 0 /\ OnAnnounceLater(m)
      <3>1. Settled(m.id, inbox, 1) /\ pendingId' = m.id
        BY <1>1, <2>1 DEF StreamInv, StreamOf, OnAnnounceLater
      <3>2. 1 \in Nat /\ 1 >= 1 /\ (IF 1 = 0 THEN 0 ELSE 1 - 1) = 0
        OBVIOUS
      <3>3. Settled(m.id, Tail(inbox), IF 1 = 0 THEN 0 ELSE 1 - 1)
        BY <1>1, <3>1, <3>2, SettledTail
      <3> QED BY <1>1, <3>1, <3>2, <3>3
    <2>2. CASE Awaits /\ pendingId' = pendingId /\ ~Go(m, pendingId)
      <3>1. Settled(pendingId, inbox, 0)
        BY <2>2 DEF StreamInv, StreamOf
      <3>2. 0 \in Nat /\ ~Go(Head(inbox), pendingId)
        BY <2>2 DEF m
      <3>3. Settled(pendingId, Tail(inbox), IF 0 = 0 THEN 0 ELSE 0 - 1)
        BY <1>1, <3>1, <3>2, SettledTail
      <3> QED BY <1>1, <2>2, <3>3
    <2> QED BY <1>3, <2>1, <2>2, HandlerAwaits DEF m
  <1> QED BY <1>1, <1>2, <1>3 DEF StreamInv, StreamOf

\* It introduces the client again when it says that it cannot follow.
LEMMA HandlePack ==
    ASSUME Types, AloneInv, StreamInv, PackInv, Handle PROVE PackInv'
  <1> DEFINE m == Head(inbox)
  <1>1. m = inbox[1] /\ 1 \in 1 .. Len(inbox) /\ ws = "idle" /\ IsList(outbox)
    BY HandlerReads DEF Types, MailOK, OKOutbox
  <1> HIDE DEF m
  <1>2. m.op = "announce" => m.id # 0
    BY <1>1 DEF StreamInv, StreamOf
  <1>3. Wrapping' => package' # 0 /\ groupReady'
    BY HandlerWraps DEF PackInv, Enters, m
  <1>4. CASE outbox' = outbox
    BY <1>1, <1>3, <1>4 DEF PackInv, PackOf
  <1>5. ASSUME NEW o, outbox' = Append(outbox, o), o.op = "invalid" => ws' = "rebuild",
               o.op = "package" => o.package # 0
        PROVE  PackOf(outbox)'
    <2>1. \A p \in Said(outbox') : p.op = "package" => p.package # 0
      BY <1>1, <1>5, SaidMore DEF PackInv, PackOf
    <2>2. ASSUME NEW i \in 1 .. Len(outbox'), outbox'[i].op = "invalid"
          PROVE  ws' = "rebuild" \/ \E p \in Rest(outbox', i) : p.op = "package"
      <3>1. CASE i \in 1 .. Len(outbox) /\ i \in 0 .. Len(outbox) /\ outbox'[i] = outbox[i]
        <4>1. \E p \in Rest(outbox, i) : p.op = "package"
          BY <1>1, <2>2, <3>1 DEF PackInv, PackOf
        <4>2. Rest(outbox', i) = Rest(outbox, i) \union {o}
          BY <1>1, <1>5, <3>1, RestAppend
        <4> QED BY <4>1, <4>2
      <3>2. CASE i = Len(outbox) + 1 /\ outbox'[i] = o
        BY <1>5, <2>2, <3>2
      <3> QED BY <1>1, <1>5, <3>1, <3>2, RestAppend
    <2> QED BY <2>1, <2>2 DEF PackOf
  <1>6. PackOf(outbox)'
    BY <1>2, <1>4, <1>5, HandlerAsks DEF PackInv, m
  <1> QED BY <1>3, <1>6 DEF PackInv

\* What it says before it says more.
LEMMA HandlerKeepsSaid ==
    ASSUME Types, Handle PROVE Said(outbox) \subseteq Said(outbox')
  <1> DEFINE m == Head(inbox)
  <1>1. IsList(outbox) /\ InOK(m)
    BY HandlerReads DEF Types, MailOK, OKOutbox
  <1> HIDE DEF m
  <1>2. outbox' = outbox \/ \E o : outbox' = Append(outbox, o)
    BY <1>1, HandlerSays DEF Types, m
  <1>3. ASSUME NEW o, outbox' = Append(outbox, o) PROVE Said(outbox') = Said(outbox) \union {o}
    BY <1>1, <1>3, SaidMore
  <1> QED BY <1>2, <1>3

\* It leaves nobody who is not let in with keys to wrap frames with.
LEMMA HandleShut ==
    ASSUME Types, VersionInv, AloneInv, StreamInv, PackInv, ShutInv, Handle PROVE ShutInv'
  <1> DEFINE m == Head(inbox)
  <1>1. /\ IsList(inbox) /\ inbox # <<>> /\ inbox' = Tail(inbox) /\ ws = "idle"
        /\ m = inbox[1] /\ 1 \in 1 .. Len(inbox)
        /\ UNCHANGED <<channel, member, offered, spare>>
    <2>1. UNCHANGED server
      BY HandlerReads
    <2> QED BY <2>1, HandlerReads DEF server
  <1> HIDE DEF m
  <1>2. tick' = tick
    BY HandlerIs DEF m, Ignored, client, OnSender, OnProposals, OnRevoke, Enters, Refused, OnAnnounceNow,
                     OnAnnounceLater, OnPrepare, OnEpochOne, ChangeVersion, Swap, Applied
  <1>3. AskedOf(outbox) => AskedOf(outbox)'
    BY <1>1, <1>2, HandlerKeepsSaid DEF AskedOf
  <1>4. ASSUME ShutOf(inbox) PROVE ShutOf(inbox)'
    <2>1. ASSUME NEW i \in 1 .. Len(inbox'), inbox'[i].op = "welcome"
          PROVE  EndsAfter(inbox', i)
      <3>1. /\ i \in Nat /\ i + 1 \in 1 .. Len(inbox) /\ inbox'[i] = inbox[i + 1]
            /\ Rest(inbox', i) = Rest(inbox, i + 1)
        BY <1>1, RestTail
      <3>2. EndsAfter(inbox, i + 1)
        BY <1>4, <2>1, <3>1 DEF ShutOf
      <3> QED BY <3>1, <3>2 DEF EndsAfter
    <2>2. ASSUME Wrapping' PROVE LapsesOf(inbox)'
      <3>1. CASE m.op = "welcome"
        <4>1. EndsAfter(inbox, 1) /\ Rest(inbox, 1) = Rest(inbox', 0)
          BY <1>1, <1>4, <3>1, RestTail DEF ShutOf
        <4> QED BY <4>1 DEF LapsesOf, EndsAfter
      <3>2. CASE Wrapping
        <4>1. LapsesOf(inbox)
          BY <1>4, <3>2 DEF ShutOf
        <4> QED BY <2>2, <4>1, HandlerLapses
      <3> QED BY <2>2, <3>1, <3>2, HandlerWraps DEF m
    <2> QED BY <2>1, <2>2 DEF ShutOf
  <1> QED BY <1>1, <1>3, <1>4 DEF ShutInv

\* Where a client that follows is when it has read one thing more.
LEMMA HandlerTracks ==
    ASSUME Types, TurnInv, CommitInv, WaitInv, AloneInv, ReachInv, VersionInv, StreamInv, PackInv,
           TrackOf(inbox, epoch), Handle,
           Wrapping', ~LapsesOf(inbox)', ~LetsIn(inbox', 0)
    PROVE  PathOf(inbox', 0, Reached', epoch) /\ (Awaits' /\ own'.won => Swapped' = group' + 1)
  <1> DEFINE m == Head(inbox)
  <1>1. /\ IsList(inbox) /\ inbox # <<>> /\ inbox' = Tail(inbox) /\ InOK(m)
        /\ m = inbox[1] /\ 1 \in 1 .. Len(inbox) /\ m \in Said(inbox) /\ UNCHANGED winner
    BY HandlerReads
  <1>2. Rest(inbox, 0) = {m} \union Rest(inbox', 0) /\ Rest(inbox, 1) = Rest(inbox', 0)
    BY <1>1, RestTail
  <1> HIDE DEF m
  <1>3. pendingId \in Int /\ lastDone \in Int /\ group \in Int /\ epoch \in Int
    BY ServerNumbers
  <1>4. Past(pendingId, m) /\ Past(lastDone, m)
    BY <1>1 DEF TurnInv, TurnOf, Before
  <1>5. CASE m.op = "welcome" /\ Enters(m)
    <2>1. ~LetsIn(inbox, 1) /\ ~EndsAfter(inbox, 1)
      BY <1>2 DEF LetsIn, EndsAfter, LapsesOf
    <2>2. PathOf(inbox, 1, m.epoch, epoch)
      BY <1>1, <1>5, <2>1 DEF TrackOf
    <2>3. group' = m.epoch /\ lastDone' = m.id /\ pendingId' = pendingId
      BY <1>5 DEF Enters
    <2>4. pendingId <= m.id /\ m.id \in Nat
      BY <1>1, <1>4, <1>5 DEF Past, Dated, InOK
    <2>5. ~Awaits'
      BY <1>3, <2>3, <2>4 DEF Awaits
    <2> QED BY <1>2, <2>2, <2>3, <2>5 DEF Reached, PathOf
  <1>6. ASSUME Wrapping, m.op # "welcome"
        PROVE  /\ PathOf(inbox, 0, Reached, epoch)
               /\ Awaits /\ own.won => Swapped = group + 1
               /\ m.op # "announce" => PathOf(inbox', 0, Reached, epoch)
    <2>1. ~LapsesOf(inbox)
      BY HandlerLapses DEF m
    <2>2. ~LetsIn(inbox, 0)
      BY <1>2, <1>6 DEF LetsIn
    <2>3. PathOf(inbox, 0, Reached, epoch) /\ (Awaits /\ own.won => Swapped = group + 1)
      BY <1>6, <2>1, <2>2 DEF TrackOf
    <2>4. m.op # "announce" => PathOf(inbox', 0, Reached, epoch)
      BY <1>2, <2>3 DEF PathOf
    <2> QED BY <2>3, <2>4
  <1>7. CASE /\ Wrapping /\ m.op \notin {"welcome", "announce"}
             /\ UNCHANGED <<group, pendingId, lastDone>>
             /\ own'.won => own.won /\ groupNext' = groupNext
    <2>1. Awaits' = Awaits /\ Reached' = Reached
      BY <1>7 DEF Awaits, Reached
    <2>2. own'.won => Swapped' = Swapped
      BY <1>1, <1>7 DEF Swapped
    <2> QED BY <1>6, <1>7, <2>1, <2>2
  <1>8. CASE Wrapping /\ m.op = "announce" /\ m.id # 0 /\ OnAnnounceLater(m)
    <2>1. ~Awaits
      <3>1. SUFFICES ASSUME Settled(pendingId, inbox, 0) PROVE FALSE
        BY DEF StreamInv, StreamOf
      <3>2. PICK l \in 1 .. Len(inbox) : 0 < l /\ l < 1
        BY <1>1, <1>8, <3>1 DEF Settled
      <3> QED BY <3>2
    <2>2. PathOf(inbox, 0, group, epoch) /\ Reached = group
      BY <1>6, <1>8, <2>1 DEF Reached
    <2>3. /\ m.base \in Nat /\ m.id \in Nat /\ m.base + 1 <= epoch
          /\ pendingId < m.id /\ lastDone < m.id
      <3>1. Later(m) /\ Dated(m) /\ Leads(m) /\ Reach(m) = m.base + 1
        BY <1>8 DEF Later, Dated, Leads, Reach
      <3>2. Under(Reach(m), m.id)
        BY <1>1, <3>1 DEF ReachInv
      <3> QED BY <1>1, <1>4, <1>8, <3>1, <3>2 DEF InOK, Past, Under
    <2>4. \A x \in Rest(inbox', 0) : x.op = "announce" => x.base \in Nat /\ m.base < x.base
      <3>1. \A x \in Rest(inbox, 1) : x.op = "announce" => m.base < x.base
        BY <1>1, <1>8 DEF StreamInv, StreamOf
      <3>2. \A x \in Said(inbox) : x.op = "announce" => x.base \in Nat
        BY DEF Types, MailOK, OKInbox, InOK, Said
      <3> QED BY <1>1, <1>2, <3>1, <3>2, RestIsSaid
    <2>5. m.base = group
      <3>1. m.base >= group
        BY <1>2, <1>8, <2>2 DEF PathOf
      <3>2. group + 1 \in (group + 1) .. epoch
        BY <1>3, <2>3, <3>1
      <3>3. PICK x \in Rest(inbox, 0) : x.op = "announce" /\ x.base + 1 = group + 1
        BY <2>2, <3>2 DEF PathOf
      <3>4. CASE x = m
        BY <1>3, <2>3, <3>3, <3>4
      <3>5. CASE x \in Rest(inbox', 0)
        BY <1>3, <2>3, <2>4, <3>1, <3>3, <3>5
      <3> QED BY <1>2, <3>4, <3>5
    <2>6. PathOf(inbox', 0, group + 1, epoch)
      <3>1. group + 1 <= epoch
        BY <2>3, <2>5
      <3>2. ASSUME NEW e \in ((group + 1) + 1) .. epoch
            PROVE  \E x \in Rest(inbox', 0) : x.op = "announce" /\ x.base + 1 = e
        <4>1. e \in (group + 1) .. epoch /\ e # group + 1
          BY <1>3
        <4>2. PICK x \in Rest(inbox, 0) : x.op = "announce" /\ x.base + 1 = e
          BY <2>2, <4>1 DEF PathOf
        <4>3. x # m
          BY <2>5, <4>1, <4>2
        <4> QED BY <1>2, <4>2, <4>3
      <3>3. \A x \in Rest(inbox', 0) : x.op = "announce" => x.base >= group + 1
        BY <1>3, <2>4, <2>5
      <3> QED BY <3>1, <3>2, <3>3 DEF PathOf
    <2>7. pendingId' = m.id /\ lastDone' = lastDone /\ group' = group
      BY <1>8 DEF OnAnnounceLater
    <2>8. Awaits' /\ Reached' = group + 1
      BY <2>3, <2>7 DEF Awaits, Reached
    <2>9. own'.won => Swapped' = group + 1
      <3>1. pendingId' # pendingId
        BY <1>3, <2>3, <2>7
      <3>2. own'.won => Swapped' = Reach(m)
        BY <3>1, HandlerWon DEF m
      <3> QED BY <1>8, <2>5, <3>2 DEF Reach
    <2> QED BY <2>6, <2>7, <2>8, <2>9
  <1>9. CASE /\ Wrapping /\ m.op = "execute" /\ m.id # lastDone /\ m.id = pendingId
             /\ \/ OwnWon(m.id) /\ Swap(m.id)
                \/ pending.have /\ pending.base = group /\ Applied(m.id)
    <2>1. lastDone <= m.id /\ m.id \in Nat
      BY <1>1, <1>4, <1>9 DEF Past, Dated, InOK
    <2>2. Awaits /\ Reached = group + 1
      BY <1>3, <1>9, <2>1 DEF Awaits, Reached
    <2>3. lastDone' = m.id /\ pendingId' = m.id
      BY <1>9 DEF Swap, Applied
    <2>4. ~Awaits'
      BY <2>1, <2>3 DEF Awaits
    <2>5. group' = group + 1
      <3>1. CASE OwnWon(m.id) /\ Swap(m.id)
        <4>1. mediaReady
          BY <1>9 DEF Wrapping
        <4>2. own.won
          BY <1>9, <3>1, <4>1, KeyedSwap DEF m
        <4> QED BY <1>6, <1>9, <2>2, <3>1, <4>2 DEF Swap
      <3>2. CASE pending.base = group /\ Applied(m.id)
        BY <3>2 DEF Applied
      <3> QED BY <1>9, <3>1, <3>2
    <2> QED BY <1>6, <1>9, <2>2, <2>4, <2>5 DEF Reached
  <1> QED BY <1>5, <1>7, <1>8, <1>9, HandlerWraps DEF m

\* A handler keeps the client on the way.
LEMMA HandleTrack ==
    ASSUME Types, TurnInv, CommitInv, WaitInv, AloneInv, ReachInv, VersionInv, StreamInv, PackInv,
           TrackInv, Handle
    PROVE  TrackInv'
  <1>1. /\ IsList(inbox) /\ inbox # <<>> /\ inbox' = Tail(inbox)
        /\ UNCHANGED <<epoch, member>>
    BY HandlerReads
  <1> SUFFICES ASSUME member', ~RefusingOf(outbox)' PROVE TrackOf(inbox, epoch)'
    BY DEF TrackInv
  <1>2. TrackOf(inbox, epoch)
    BY <1>1, HandlerKeepsSaid DEF TrackInv, RefusingOf
  <1>3. Wrapping' /\ ~LapsesOf(inbox)' /\ ~LetsIn(inbox', 0) =>
          PathOf(inbox', 0, Reached', epoch') /\ (Awaits' /\ own'.won => Swapped' = group' + 1)
    BY <1>1, <1>2, HandlerTracks
  <1>4. ASSUME NEW i \in 1 .. Len(inbox'), inbox'[i].op = "welcome", ~LetsIn(inbox', i),
               ~EndsAfter(inbox', i)
        PROVE  PathOf(inbox', i, inbox'[i].epoch, epoch')
    <2>1. /\ i \in Nat /\ i + 1 \in 1 .. Len(inbox) /\ inbox'[i] = inbox[i + 1]
          /\ Rest(inbox', i) = Rest(inbox, i + 1)
      BY <1>1, RestTail
    <2>2. ~LetsIn(inbox, i + 1) /\ ~EndsAfter(inbox, i + 1)
      BY <1>4, <2>1 DEF LetsIn, EndsAfter
    <2>3. PathOf(inbox, i + 1, inbox[i + 1].epoch, epoch)
      BY <1>2, <1>4, <2>1, <2>2 DEF TrackOf
    <2> QED BY <1>1, <2>1, <2>3 DEF PathOf
  <1> QED BY <1>3, <1>4 DEF TrackOf

\* A handler keeps all of it.
LEMMA HandleHeard ==
    ASSUME ChannelInv, AheadInv, HeardInv, Handle PROVE HeardInv'
  <1>1. /\ Types /\ TurnInv /\ CommitInv /\ WaitInv /\ AloneInv /\ ReachInv /\ VersionInv
        /\ StreamInv /\ PackInv /\ ShutInv /\ TrackInv
    BY DEF ChannelInv, AheadInv, HeardInv
  <1> QED BY <1>1, HandleStream, HandlePack, HandleShut, HandleTrack DEF HeardInv

-----------------------------------------------------------------------------
(* The steps of the client that read nothing keep it.                         *)

\* They give no keys, and what they say introduces the client or answers.
QuietTalk ==
    /\ Wrapping' => Wrapping /\ UNCHANGED <<group, own, package, groupReady>>
    /\ \/ outbox' = outbox /\ (ws = "rebuild" => ws' = "rebuild")
       \/ \E o : /\ outbox' = Append(outbox, o) /\ o.op \in {"package", "ready"}
                 /\ o.op = "package" => o.package # 0
                 /\ ws = "rebuild" => ws' = "rebuild" \/ o.op = "package"
    /\ AskedOf(outbox) => AskedOf(outbox)'

\* They do.
LEMMA QuietTalks ==
    ASSUME Types, AloneInv, InGroupInv, ~crossed,
           \/ ResetRatchets \/ Welcomed \/ ForgetFirst \/ Rebuild
           \/ CheckMedia \/ UseRatchet \/ Watchdog \/ WatchdogRebuild \/ FiveSeconds
    PROVE  QuietTalk
  <1>1. IsList(outbox)
    BY DEF Types, MailOK, OKOutbox
  <1>2. CASE ResetRatchets \/ CheckMedia \/ UseRatchet \/ FiveSeconds
    <2>1. /\ UNCHANGED <<active, mediaReady, group, own, package, groupReady, outbox, spare>>
          /\ ws' = ws \/ (ws = "moved" /\ ws' = "idle")
          /\ tick' = tick \/ tick # "rebuild"
      BY <1>2 DEF ResetRatchets, CheckMedia, UseRatchet, FiveSeconds, server
    <2> QED BY <2>1 DEF QuietTalk, Wrapping, AskedOf
  <1>3. CASE Welcomed
    <2> DEFINE o == [op |-> "ready", id |-> lastDone]
    <2>1. /\ UNCHANGED <<active, mediaReady, group, own, package, groupReady, spare, tick>>
          /\ ws = "welcomed" /\ ws' = "idle" /\ outbox' = Append(outbox, o) /\ o.op = "ready"
      BY <1>3 DEF Welcomed, server, Say
    <2> HIDE DEF o
    <2>2. Said(outbox) \subseteq Said(outbox')
      BY <1>1, <2>1, SaidMore
    <2> QED BY <2>1, <2>2 DEF QuietTalk, Wrapping, AskedOf
  <1>4. CASE ForgetFirst \/ Watchdog
    <2>1. /\ mediaReady' = FALSE /\ outbox' = outbox
          /\ ws = "rebuild" => ws' = "rebuild"
          /\ ws' = "rebuild" \/ tick' = "rebuild"
      BY <1>4 DEF ForgetFirst, Watchdog, Forget
    <2> QED BY <2>1 DEF QuietTalk, Wrapping, AskedOf
  <1>5. CASE Rebuild \/ WatchdogRebuild
    <2>1. /\ SendKeyPackage /\ UNCHANGED <<active, mediaReady>>
          /\ (ws = "rebuild" /\ ws' = "idle") \/ (tick = "rebuild" /\ UNCHANGED ws)
      BY <1>5 DEF Rebuild, WatchdogRebuild
    <2>2. ~Wrapping'
      BY <2>1 DEF AloneInv, InGroupInv, Wrapping
    <2>3. PICK o : outbox' = Append(outbox, o) /\ o.op = "package" /\ o.package # 0
      BY <2>1, PackageIsSome
    <2>4. o \in Said(outbox')
      BY <1>1, <2>3, SaidMore
    <2> QED BY <2>2, <2>3, <2>4 DEF QuietTalk, Wrapping, AskedOf
  <1> QED BY <1>2, <1>3, <1>4, <1>5

\* They keep it.
LEMMA QuietHeard ==
    ASSUME Types, AloneInv, InGroupInv, ~crossed, HeardInv,
           \/ ResetRatchets \/ Welcomed \/ ForgetFirst \/ Rebuild
           \/ CheckMedia \/ UseRatchet \/ Watchdog \/ WatchdogRebuild \/ FiveSeconds
    PROVE  HeardInv'
  <1>1. UNCHANGED <<server, inbox, pendingId, lastDone, groupNext, version, versionNext>>
    BY DEF ResetRatchets, Welcomed, ForgetFirst, Rebuild, CheckMedia, UseRatchet, Watchdog,
           WatchdogRebuild, FiveSeconds
  <1>2. UNCHANGED <<epoch, winner, member, channel, offered>> /\ IsList(outbox)
    BY <1>1 DEF server, Types, MailOK, OKOutbox
  <1>3. QuietTalk /\ StreamInv /\ PackInv /\ ShutInv /\ TrackInv
    BY QuietTalks DEF HeardInv
  <1>4. Wrapping' => Wrapping /\ UNCHANGED <<group, own, package, groupReady>>
    BY <1>3 DEF QuietTalk
  <1>5. /\ Awaits' => Awaits
        /\ Wrapping' => Awaits' = Awaits /\ Reached' = Reached /\ Swapped' = Swapped
    BY <1>1, <1>2, <1>4 DEF Awaits, Reached, Swapped
  <1>6. StreamInv'
    BY <1>1, <1>2, <1>3, <1>5 DEF StreamInv, StreamOf
  <1>7. ASSUME outbox' = outbox, ws = "rebuild" => ws' = "rebuild"
        PROVE  PackInv' /\ (RefusingOf(outbox) => RefusingOf(outbox)')
    <2>1. PackInv'
      BY <1>3, <1>4, <1>7 DEF PackInv, PackOf
    <2>2. RefusingOf(outbox) => RefusingOf(outbox)'
      BY <1>7 DEF RefusingOf
    <2> QED BY <2>1, <2>2
  <1>8. ASSUME NEW o, outbox' = Append(outbox, o), o.op \in {"package", "ready"},
               o.op = "package" => o.package # 0,
               ws = "rebuild" => ws' = "rebuild" \/ o.op = "package"
        PROVE  PackInv' /\ (RefusingOf(outbox) => RefusingOf(outbox)')
    <2>1. Said(outbox') = Said(outbox) \union {o}
      BY <1>2, <1>8, SaidMore
    <2>2. ASSUME NEW i \in 1 .. Len(outbox'), outbox'[i].op = "invalid"
          PROVE  ws' = "rebuild" \/ \E p \in Rest(outbox', i) : p.op = "package"
      <3>1. i \in 1 .. Len(outbox) /\ i \in 0 .. Len(outbox) /\ outbox'[i] = outbox[i]
        BY <1>2, <1>8, <2>2, RestAppend
      <3>2. ws = "rebuild" \/ \E p \in Rest(outbox, i) : p.op = "package"
        BY <1>3, <2>2, <3>1 DEF PackInv, PackOf
      <3>3. Rest(outbox', i) = Rest(outbox, i) \union {o}
        BY <1>2, <1>8, <3>1, RestAppend
      <3> QED BY <1>8, <3>2, <3>3
    <2>3. PackOf(outbox)'
      BY <1>3, <1>8, <2>1, <2>2 DEF PackInv, PackOf
    <2> QED BY <1>3, <1>4, <2>1, <2>3 DEF PackInv, RefusingOf
  <1>9. PackInv' /\ (RefusingOf(outbox) => RefusingOf(outbox)')
    BY <1>3, <1>7, <1>8 DEF QuietTalk, RefusingOf
  <1>10. ShutInv'
    <2>1. ShutOf(inbox) => ShutOf(inbox)'
      BY <1>1, <1>4 DEF ShutOf, LapsesOf
    <2>2. AskedOf(outbox) => AskedOf(outbox)'
      BY <1>3 DEF QuietTalk
    <2> QED BY <1>2, <1>3, <2>1, <2>2 DEF ShutInv
  <1>11. TrackInv'
    <2>1. TrackOf(inbox, epoch) => TrackOf(inbox, epoch)'
      BY <1>1, <1>2, <1>4, <1>5 DEF TrackOf, LapsesOf
    <2> QED BY <1>2, <1>3, <1>9, <2>1 DEF TrackInv
  <1> QED BY <1>6, <1>9, <1>10, <1>11 DEF HeardInv

-----------------------------------------------------------------------------
(* What a message that is added does to it.                                   *)

\* An announcement comes when the transitions before it were gone through with, and
\* leads further.
LEMMA StreamGrows ==
    ASSUME NEW s, IsList(s), StreamOf(s), NEW m,
           m.op = "announce" =>
               /\ m.id # 0
               /\ \A i \in 1 .. Len(s) : s[i].op = "announce" =>
                      s[i].base < m.base /\ Goes(s[i].id, s, i)
               /\ Awaits => Goes(pendingId, s, 0)
    PROVE  StreamOf(Append(s, m))
  <1> DEFINE t == Append(s, m)
  <1>1. /\ Len(s) \in Nat
        /\ \A i \in 0 .. Len(s) : Rest(t, i) = Rest(s, i) \union {m}
        /\ Rest(t, Len(s) + 1) = {}
        /\ \A i \in 1 .. Len(t) : \/ i \in 1 .. Len(s) /\ i \in 0 .. Len(s) /\ t[i] = s[i]
                                  \/ i = Len(s) + 1 /\ t[i] = m
    BY RestAppend
  <1>2. \A k : \A i \in Nat : Settled(k, s, i) /\ (m.op = "announce" => Goes(k, s, i)) => Settled(k, t, i)
    BY SettledAppend
  <1>3. Len(t) = Len(s) + 1
    BY ListAppend
  <1> HIDE DEF t
  <1>4. ASSUME NEW i \in 1 .. Len(t), t[i].op = "announce"
        PROVE  /\ t[i].id # 0 /\ Settled(t[i].id, t, i)
               /\ \A a \in Rest(t, i) : a.op = "announce" => t[i].base < a.base
    <2>1. CASE i \in 1 .. Len(s) /\ i \in 0 .. Len(s) /\ t[i] = s[i]
      <3>1. /\ s[i].id # 0 /\ Settled(s[i].id, s, i)
            /\ \A a \in Rest(s, i) : a.op = "announce" => s[i].base < a.base
        BY <1>4, <2>1 DEF StreamOf
      <3>2. i \in Nat /\ (m.op = "announce" => Goes(s[i].id, s, i) /\ s[i].base < m.base)
        BY <1>4, <2>1
      <3>3. Settled(s[i].id, t, i)
        BY <1>2, <3>1, <3>2
      <3> QED BY <1>1, <2>1, <3>1, <3>2, <3>3
    <2>2. CASE i = Len(s) + 1 /\ t[i] = m
      <3>1. Settled(m.id, t, i)
        BY <1>1, <1>3, <2>2 DEF Settled
      <3> QED BY <1>1, <1>4, <2>2, <3>1
    <2> QED BY <1>1, <2>1, <2>2
  <1>5. Awaits => Settled(pendingId, t, 0)
    BY <1>2 DEF StreamOf
  <1>6. StreamOf(t)
    BY <1>4, <1>5 DEF StreamOf
  <1> QED BY <1>6 DEF t

\* What ends the keys ends them for who is let in before, and nothing else revives them.
LEMMA ShutGrows ==
    ASSUME NEW s, IsList(s), NEW m, m.op # "welcome", ShutOf(s) \/ Ends(m)
    PROVE  ShutOf(Append(s, m))
  <1> DEFINE t == Append(s, m)
  <1>1. /\ Len(s) \in Nat
        /\ \A i \in 0 .. Len(s) : Rest(t, i) = Rest(s, i) \union {m}
        /\ \A i \in 1 .. Len(t) : \/ i \in 1 .. Len(s) /\ i \in 0 .. Len(s) /\ t[i] = s[i]
                                  \/ i = Len(s) + 1 /\ t[i] = m
    BY RestAppend
  <1> HIDE DEF t
  <1>2. 0 \in 0 .. Len(s)
    BY <1>1
  <1>3. \A i \in 0 .. Len(s) : EndsAfter(s, i) \/ Ends(m) => EndsAfter(t, i)
    BY <1>1 DEF EndsAfter
  <1>4. Wrapping => LapsesOf(t)
    BY <1>2, <1>3 DEF ShutOf, LapsesOf
  <1>5. ASSUME NEW i \in 1 .. Len(t), t[i].op = "welcome" PROVE EndsAfter(t, i)
    <2>1. i \in 1 .. Len(s) /\ i \in 0 .. Len(s) /\ t[i] = s[i]
      BY <1>1, <1>5
    <2> QED BY <1>3, <1>5, <2>1 DEF ShutOf
  <1>6. ShutOf(t)
    BY <1>4, <1>5 DEF ShutOf
  <1> QED BY <1>6 DEF t

\* An announcement leads one epoch further.
LEMMA PathGrows ==
    ASSUME NEW s, IsList(s), NEW m, NEW i \in 0 .. Len(s), NEW g \in Int, NEW n \in Int, NEW k \in Int,
           PathOf(s, i, g, n),
           \/ m.op # "announce" /\ k = n
           \/ m.op = "announce" /\ m.base = n /\ k = n + 1
    PROVE  PathOf(Append(s, m), i, g, k)
  <1>1. Rest(Append(s, m), i) = Rest(s, i) \union {m}
    BY RestAppend
  <1>2. CASE m.op # "announce" /\ k = n
    BY <1>1, <1>2 DEF PathOf
  <1>3. CASE m.op = "announce" /\ m.base = n /\ k = n + 1
    <2>1. g <= k
      BY <1>3 DEF PathOf
    <2>2. ASSUME NEW e \in (g + 1) .. k
          PROVE  \E a \in Rest(s, i) \union {m} : a.op = "announce" /\ a.base + 1 = e
      <3>1. e \in (g + 1) .. n \/ e = n + 1
        BY <1>3
      <3> QED BY <1>3, <3>1 DEF PathOf
    <2>3. \A a \in Rest(s, i) \union {m} : a.op = "announce" => a.base >= g
      BY <1>3 DEF PathOf
    <2> QED BY <1>1, <2>1, <2>2, <2>3 DEF PathOf
  <1> QED BY <1>2, <1>3

\* So it does for a client that follows.
LEMMA TrackGrows ==
    ASSUME Types, NEW n \in Int, NEW k \in Int, TrackOf(inbox, n), NEW m,
           \/ m.op \notin {"announce", "welcome"} /\ k = n
           \/ m.op = "announce" /\ m.base = n /\ k = n + 1
    PROVE  TrackOf(Append(inbox, m), k)
  <1> DEFINE t == Append(inbox, m)
  <1>0. IsList(inbox) /\ OKInbox(inbox)
    BY DEF Types, MailOK, OKInbox
  <1>1. /\ Len(inbox) \in Nat
        /\ \A i \in 0 .. Len(inbox) : Rest(t, i) = Rest(inbox, i) \union {m}
        /\ \A i \in 1 .. Len(t) : \/ i \in 1 .. Len(inbox) /\ i \in 0 .. Len(inbox) /\ t[i] = inbox[i]
                                  \/ i = Len(inbox) + 1 /\ t[i] = m
    BY <1>0, RestAppend
  <1>2. ASSUME NEW i \in 0 .. Len(inbox), NEW g \in Int, PathOf(inbox, i, g, n)
        PROVE  PathOf(t, i, g, k)
    BY <1>0, <1>2, PathGrows
  <1> HIDE DEF t
  <1>3. \A i \in 0 .. Len(inbox) : /\ EndsAfter(inbox, i) => EndsAfter(t, i)
                                   /\ LetsIn(inbox, i) => LetsIn(t, i)
    BY <1>1 DEF EndsAfter, LetsIn
  <1>4. 0 \in 0 .. Len(inbox) /\ Reached \in Int
    BY <1>1, ServerNumbers DEF Reached
  <1>5. ASSUME Wrapping, ~LapsesOf(t), ~LetsIn(t, 0)
        PROVE  PathOf(t, 0, Reached, k) /\ (Awaits /\ own.won => Swapped = group + 1)
    <2>1. ~LapsesOf(inbox) /\ ~LetsIn(inbox, 0)
      BY <1>3, <1>4, <1>5 DEF LapsesOf
    <2> QED BY <1>2, <1>4, <1>5, <2>1 DEF TrackOf
  <1>6. ASSUME NEW i \in 1 .. Len(t), t[i].op = "welcome", ~LetsIn(t, i), ~EndsAfter(t, i)
        PROVE  PathOf(t, i, t[i].epoch, k)
    <2>1. i \in 1 .. Len(inbox) /\ i \in 0 .. Len(inbox) /\ t[i] = inbox[i]
      BY <1>1, <1>6
    <2>2. inbox[i].epoch \in Int
      BY <1>0, <1>6, <2>1 DEF OKInbox, InOK
    <2>3. PathOf(inbox, i, inbox[i].epoch, n)
      BY <1>3, <1>6, <2>1 DEF TrackOf
    <2> QED BY <1>2, <2>1, <2>2, <2>3
  <1>7. TrackOf(t, k)
    BY <1>5, <1>6 DEF TrackOf
  <1> QED BY <1>7 DEF t

\* Who is let in now is let in to the epoch the group is at.
LEMMA TrackLetIn ==
    ASSUME NEW s, IsList(s), NEW m, m.op = "welcome", NEW k \in Int, m.epoch = k
    PROVE  TrackOf(Append(s, m), k)
  <1> DEFINE t == Append(s, m)
  <1>1. /\ Len(s) \in Nat
        /\ \A i \in 0 .. Len(s) : Rest(t, i) = Rest(s, i) \union {m}
        /\ Rest(t, Len(s) + 1) = {}
        /\ \A i \in 1 .. Len(t) : \/ i \in 1 .. Len(s) /\ i \in 0 .. Len(s) /\ t[i] = s[i]
                                  \/ i = Len(s) + 1 /\ t[i] = m
    BY RestAppend
  <1> HIDE DEF t
  <1>2. \A i \in 0 .. Len(s) : LetsIn(t, i)
    BY <1>1 DEF LetsIn
  <1>3. LetsIn(t, 0)
    BY <1>1, <1>2
  <1>4. PathOf(t, Len(s) + 1, k, k)
    <2>1. (k + 1) .. k = {}
      OBVIOUS
    <2> QED BY <1>1, <2>1 DEF PathOf
  <1>5. TrackOf(t, k)
    BY <1>1, <1>2, <1>3, <1>4 DEF TrackOf
  <1> QED BY <1>5 DEF t

-----------------------------------------------------------------------------
(* The steps of the server and of the call keep it.                           *)

\* The client does nothing: what it is told and what is left of what it said decide.
LEMMA StillHeard ==
    ASSUME HeardInv, UNCHANGED client, NEW s, inbox' = s, NEW n, epoch' = n,
           StreamOf(s), PackOf(outbox'), own.won => Swapped' = Swapped,
           channel' = 0 => ~member' /\ offered' = NoOffer,
           channel' = 0 \/ (~member' /\ ~AskedOf(outbox)') => ShutOf(s),
           member' /\ ~RefusingOf(outbox)' => TrackOf(s, n)
    PROVE  HeardInv'
  <1>1. UNCHANGED <<active, version, versionNext, group, groupReady, mediaReady, package, own,
                    pendingId, lastDone, ws, tick>>
    BY DEF client
  <1>2. Wrapping' = Wrapping /\ Awaits' = Awaits /\ Reached' = Reached
    BY <1>1 DEF Wrapping, Awaits, Reached
  <1>3. StreamInv'
    BY <1>1, <1>2 DEF StreamInv, StreamOf
  <1>4. PackInv'
    BY <1>1, <1>2 DEF HeardInv, PackInv, PackOf
  <1>5. ShutOf(s) => ShutOf(inbox)'
    BY <1>1, <1>2 DEF ShutOf, LapsesOf
  <1>6. ShutInv'
    BY <1>5 DEF ShutInv
  <1>7. TrackOf(s, n) => TrackOf(inbox, epoch)'
    BY <1>1, <1>2 DEF TrackOf, LapsesOf
  <1>8. TrackInv'
    BY <1>7 DEF TrackInv
  <1> QED BY <1>3, <1>4, <1>6, <1>8 DEF HeardInv

\* The server reads what the client said in its order.
LEMMA PackTail ==
    ASSUME NEW s, IsList(s), s # <<>>, PackOf(s)
    PROVE  /\ PackOf(Tail(s)) /\ Said(s) = {Head(s)} \union Said(Tail(s))
           /\ Head(s).op = "package" => Head(s).package # 0
           /\ Head(s).op = "invalid" =>
                 ws = "rebuild" \/ \E o \in Said(Tail(s)) : o.op = "package"
  <1>1. /\ \A i \in Nat : Rest(Tail(s), i) = Rest(s, i + 1)
        /\ \A i \in 1 .. Len(Tail(s)) : i \in Nat /\ i + 1 \in 1 .. Len(s) /\ Tail(s)[i] = s[i + 1]
        /\ Rest(s, 0) = {Head(s)} \union Rest(Tail(s), 0)
        /\ 1 \in 1 .. Len(s) /\ s[1] = Head(s) /\ Rest(s, 1) = Rest(Tail(s), 0)
    BY RestTail
  <1>2. Rest(s, 0) = Said(s) /\ Rest(Tail(s), 0) = Said(Tail(s))
    BY ListTail, RestIsSaid
  <1>3. Said(s) = {Head(s)} \union Said(Tail(s))
    BY <1>1, <1>2
  <1>4. PackOf(Tail(s))
    BY <1>1, <1>3 DEF PackOf
  <1>5. Head(s).op = "invalid" => ws = "rebuild" \/ \E o \in Said(Tail(s)) : o.op = "package"
    BY <1>1, <1>2 DEF PackOf
  <1>6. Head(s).op = "package" => Head(s).package # 0
    BY <1>3 DEF PackOf
  <1> QED BY <1>3, <1>4, <1>5, <1>6

\* A commit that is taken is announced when the one before was gone through with.
LEMMA Announced ==
    ASSUME Types, WaitInv, ReachInv, StreamInv, move = NoMove,
           NEW a, a.op = "announce", a.id # 0, a.base = epoch
    PROVE  /\ StreamOf(Append(inbox, a))
           /\ TrackOf(inbox, epoch) => TrackOf(Append(inbox, a), epoch + 1)
  <1>1. IsList(inbox) /\ epoch \in Nat /\ epoch + 1 \in Nat
    BY ServerNumbers DEF Types, MailOK, OKInbox
  <1>2. \A k : ~Underway(move, k)
    BY DEF Underway
  <1>3. ASSUME NEW i \in 1 .. Len(inbox), inbox[i].op = "announce"
        PROVE  inbox[i].base < epoch /\ Goes(inbox[i].id, inbox, i)
    <2>1. inbox[i] \in Said(inbox) /\ InOK(inbox[i])
      BY DEF Types, MailOK, OKInbox, Said
    <2>2. inbox[i].base \in Nat /\ inbox[i].base + 1 <= epoch
      BY <1>3, <2>1 DEF ReachInv, Leads, Reach, Under, InOK
    <2>3. Later(inbox[i])
      BY <1>3 DEF StreamInv, StreamOf, Later
    <2>4. Goes(inbox[i].id, inbox, i)
      BY <1>2, <2>3 DEF WaitInv, WaitOf
    <2> QED BY <1>1, <2>2, <2>4
  <1>4. Awaits => Goes(pendingId, inbox, 0)
    BY <1>2 DEF WaitInv, WaitOf
  <1>5. StreamOf(Append(inbox, a))
    BY <1>1, <1>3, <1>4, StreamGrows DEF StreamInv
  <1>6. TrackOf(inbox, epoch) => TrackOf(Append(inbox, a), epoch + 1)
    BY <1>1, TrackGrows
  <1> QED BY <1>5, <1>6

\* The server takes a commit of the client's.
LEMMA TakeCommitHeard ==
    ASSUME ChannelInv, AheadInv, HeardInv, ~crossed, Take, NEW m, m = Head(outbox), m.op = "commit",
           TakeCommit(m), Acceptable(m), ~AtOnce(inbox')
    PROVE  HeardInv'
  <1>1. /\ outbox # <<>> /\ outbox' = Tail(outbox) /\ UNCHANGED client
    BY DEF Take
  <1>2. /\ IsList(outbox) /\ IsList(inbox) /\ Types /\ WaitInv /\ CommitInv /\ ReachInv /\ StreamInv
        /\ ShutInv /\ PackOf(outbox) /\ TrackInv /\ ServerOK /\ InGroupInv
    BY DEF Types, MailOK, OKInbox, OKOutbox, ChannelInv, AheadInv, HeardInv, PackInv
  <1>3. epoch \in Nat /\ nextId # 0 /\ epoch < TopEpoch /\ winner \in [1 .. TopEpoch -> Nat]
        /\ offered # NoOffer /\ move = NoMove
    BY <1>2, ServerNumbers DEF ServerOK, Acceptable
  <1>4. PICK id :
          /\ Moves(id, TRUE) /\ member' = TRUE
          /\ winner' = [winner EXCEPT ![epoch + 1] = m.number]
          /\ Tell([op |-> "announce", id |-> id, base |-> epoch, mine |-> TRUE,
                   number |-> m.number])
    BY DEF TakeCommit
  <1> DEFINE a == [op |-> "announce", id |-> id, base |-> epoch, mine |-> TRUE,
                   number |-> m.number]
  <1>5. a.op = "announce" /\ a.id = id /\ a.base = epoch /\ inbox' = Append(inbox, a)
    BY <1>4 DEF Tell
  <1> HIDE DEF a
  <1>6. a.id # 0
    BY <1>2, <1>5, SaidMore DEF AtOnce
  <1>7. epoch' = epoch + 1 /\ channel' = channel
    BY <1>3, <1>4 DEF Moves
  <1>8. channel' # 0
    BY <1>2, <1>3, <1>7 DEF ShutInv
  <1>9. own.won => Swapped' = Swapped
    <2>1. groupNext' = groupNext
      BY <1>1 DEF client
    <2>2. \A e \in 1 .. TopEpoch : e <= epoch => winner'[e] = winner[e]
      BY <1>3, <1>4
    <2> QED BY <1>2, <2>1, <2>2, WonStays
  <1>10. PackOf(outbox') /\ Said(outbox) = {m} \union Said(outbox')
    BY <1>1, <1>2, PackTail
  <1>11. /\ StreamOf(Append(inbox, a))
         /\ TrackOf(inbox, epoch) => TrackOf(Append(inbox, a), epoch + 1)
    BY <1>2, <1>3, <1>5, <1>6, Announced
  <1>12. RefusingOf(outbox) => RefusingOf(outbox)'
    BY <1>10 DEF RefusingOf
  <1>13. ~RefusingOf(outbox)' => TrackOf(inbox, epoch)
    <2>1. CASE epoch # 0
      <3>1. member
        BY <2>1 DEF Acceptable
      <3> QED BY <1>2, <1>12, <3>1 DEF TrackInv
    \* Where nobody was let in before, nobody follows.
    <2>2. CASE epoch = 0
      <3>1. ~Wrapping
        BY <1>2, <2>2 DEF InGroupInv, ReachInv, Types, NumbersOK, Groups, Fork
      <3>2. ASSUME NEW i \in 1 .. Len(inbox), inbox[i].op = "welcome"
            PROVE  FALSE
        <4>1. InOK(inbox[i]) /\ inbox[i] \in Said(inbox)
          BY <1>2 DEF Types, MailOK, OKInbox, Said
        <4>2. inbox[i].epoch <= epoch /\ inbox[i].epoch \in 1 .. TopEpoch
          BY <1>2, <3>2, <4>1 DEF ReachInv, Leads, Reach, Under, InOK
        <4> QED BY <2>2, <4>2
      <3> QED BY <3>1, <3>2 DEF TrackOf
    <2> QED BY <2>1, <2>2
  <1>14. ~RefusingOf(outbox)' => TrackOf(Append(inbox, a), epoch + 1)
    BY <1>11, <1>13
  <1> QED BY <1>1, <1>4, <1>5, <1>7, <1>8, <1>9, <1>10, <1>11, <1>14, StillHeard

\* The server reads something the client said.
LEMMA TakeHeard ==
    ASSUME ChannelInv, AheadInv, HeardInv, ~crossed, Take, ~AtOnce(inbox') PROVE HeardInv'
  <1> DEFINE m == Head(outbox)
  <1>1. /\ outbox # <<>> /\ outbox' = Tail(outbox) /\ UNCHANGED client
        /\ \/ m.op = "package" /\ TakePackage(m)
           \/ m.op = "invalid" /\ TakeInvalid(m)
           \/ m.op = "commit" /\ TakeCommit(m)
           \/ m.op = "ready" /\ TakeReady(m)
    BY DEF Take
  <1>2. /\ IsList(outbox) /\ StreamInv /\ ShutInv /\ PackOf(outbox) /\ TrackInv
    BY DEF Types, MailOK, OKOutbox, ChannelInv, HeardInv, PackInv
  <1>3. /\ PackOf(outbox') /\ Said(outbox) = {m} \union Said(outbox')
        /\ m.op = "package" => m.package # 0
        /\ m.op = "invalid" => ws = "rebuild" \/ \E o \in Said(outbox') : o.op = "package"
    BY <1>1, <1>2, PackTail
  <1> HIDE DEF m
  <1>4. UNCHANGED <<ws, tick, groupNext>>
    BY <1>1 DEF client
  <1>5. m.op # "package" /\ spare' = spare => (AskedOf(outbox) => AskedOf(outbox)')
    BY <1>3, <1>4 DEF AskedOf
  <1>6. m.op # "invalid" => (RefusingOf(outbox) => RefusingOf(outbox)')
    BY <1>3 DEF RefusingOf
  <1>7. ASSUME UNCHANGED <<epoch, winner, channel, offered, inbox>>,
               member' => member /\ m.op # "invalid",
               member' \/ AskedOf(outbox)' \/ (~member /\ (AskedOf(outbox) => AskedOf(outbox)'))
        PROVE  HeardInv'
    <2>1. Swapped' = Swapped
      BY <1>4, <1>7 DEF Swapped
    <2>2. channel' = 0 => ~member' /\ offered' = NoOffer
      BY <1>2, <1>7 DEF ShutInv
    <2>3. channel' = 0 \/ (~member' /\ ~AskedOf(outbox)') => ShutOf(inbox)
      BY <1>2, <1>7 DEF ShutInv
    <2>4. member' /\ ~RefusingOf(outbox)' => TrackOf(inbox, epoch)
      BY <1>2, <1>6, <1>7 DEF TrackInv
    <2>5. StreamOf(inbox) /\ inbox' = inbox /\ epoch' = epoch
      BY <1>2, <1>7 DEF StreamInv
    <2> QED BY <1>1, <1>3, <2>1, <2>2, <2>3, <2>4, <2>5, StillHeard
  <1>8. CASE m.op = "package" /\ TakePackage(m)
    <2>1. UNCHANGED <<epoch, winner, channel, offered, inbox>>
      BY <1>8 DEF TakePackage
    <2>2. (member' = member /\ member) \/ (member' = FALSE /\ spare' = m.package)
      BY <1>8 DEF TakePackage
    <2>3. spare' = m.package => AskedOf(outbox)'
      BY <1>3, <1>8 DEF AskedOf
    <2> QED BY <1>7, <1>8, <2>1, <2>2, <2>3
  <1>9. CASE m.op = "invalid" /\ TakeInvalid(m)
    <2>1. UNCHANGED <<epoch, winner, channel, offered, inbox>> /\ member' = FALSE
      BY <1>9 DEF TakeInvalid
    <2>2. AskedOf(outbox)'
      BY <1>3, <1>4, <1>9 DEF AskedOf
    <2> QED BY <1>7, <2>1, <2>2
  <1>10. CASE /\ m.op \in {"ready", "commit"}
              /\ UNCHANGED <<epoch, winner, member, spare, channel, offered, inbox>>
    <2>1. AskedOf(outbox) => AskedOf(outbox)'
      BY <1>5, <1>10
    <2> QED BY <1>7, <1>10, <2>1
  <1>11. CASE m.op = "ready" /\ TakeReady(m)
    BY <1>10, <1>11 DEF TakeReady
  <1>12. CASE m.op = "commit" /\ TakeCommit(m) /\ ~Acceptable(m)
    <2>1. UNCHANGED <<server, inbox>>
      BY <1>12 DEF TakeCommit
    <2> QED BY <1>10, <1>12, <2>1 DEF server
  <1>13. CASE m.op = "commit" /\ TakeCommit(m) /\ Acceptable(m)
    BY <1>13, TakeCommitHeard DEF m
  <1> QED BY <1>1, <1>8, <1>9, <1>11, <1>12, <1>13

\* Nothing the client said is read, and it is told one thing that lets nobody in.
LEMMA TellHeard ==
    ASSUME Types, HeardInv, UNCHANGED <<client, outbox, epoch, winner>>,
           NEW m, Tell(m), m.op \notin {"announce", "welcome"}, member' => member,
           channel' = 0 => channel = 0 /\ offered' = NoOffer,
           UNCHANGED <<member, spare, channel>> \/ Ends(m)
    PROVE  HeardInv'
  <1> DEFINE s == Append(inbox, m)
  <1>1. /\ IsList(inbox) /\ inbox' = s /\ UNCHANGED <<groupNext, ws, tick>>
        /\ StreamInv /\ ShutInv /\ PackOf(outbox) /\ TrackInv /\ epoch \in Nat
    BY ServerNumbers DEF Tell, Types, MailOK, OKInbox, HeardInv, PackInv, client
  <1>2. StreamOf(s) /\ epoch' = epoch /\ PackOf(outbox')
    BY <1>1, StreamGrows DEF StreamInv
  <1>3. Swapped' = Swapped
    BY <1>1 DEF Swapped
  <1>4. ShutOf(inbox) \/ Ends(m) => ShutOf(s)
    BY <1>1, ShutGrows
  <1>5. TrackOf(inbox, epoch) => TrackOf(s, epoch)
    BY <1>1, TrackGrows
  <1>6. RefusingOf(outbox)' = RefusingOf(outbox) /\ (spare' = spare => AskedOf(outbox)' = AskedOf(outbox))
    BY <1>1 DEF RefusingOf, AskedOf
  <1>7. channel' = 0 => ~member' /\ offered' = NoOffer
    BY <1>1 DEF ShutInv
  <1>8. channel' = 0 \/ (~member' /\ ~AskedOf(outbox)') => ShutOf(s)
    BY <1>1, <1>4, <1>6 DEF ShutInv
  <1>9. member' /\ ~RefusingOf(outbox)' => TrackOf(s, epoch)
    BY <1>1, <1>5, <1>6 DEF TrackInv
  <1> HIDE DEF s
  <1> QED BY <1>1, <1>2, <1>3, <1>7, <1>8, <1>9, StillHeard

\* It is told two, and is no member any more.
LEMMA PairHeard ==
    ASSUME Types, HeardInv, UNCHANGED <<client, outbox, epoch, winner>>,
           NEW a, NEW b, inbox' = inbox \o <<a, b>>,
           a.op \notin {"announce", "welcome"}, b.op \notin {"announce", "welcome"},
           ~member', offered' = NoOffer, ShutOf(inbox) \/ Ends(a)
    PROVE  HeardInv'
  <1> DEFINE s == Append(inbox, a)
             t == Append(s, b)
  <1>1. /\ IsList(inbox) /\ StreamInv /\ PackOf(outbox) /\ UNCHANGED groupNext
    BY DEF Types, MailOK, OKInbox, HeardInv, PackInv, client
  <1>2. IsList(s) /\ inbox' = t
    BY <1>1, ListPair, ListAppend
  <1>3. StreamOf(s) /\ ShutOf(s)
    BY <1>1, StreamGrows, ShutGrows DEF StreamInv
  <1> HIDE DEF s
  <1>4. StreamOf(t) /\ ShutOf(t)
    BY <1>2, <1>3, StreamGrows, ShutGrows
  <1>5. Swapped' = Swapped /\ epoch' = epoch /\ PackOf(outbox')
    BY <1>1 DEF Swapped, StreamInv
  <1> HIDE DEF t
  <1> QED BY <1>2, <1>4, <1>5, StillHeard

\* It proposes, another member's commit is taken, everybody is told to go.
LEMMA OtherServerHeard ==
    ASSUME ChannelInv, AheadInv, HeardInv, Offer \/ OtherCommit \/ Execute PROVE HeardInv'
  <1>1. /\ UNCHANGED <<client, outbox, winner>> /\ Types /\ ServerOK /\ WaitInv /\ ReachInv
        /\ StreamInv /\ ShutInv /\ PackOf(outbox) /\ TrackInv /\ IsList(inbox)
    BY DEF Offer, OtherCommit, Execute, Types, MailOK, OKInbox, ChannelInv, AheadInv, HeardInv,
           PackInv
  <1>2. epoch \in Nat /\ epoch + 1 \in Nat
    BY <1>1, ServerNumbers
  <1>3. Swapped' = Swapped /\ PackOf(outbox')
    BY <1>1 DEF client, Swapped
  <1>4. ASSUME inbox' = inbox, UNCHANGED <<epoch, member, spare, channel, offered>>
        PROVE  HeardInv'
    <2>1. RefusingOf(outbox)' = RefusingOf(outbox) /\ AskedOf(outbox)' = AskedOf(outbox)
      BY <1>1, <1>4 DEF RefusingOf, AskedOf, client
    <2>2. /\ channel' = 0 => ~member' /\ offered' = NoOffer
          /\ channel' = 0 \/ (~member' /\ ~AskedOf(outbox)') => ShutOf(inbox)
          /\ member' /\ ~RefusingOf(outbox)' => TrackOf(inbox, epoch)
      BY <1>1, <1>4, <2>1 DEF ShutInv, TrackInv
    <2>3. StreamOf(inbox) /\ inbox' = inbox /\ epoch' = epoch
      BY <1>1, <1>4 DEF StreamInv
    <2> QED BY <1>1, <1>2, <1>3, <2>2, <2>3, StillHeard
  <1>5. CASE Offer
    <2> DEFINE m == [op |-> "proposals", base |-> epoch]
    <2>1. UNCHANGED <<epoch, member, spare, channel>> /\ Tell(m) /\ channel = 1
      BY <1>5 DEF Offer
    <2>2. m.op = "proposals"
      OBVIOUS
    <2> HIDE DEF m, Tell
    <2>3. channel' = 0 => channel = 0 /\ offered' = NoOffer
      BY <2>1
    <2> QED BY <1>1, <2>1, <2>2, <2>3, TellHeard
  <1>6. CASE OtherCommit /\ offered > 0
    <2> DEFINE w == [op |-> "welcome", id |-> nextId, epoch |-> epoch + 1, package |-> offered]
    <2>1. offered # NoOffer /\ member' = TRUE /\ Tell(w) /\ epoch' = epoch + 1 /\ channel' = channel
      BY <1>6 DEF OtherCommit, Moves
    <2>2. w.op = "welcome" /\ w.epoch = epoch + 1
      OBVIOUS
    <2> HIDE DEF w
    <2>3. inbox' = Append(inbox, w)
      BY <2>1 DEF Tell
    <2>4. StreamOf(Append(inbox, w))
      BY <1>1, <2>2, StreamGrows DEF StreamInv
    <2>5. TrackOf(Append(inbox, w), epoch + 1)
      BY <1>1, <1>2, <2>2, TrackLetIn
    <2>6. channel' # 0
      BY <1>1, <2>1 DEF ShutInv
    <2> QED BY <1>1, <1>2, <1>3, <2>1, <2>3, <2>4, <2>5, <2>6, StillHeard
  <1>7. CASE OtherCommit /\ ~(offered > 0)
    <2> DEFINE a == [op |-> "announce", id |-> nextId, base |-> epoch, mine |-> FALSE,
                     number |-> 0]
    <2>1. /\ offered # NoOffer /\ UNCHANGED <<member, spare, channel>> /\ epoch' = epoch + 1
          /\ offered' = NoOffer /\ IF member THEN Tell(a) ELSE UNCHANGED inbox
      BY <1>7 DEF OtherCommit, Moves
    <2>2. a.op = "announce" /\ a.id = nextId /\ a.base = epoch
      OBVIOUS
    <2> HIDE DEF a
    <2>3. move = NoMove /\ nextId # 0 /\ channel' # 0
      BY <1>1, <2>1 DEF ServerOK, ShutInv
    <2>4. RefusingOf(outbox)' = RefusingOf(outbox) /\ AskedOf(outbox)' = AskedOf(outbox)
      BY <1>1, <2>1 DEF RefusingOf, AskedOf, client
    <2>5. CASE member
      <3>1. inbox' = Append(inbox, a)
        BY <2>1, <2>5 DEF Tell
      <3>2. /\ StreamOf(Append(inbox, a))
            /\ TrackOf(inbox, epoch) => TrackOf(Append(inbox, a), epoch + 1)
        BY <1>1, <2>2, <2>3, Announced
      <3>3. member' /\ (~RefusingOf(outbox)' => TrackOf(Append(inbox, a), epoch + 1))
        BY <1>1, <2>1, <2>4, <2>5, <3>2 DEF TrackInv
      <3> QED BY <1>1, <1>2, <1>3, <2>1, <2>3, <3>1, <3>2, <3>3, StillHeard
    <2>6. CASE ~member
      <3>1. inbox' = inbox /\ ~member'
        BY <2>1, <2>6
      <3>2. StreamOf(inbox) /\ (~AskedOf(outbox)' => ShutOf(inbox))
        BY <1>1, <2>4, <2>6 DEF StreamInv, ShutInv
      <3> QED BY <1>1, <1>2, <1>3, <2>1, <2>3, <3>1, <3>2, StillHeard
    <2> QED BY <2>5, <2>6
  <1>8. CASE Execute
    <2> DEFINE m == [op |-> "execute", id |-> move.id]
    <2>1. UNCHANGED <<epoch, member, spare, channel, offered>> /\ (Tell(m) \/ inbox' = inbox)
      BY <1>8 DEF Execute
    <2>2. m.op = "execute"
      OBVIOUS
    <2> HIDE DEF m, Tell
    <2>3. CASE Tell(m)
      <3>1. channel' = 0 => channel = 0 /\ offered' = NoOffer
        BY <1>1, <2>1 DEF ShutInv
      <3> QED BY <1>1, <2>1, <2>2, <2>3, <3>1, TellHeard
    <2> QED BY <1>4, <2>1, <2>3
  <1> QED BY <1>5, <1>6, <1>7, <1>8

\* What may happen to a call within a session.
LEMMA UpsetsHeard ==
    ASSUME Types, HeardInv, Downgrade \/ StartOver \/ Revoke \/ Repeat PROVE HeardInv'
  <1>1. UNCHANGED <<client, outbox, winner, epoch>> /\ ShutInv
    BY DEF Downgrade, StartOver, Revoke, Repeat, Upset, HeardInv
  <1>2. CASE Downgrade
    <2> DEFINE a == [op |-> "prepare", id |-> nextId, version |-> 0]
               b == [op |-> "execute", id |-> nextId]
    <2>1. member' = FALSE /\ offered' = NoOffer /\ inbox' = inbox \o <<a, b>>
      BY <1>2 DEF Downgrade
    <2>2. a.op = "prepare" /\ a.version = 0 /\ b.op = "execute"
      OBVIOUS
    <2> HIDE DEF a, b
    <2>3. Ends(a)
      BY <2>2 DEF Ends, Falls
    <2> QED BY <1>1, <2>1, <2>2, <2>3, PairHeard
  <1>3. CASE StartOver
    <2> DEFINE a == [op |-> "prepare", id |-> nextId, version |-> 1]
               b == [op |-> "execute", id |-> nextId]
               m == [op |-> "epoch"]
    <2>1. /\ member' = FALSE /\ channel' = 1 /\ offered' = NoOffer
          /\ (channel = 0 /\ inbox' = inbox \o <<a, b>>) \/ Tell(m)
      BY <1>3 DEF StartOver
    <2>2. a.op = "prepare" /\ b.op = "execute" /\ m.op = "epoch"
      OBVIOUS
    <2> HIDE DEF a, b, m, Tell
    <2>3. CASE channel = 0 /\ inbox' = inbox \o <<a, b>>
      <3>1. ShutOf(inbox)
        BY <1>1, <2>3 DEF ShutInv
      <3> QED BY <1>1, <2>1, <2>2, <2>3, <3>1, PairHeard
    <2>4. CASE Tell(m)
      <3>1. Ends(m)
        BY <2>2 DEF Ends
      <3> QED BY <1>1, <2>1, <2>2, <2>4, <3>1, TellHeard
    <2> QED BY <2>1, <2>3, <2>4
  <1>4. ASSUME NEW m, Tell(m), m.op \in {"revoke", "execute"}, UNCHANGED <<member, spare, channel>>,
               offered' = NoOffer \/ offered' = offered
        PROVE  HeardInv'
    <2>1. channel' = 0 => channel = 0 /\ offered' = NoOffer
      BY <1>1, <1>4 DEF ShutInv
    <2> HIDE DEF Tell
    <2> QED BY <1>1, <1>4, <2>1, TellHeard
  <1>5. CASE Revoke
    <2> DEFINE m == [op |-> "revoke"]
    <2>1. Tell(m) /\ UNCHANGED <<member, spare, channel>> /\ offered' = NoOffer
      BY <1>5 DEF Revoke
    <2>2. m.op = "revoke"
      OBVIOUS
    <2> HIDE DEF m
    <2> QED BY <1>4, <2>1, <2>2
  <1>6. CASE Repeat
    <2> DEFINE m == [op |-> "execute", id |-> nextId - 1]
    <2>1. Tell(m) /\ UNCHANGED <<member, spare, channel, offered>>
      BY <1>6 DEF Repeat
    <2>2. m.op = "execute"
      OBVIOUS
    <2> HIDE DEF m
    <2> QED BY <1>4, <2>1, <2>2
  <1> QED BY <1>2, <1>3, <1>5, <1>6

\* It holds when the first session starts,
LEMMA HeardInit ==
    ASSUME Init PROVE HeardInv
  <1>1. /\ mediaReady = FALSE /\ inbox = Hello(1) /\ outbox = <<>>
        /\ pendingId = 0 /\ member = FALSE /\ offered = NoOffer
    BY DEF Init
  <1>2. \A i \in 1 .. Len(inbox) : inbox[i].op \notin {"announce", "welcome"}
    BY <1>1, HelloIs
  <1>3. Said(outbox) = {} /\ Len(outbox) = 0 /\ ~Wrapping /\ ~Awaits
    BY <1>1, ListEmpty DEF Said, Wrapping, Awaits
  <1>4. StreamInv
    BY <1>1, <1>2, <1>3 DEF StreamInv, StreamOf
  <1>5. PackInv
    BY <1>3 DEF PackInv, PackOf
  <1>6. ShutInv
    BY <1>1, <1>2, <1>3 DEF ShutInv, ShutOf
  <1>7. TrackInv
    BY <1>1 DEF TrackInv
  <1> QED BY <1>4, <1>5, <1>6, <1>7 DEF HeardInv

\* when one is made anew,
LEMMA RehandshakeHeard ==
    ASSUME Rehandshake PROVE HeardInv'
  <1>1. /\ epoch' = epoch /\ mediaReady' = FALSE /\ inbox' = Hello(channel) /\ outbox' = <<>>
        /\ pendingId' = 0 /\ member' = FALSE /\ offered' = NoOffer
    BY DEF Rehandshake
  <1>2. \A i \in 1 .. Len(inbox') : inbox'[i].op \notin {"announce", "welcome"}
    BY <1>1, HelloIs
  <1>3. Said(outbox') = {} /\ Len(outbox') = 0 /\ ~Wrapping' /\ ~Awaits'
    BY <1>1, ListEmpty DEF Said, Wrapping, Awaits
  <1>4. StreamInv'
    BY <1>1, <1>2, <1>3 DEF StreamInv, StreamOf
  <1>5. PackInv'
    BY <1>3 DEF PackInv, PackOf
  <1>6. ShutInv'
    BY <1>1, <1>2, <1>3 DEF ShutInv, ShutOf
  <1>7. TrackInv'
    BY <1>1 DEF TrackInv
  <1> QED BY <1>4, <1>5, <1>6, <1>7 DEF HeardInv

\* and every step keeps it, but one that turns it down or crosses.
LEMMA HeardStep ==
    ASSUME ChannelInv, AheadInv, HeardInv, ~crossed, [Next]_vars, ~AtOnce(inbox') PROVE HeardInv'
  <1>0. Types /\ AloneInv /\ InGroupInv
    BY DEF ChannelInv
  <1>1. CASE Handle
    BY <1>1, HandleHeard
  <1>2. CASE ResetRatchets \/ Welcomed \/ ForgetFirst \/ Rebuild \/ TickThread
    BY <1>0, <1>2, QuietHeard DEF TickThread
  <1>3. CASE Take
    BY <1>3, TakeHeard
  <1>4. CASE Offer \/ OtherCommit \/ Execute
    BY <1>4, OtherServerHeard
  <1>5. CASE Downgrade \/ StartOver \/ Revoke \/ Repeat
    BY <1>0, <1>5, UpsetsHeard
  <1>6. CASE Rehandshake
    BY <1>6, RehandshakeHeard
  <1>7. CASE UNCHANGED vars
    <2>1. UNCHANGED <<client, server, inbox, outbox>>
      BY <1>7 DEF vars
    <2>2. /\ UNCHANGED <<epoch, winner, member, spare, channel, offered>>
          /\ UNCHANGED <<groupNext, ws, tick>>
      BY <2>1 DEF server, client
    <2>3. Swapped' = Swapped /\ RefusingOf(outbox)' = RefusingOf(outbox)
          /\ AskedOf(outbox)' = AskedOf(outbox)
      BY <2>1, <2>2 DEF Swapped, RefusingOf, AskedOf
    <2>4. /\ StreamOf(inbox) /\ PackOf(outbox')
          /\ channel' = 0 => ~member' /\ offered' = NoOffer
          /\ channel' = 0 \/ (~member' /\ ~AskedOf(outbox)') => ShutOf(inbox)
          /\ member' /\ ~RefusingOf(outbox)' => TrackOf(inbox, epoch)
      BY <2>1, <2>2, <2>3 DEF HeardInv, StreamInv, PackInv, ShutInv, TrackInv
    <2>5. UNCHANGED client /\ inbox' = inbox /\ epoch' = epoch
      BY <2>1, <2>2
    <2> QED BY <2>3, <2>4, <2>5, StillHeard
  <1> QED BY <1>1, <1>2, <1>3, <1>4, <1>5, <1>6, <1>7 DEF Next, WsThread, Server, Upsets

\* What is to take effect at once is read, and not applied, unless the session ends before.
LEMMA AtOnceStays ==
    ASSUME Types, AtOnce(inbox), [Next]_vars, ~Rehandshake PROVE AtOnce(inbox') \/ turnedDown'
  <1>1. IsList(inbox) /\ \A i \in 1 .. Len(inbox) : InOK(inbox[i])
    BY DEF Types, MailOK, OKInbox
  <1>2. ASSUME Said(inbox) \subseteq Said(inbox') PROVE AtOnce(inbox')
    BY <1>2 DEF AtOnce
  <1>3. CASE Handle
    <2> DEFINE m == Head(inbox)
    <2>1. /\ inbox # <<>> /\ inbox' = Tail(inbox)
          /\ turnedDown' = (turnedDown \/ LeavesOut(m))
      BY <1>3 DEF Handle
    <2>2. Said(inbox) = {m} \union Said(inbox') /\ InOK(m)
      BY <1>1, <2>1, RestTail, ListTail, RestIsSaid, InboxTail DEF Types, MailOK
    <2> HIDE DEF m
    <2>3. CASE m.op = "announce" /\ m.id = 0
      BY <2>1, <2>2, <2>3 DEF InOK, LeavesOut, Processes
    <2>4. CASE ~(m.op = "announce" /\ m.id = 0)
      BY <2>2, <2>4 DEF AtOnce
    <2> QED BY <2>3, <2>4
  <1>4. CASE inbox' = inbox
    BY <1>2, <1>4
  <1>5. CASE \E m : Tell(m)
    BY <1>1, <1>2, <1>5, SaidMore DEF Tell
  <1>6. CASE \E a, b : inbox' = inbox \o <<a, b>>
    <2>1. PICK a, b : inbox' = inbox \o <<a, b>>
      BY <1>6
    <2>2. inbox' = Append(Append(inbox, a), b) /\ IsList(Append(inbox, a))
      BY <1>1, <2>1, ListPair, ListAppend
    <2> QED BY <1>1, <1>2, <2>2, SaidMore
  <1>7. CASE ResetRatchets \/ Welcomed \/ ForgetFirst \/ Rebuild \/ TickThread
    BY <1>4, <1>7 DEF ResetRatchets, Welcomed, ForgetFirst, Rebuild, TickThread, CheckMedia,
                      UseRatchet, Watchdog, WatchdogRebuild, FiveSeconds
  <1>8. CASE Take
    BY <1>4, <1>5, <1>8 DEF Take, TakePackage, TakeInvalid, TakeReady, TakeCommit
  <1>9. CASE Offer \/ OtherCommit \/ Execute
    BY <1>4, <1>5, <1>9 DEF Offer, OtherCommit, Execute
  <1>10. CASE Downgrade \/ StartOver \/ Revoke \/ Repeat
    BY <1>5, <1>6, <1>10 DEF Downgrade, StartOver, Revoke, Repeat
  <1>11. CASE UNCHANGED vars
    BY <1>4, <1>11 DEF vars
  <1> QED BY <1>3, <1>7, <1>8, <1>9, <1>10, <1>11 DEF Next, WsThread, Server, Upsets

\* When nobody owes anybody an answer, all of it was gone through with.
LEMMA QuietIsHeard ==
    ASSUME ChannelInv, AheadInv, HeardInv, Quiet, Sealing PROVE member /\ group = epoch
  <1>1. /\ Wrapping /\ inbox = <<>> /\ outbox = <<>> /\ move = NoMove /\ ~Admits
        /\ ws = "idle" /\ tick # "rebuild"
    BY DEF Quiet, Sealing, Midway, Wrapping
  <1>2. /\ Types /\ WaitInv /\ VersionInv /\ ReachInv /\ ShutInv /\ TrackInv
        /\ group \in Int /\ epoch \in Nat
    BY ServerNumbers DEF ChannelInv, AheadInv, HeardInv
  <1>3. Len(inbox) = 0 /\ Said(outbox) = {} /\ Rest(inbox, 0) = {}
    BY <1>1, ListEmpty DEF Said, Rest
  <1>4. ~LapsesOf(inbox) /\ ~LetsIn(inbox, 0)
    BY <1>1, <1>2, <1>3 DEF LapsesOf, EndsAfter, LetsIn, VersionInv
  <1>5. ~ShutOf(inbox)
    BY <1>1, <1>4 DEF ShutOf
  <1>6. member
    BY <1>1, <1>2, <1>3, <1>5 DEF ShutInv, AskedOf, Admits
  <1>7. ~Awaits
    <2>1. ~Underway(move, pendingId) /\ ~Goes(pendingId, inbox, 0)
      BY <1>1, <1>3 DEF Underway, Goes
    <2> QED BY <1>2, <2>1 DEF WaitInv, WaitOf
  <1>8. PathOf(inbox, 0, group, epoch)
    BY <1>1, <1>2, <1>3, <1>4, <1>6, <1>7 DEF TrackInv, TrackOf, RefusingOf, Reached
  <1>9. ~(group < epoch)
    <2> SUFFICES ASSUME group < epoch PROVE FALSE
      OBVIOUS
    <2>1. epoch \in (group + 1) .. epoch
      BY <1>2
    <2> QED BY <1>3, <1>8, <2>1 DEF PathOf
  <1> QED BY <1>2, <1>6, <1>9 DEF ReachInv

\* BelievedMeansHeard: once nothing is under way and nobody owes anybody an answer, a client
\* that wraps its frames is a member, and wraps them for the epoch the channel is at, whoever
\* was there first, as long as no commit that was to take effect at once was left out and no
\* welcome crossed with the watchdog. What voice.cpp refuses it follows with a new
\* introduction, but for such a commit, and what it answered "ready" to it goes through with;
\* so every epoch between the one it is at and the channel's is one it has still to read of,
\* or one somebody is about to let it in to.
THEOREM Heard == Spec => []BelievedMeansHeard
  <1>1. Init => ChannelInv /\ AheadInv /\ HeardSoFar
    BY ChannelInit, AheadInit, HeardInit DEF HeardSoFar
  <1>2. ChannelInv /\ AheadInv /\ HeardSoFar /\ [Next]_vars => ChannelInv' /\ AheadInv' /\ HeardSoFar'
    <2> SUFFICES ASSUME ChannelInv, AheadInv, HeardSoFar, [Next]_vars
                 PROVE  HeardSoFar'
      BY ChannelStep, AheadStep
    <2>1. CASE Rehandshake
      BY <2>1, RehandshakeHeard DEF HeardSoFar
    <2>2. CASE crossed \/ turnedDown
      BY <2>2, Remembers DEF HeardSoFar
    <2>3. CASE AtOnce(inbox) /\ ~Rehandshake
      BY <2>3, AtOnceStays DEF HeardSoFar, ChannelInv
    <2>4. CASE HeardInv /\ ~crossed /\ ~AtOnce(inbox')
      BY <2>4, HeardStep DEF HeardSoFar
    <2> QED BY <2>1, <2>2, <2>3, <2>4 DEF HeardSoFar
  <1>3. ChannelInv /\ AheadInv /\ HeardSoFar => BelievedMeansHeard
    <2> SUFFICES ASSUME ChannelInv, AheadInv, HeardSoFar, Quiet, Sealing, ~crossed, ~turnedDown
                 PROVE  member /\ group = epoch
      BY DEF BelievedMeansHeard
    <2>1. ~AtOnce(inbox)
      BY ListEmpty DEF Quiet, AtOnce, Said
    <2> QED BY <2>1, QuietIsHeard DEF HeardSoFar
  <1> QED BY <1>1, <1>2, <1>3, PTL DEF Spec
=============================================================================
