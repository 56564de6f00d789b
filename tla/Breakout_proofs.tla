-------------------------- MODULE Breakout_proofs --------------------------
(***************************************************************************)
(* Proofs about received Commands, for every number of slots, all sizes of *)
(* Commands and buffers, memory that runs out, and handlers that come and  *)
(* go; and about the polling timer, for all intervals, limits and losses,  *)
(* while times and intervals stay below the width of the clock.            *)
(***************************************************************************)
EXTENDS CommandQueue, Polling, SequenceTheorems, TLAPS

-----------------------------------------------------------------------------
(* Received Commands.                                                      *)

\* Of a list of pending Commands: it is in the order of receipt, after what was
\* popped, and each has at least as many accepted after it as there are behind it.
Follows(list) ==
    /\ \A i, j \in DOMAIN list : i < j => Before(accepted, list[i], list[j])
    /\ \A i \in DOMAIN received, j \in DOMAIN list : Before(accepted, received[i], list[j])
    /\ \A i \in DOMAIN list : \E p \in DOMAIN accepted :
         accepted[p] = list[i] /\ Len(accepted) - p >= Len(list) - i

\* What was popped is in the order of receipt, and what was accepted was popped, is
\* pending, or was evicted.
Ordered ==
    /\ Follows(commands)
    /\ \A i, j \in DOMAIN received : i < j => Before(accepted, received[i], received[j])
    /\ ToSet(received) \cup ToSet(commands) = ToSet(accepted) \ evicted

\* The peer's memory and the application's: an exchange that is new brought nothing,
\* one that was acknowledged brought its Command.
Remembered ==
    /\ \A c \in Commands : exchange[c] = "new" => handed[c] = 0 /\ c \notin ToSet(accepted)
    /\ \A c \in Commands : exchange[c] = "ACK" => handed[c] > 0 \/ c \in ToSet(accepted)
    /\ \A c \in acked : exchange[c] = "ACK"

QueueInv ==
    /\ QueueTypeOK
    /\ SpaceLeftRight
    /\ OncePerCommand
    /\ OnlyOldestDropped
    /\ Ordered
    /\ Remembered

\* What comes before another is another: the accepted Commands are all different.
LEMMA BeforeIsOther ==
  ASSUME QueueTypeOK, OncePerCommand, NEW c, NEW d, Before(accepted, c, d)
  PROVE  c # d /\ c \in ToSet(accepted) /\ d \in ToSet(accepted)
<1>1. PICK i, j \in DOMAIN accepted : i < j /\ accepted[i] = c /\ accepted[j] = d
  BY DEF Before
<1>2. i \in Nat /\ j \in Nat /\ i # j
  BY <1>1, LenProperties DEF QueueTypeOK
<1>3. c # d
  BY <1>1, <1>2 DEF OncePerCommand, IsInjective
<1> QED BY <1>1, <1>3 DEF ToSet

\* The elements of a list and of its tail.
LEMMA TailSet ==
  ASSUME NEW S, NEW s \in Seq(S), s # <<>>
  PROVE  /\ DOMAIN s = 1 .. Len(s) /\ Len(s) \in Nat \ {0}
         /\ Tail(s) \in Seq(S) /\ Len(Tail(s)) = Len(s) - 1
         /\ DOMAIN Tail(s) = 1 .. Len(s) - 1
         /\ \A i \in 1 .. Len(s) - 1 : Tail(s)[i] = s[i + 1]
         /\ Head(s) = s[1]
         /\ ToSet(s) = {s[1]} \cup ToSet(Tail(s))
<1>1. /\ DOMAIN s = 1 .. Len(s) /\ Len(s) \in Nat \ {0}
      /\ Tail(s) \in Seq(S) /\ Len(Tail(s)) = Len(s) - 1
      /\ DOMAIN Tail(s) = 1 .. Len(s) - 1
      /\ \A i \in 1 .. Len(s) - 1 : Tail(s)[i] = s[i + 1]
      /\ Head(s) = s[1]
  BY HeadTailProperties, EmptySeq, LenProperties
<1>2. ToSet(Tail(s)) \subseteq ToSet(s)
  BY <1>1 DEF ToSet
<1>3. ASSUME NEW i \in 1 .. Len(s), i # 1
      PROVE  s[i] \in ToSet(Tail(s))
  <2>1. i - 1 \in 1 .. Len(s) - 1 /\ Tail(s)[i - 1] = s[i]
    BY <1>1, <1>3
  <2> QED BY <2>1, <1>1 DEF ToSet
<1> QED BY <1>1, <1>2, <1>3 DEF ToSet

\* The elements of a list and of one longer by one.
LEMMA AppendSet ==
  ASSUME NEW S, NEW s \in Seq(S), NEW e \in S
  PROVE  /\ DOMAIN s = 1 .. Len(s) /\ Len(s) \in Nat
         /\ Append(s, e) \in Seq(S) /\ Len(Append(s, e)) = Len(s) + 1
         /\ DOMAIN Append(s, e) = 1 .. Len(s) + 1
         /\ \A i \in 1 .. Len(s) : Append(s, e)[i] = s[i]
         /\ Append(s, e)[Len(s) + 1] = e
         /\ ToSet(Append(s, e)) = ToSet(s) \cup {e}
<1>1. /\ DOMAIN s = 1 .. Len(s) /\ Len(s) \in Nat
      /\ Append(s, e) \in Seq(S) /\ Len(Append(s, e)) = Len(s) + 1
      /\ DOMAIN Append(s, e) = 1 .. Len(s) + 1
      /\ \A i \in 1 .. Len(s) : Append(s, e)[i] = s[i]
      /\ Append(s, e)[Len(s) + 1] = e
  BY AppendProperties, LenProperties
<1>2. ToSet(s) \cup {e} \subseteq ToSet(Append(s, e))
  BY <1>1 DEF ToSet
<1>3. ToSet(Append(s, e)) \subseteq ToSet(s) \cup {e}
  BY <1>1 DEF ToSet
<1> QED BY <1>1, <1>2, <1>3

\* Room is made in a full list by its oldest Command, which was not popped, and all
\* others of which are newer.
LEMMA RoomDropsOldest ==
  ASSUME QueueInv
  PROVE  /\ Room \in Seq(Commands) /\ Len(Room) < MAX_PENDING_COMMANDS
         /\ space_left + Len(commands) - Len(Room) = MAX_PENDING_COMMANDS - Len(Room)
         /\ Follows(Room)
         /\ ToSet(Room) \subseteq ToSet(commands)
         /\ \A c \in ToSet(commands) \ ToSet(Room) :
              /\ c \notin ToSet(received)
              /\ \E i \in DOMAIN accepted :
                   accepted[i] = c /\ Len(accepted) - i >= MAX_PENDING_COMMANDS - 1
<1> USE DEF QueueInv
<1>1. CASE space_left > 0
  <2>1. Room = commands
    BY <1>1 DEF Room, QueueTypeOK
  <2> QED BY <1>1, <2>1, LenProperties, QueueConstants DEF QueueTypeOK, SpaceLeftRight, Ordered
<1>2. CASE ~(space_left > 0)
  <2>1. space_left = 0 /\ Len(commands) = MAX_PENDING_COMMANDS /\ commands \in Seq(Commands)
    BY <1>2, LenProperties, QueueConstants DEF QueueTypeOK, SpaceLeftRight
  <2>2. Room = Tail(commands) /\ commands # <<>>
    BY <2>1, EmptySeq, QueueConstants DEF Room
  <2>3. /\ DOMAIN commands = 1 .. Len(commands) /\ Len(commands) \in Nat \ {0}
        /\ Room \in Seq(Commands) /\ Len(Room) = Len(commands) - 1
        /\ DOMAIN Room = 1 .. Len(commands) - 1
        /\ \A i \in 1 .. Len(commands) - 1 : Room[i] = commands[i + 1]
        /\ ToSet(commands) = {commands[1]} \cup ToSet(Room)
    BY <2>1, <2>2, TailSet
  <2>4. Follows(Room)
    <3>1. ASSUME NEW i \in DOMAIN Room, NEW j \in DOMAIN Room, i < j
          PROVE  Before(accepted, Room[i], Room[j])
      <4>1. /\ i + 1 \in DOMAIN commands /\ j + 1 \in DOMAIN commands /\ i + 1 < j + 1
            /\ Room[i] = commands[i + 1] /\ Room[j] = commands[j + 1]
        BY <2>3, <3>1
      <4>2. Before(accepted, commands[i + 1], commands[j + 1])
        BY <4>1 DEF Ordered, Follows
      <4> QED BY <4>1, <4>2
    <3>2. ASSUME NEW i \in DOMAIN received, NEW j \in DOMAIN Room
          PROVE  Before(accepted, received[i], Room[j])
      <4>1. j + 1 \in DOMAIN commands /\ Room[j] = commands[j + 1]
        BY <2>3
      <4>2. Before(accepted, received[i], commands[j + 1])
        BY <4>1 DEF Ordered, Follows
      <4> QED BY <4>1, <4>2
    <3>3. ASSUME NEW i \in DOMAIN Room
          PROVE  \E p \in DOMAIN accepted :
                   accepted[p] = Room[i] /\ Len(accepted) - p >= Len(Room) - i
      <4>1. i \in Int /\ i + 1 \in DOMAIN commands /\ Room[i] = commands[i + 1]
        BY <2>3
      <4>2. PICK p \in DOMAIN accepted :
              accepted[p] = commands[i + 1] /\ Len(accepted) - p >= Len(commands) - (i + 1)
        BY <4>1 DEF Ordered, Follows
      <4>3. Len(commands) - (i + 1) = Len(Room) - i
        BY <4>1, <2>3
      <4> QED BY <4>1, <4>2, <4>3
    <3> QED BY <3>1, <3>2, <3>3 DEF Follows
  <2>5. ASSUME NEW c \in ToSet(commands) \ ToSet(Room)
        PROVE  /\ c \notin ToSet(received)
               /\ \E i \in DOMAIN accepted :
                    accepted[i] = c /\ Len(accepted) - i >= MAX_PENDING_COMMANDS - 1
    <3>1. c = commands[1] /\ 1 \in DOMAIN commands
      BY <2>3
    <3>2. \A i \in DOMAIN received : received[i] # c
      BY <3>1, BeforeIsOther DEF Ordered, Follows
    <3>3. \E p \in DOMAIN accepted :
            accepted[p] = c /\ Len(accepted) - p >= MAX_PENDING_COMMANDS - 1
      BY <3>1, <2>1 DEF Ordered, Follows
    <3> QED BY <3>2, <3>3 DEF ToSet
  <2> QED BY <2>1, <2>3, <2>4, <2>5
<1> QED BY <1>1, <1>2

\* What is in force when one more Command is accepted: the order of those before it,
\* and their places as counted from the end, which are further away.
LEMMA AcceptedGrows ==
  ASSUME QueueTypeOK, NEW c \in Commands, accepted' = Append(accepted, c)
  PROVE  /\ \A x, y : Before(accepted, x, y) => Before(accepted', x, y)
         /\ \A x \in ToSet(accepted) : Before(accepted', x, c)
         /\ \A i \in DOMAIN accepted : i \in DOMAIN accepted' /\ accepted'[i] = accepted[i]
         /\ Len(accepted') = Len(accepted) + 1 /\ Len(accepted) \in Nat
         /\ DOMAIN accepted = 1 .. Len(accepted) /\ DOMAIN accepted' = 1 .. Len(accepted) + 1
         /\ accepted'[Len(accepted) + 1] = c
         /\ ToSet(accepted)' = ToSet(accepted) \cup {c}
         /\ accepted' \in Seq(Commands)
<1>1. /\ DOMAIN accepted = 1 .. Len(accepted) /\ Len(accepted) \in Nat
      /\ accepted' \in Seq(Commands) /\ Len(accepted') = Len(accepted) + 1
      /\ DOMAIN accepted' = 1 .. Len(accepted) + 1
      /\ \A i \in 1 .. Len(accepted) : accepted'[i] = accepted[i]
      /\ accepted'[Len(accepted) + 1] = c
      /\ ToSet(accepted') = ToSet(accepted) \cup {c}
  BY AppendSet DEF QueueTypeOK
<1>2. ASSUME NEW x, NEW y, Before(accepted, x, y)
      PROVE  Before(accepted', x, y)
  <2>1. PICK i, j \in DOMAIN accepted : i < j /\ accepted[i] = x /\ accepted[j] = y
    BY <1>2 DEF Before
  <2>2. i \in DOMAIN accepted' /\ j \in DOMAIN accepted' /\ accepted'[i] = x /\ accepted'[j] = y
    BY <2>1, <1>1
  <2> QED BY <2>1, <2>2 DEF Before
<1>3. ASSUME NEW x \in ToSet(accepted)
      PROVE  Before(accepted', x, c)
  <2>1. PICK i \in DOMAIN accepted : accepted[i] = x
    BY DEF ToSet
  <2>2. /\ i \in DOMAIN accepted' /\ Len(accepted) + 1 \in DOMAIN accepted'
        /\ i < Len(accepted) + 1 /\ accepted'[i] = x /\ accepted'[Len(accepted) + 1] = c
    BY <2>1, <1>1
  <2> QED BY <2>2 DEF Before
<1>4. ToSet(accepted)' = ToSet(accepted')
  BY DEF ToSet
<1> QED BY <1>1, <1>2, <1>3, <1>4

\* The parts of the invariant that the exchanges have no part in.
KeepsCommands ==
    /\ QueueTypeOK
    /\ SpaceLeftRight
    /\ OncePerCommand
    /\ OnlyOldestDropped
    /\ Ordered

\* A new Command goes to the end of what there is room for.
LEMMA QueueKeeps ==
  ASSUME QueueInv, NEW c \in Commands, exchange[c] = "new", Queue(c), received' = received,
         exchange' \in [Commands -> Exchange], acked' \subseteq Commands,
         command_handler' \in BOOLEAN
  PROVE  KeepsCommands'
<1>1. /\ commands' = Append(Room, c)
      /\ space_left' = (space_left + Len(commands) - Len(Room)) - 1
      /\ evicted' = evicted \cup (ToSet(commands) \ ToSet(Room))
      /\ accepted' = Append(accepted, c)
      /\ handed' = handed
  BY DEF Queue, Evict
<1>2. handed[c] = 0 /\ c \notin ToSet(accepted)
  BY DEF QueueInv, Remembered
<1>3. /\ \A x, y : Before(accepted, x, y) => Before(accepted', x, y)
      /\ \A x \in ToSet(accepted) : Before(accepted', x, c)
      /\ \A i \in DOMAIN accepted : i \in DOMAIN accepted' /\ accepted'[i] = accepted[i]
      /\ Len(accepted') = Len(accepted) + 1 /\ Len(accepted) \in Nat
      /\ DOMAIN accepted = 1 .. Len(accepted) /\ DOMAIN accepted' = 1 .. Len(accepted) + 1
      /\ accepted'[Len(accepted) + 1] = c
      /\ ToSet(accepted)' = ToSet(accepted) \cup {c}
      /\ accepted' \in Seq(Commands)
  BY <1>1, AcceptedGrows DEF QueueInv
<1>4. /\ Room \in Seq(Commands) /\ Len(Room) < MAX_PENDING_COMMANDS
      /\ space_left + Len(commands) - Len(Room) = MAX_PENDING_COMMANDS - Len(Room)
      /\ Follows(Room)
      /\ ToSet(Room) \subseteq ToSet(commands)
      /\ \A x \in ToSet(commands) \ ToSet(Room) :
           /\ x \notin ToSet(received)
           /\ \E i \in DOMAIN accepted :
                accepted[i] = x /\ Len(accepted) - i >= MAX_PENDING_COMMANDS - 1
  BY RoomDropsOldest
<1>5. /\ DOMAIN Room = 1 .. Len(Room) /\ Len(Room) \in Nat
      /\ commands' \in Seq(Commands) /\ Len(commands') = Len(Room) + 1
      /\ DOMAIN commands' = 1 .. Len(Room) + 1
      /\ \A i \in 1 .. Len(Room) : commands'[i] = Room[i]
      /\ commands'[Len(Room) + 1] = c
      /\ ToSet(commands') = ToSet(Room) \cup {c}
  BY <1>1, <1>4, AppendSet
<1>6. ToSet(commands) \subseteq Commands /\ ToSet(received)' = ToSet(received)
  BY LenProperties DEF QueueInv, QueueTypeOK, ToSet
<1>7. space_left' = MAX_PENDING_COMMANDS - Len(commands') /\ space_left' \in 0 .. MAX_PENDING_COMMANDS
  BY <1>1, <1>4, <1>5, QueueConstants
<1>8. QueueTypeOK'
  <2>1. evicted' \subseteq Commands
    BY <1>1, <1>6 DEF QueueInv, QueueTypeOK
  <2>2. commands' \in Seq(Commands) /\ Len(commands') <= MAX_PENDING_COMMANDS
    BY <1>4, <1>5, QueueConstants
  <2> QED BY <2>1, <2>2, <1>1, <1>3, <1>7 DEF QueueInv, QueueTypeOK
<1>9. SpaceLeftRight'
  BY <1>5, <1>7, QueueConstants DEF SpaceLeftRight
<1>10. OncePerCommand'
  <2>1. \A i \in 1 .. Len(accepted) : accepted[i] # c
    BY <1>2, <1>3 DEF ToSet
  <2>2. IsInjective(accepted')
    BY <2>1, <1>3 DEF QueueInv, OncePerCommand, IsInjective
  <2>3. \A d \in Commands : handed'[d] <= 1 /\ (handed'[d] = 1 => d \notin ToSet(accepted)')
    BY <1>1, <1>2, <1>3 DEF QueueInv, OncePerCommand
  <2> QED BY <2>2, <2>3 DEF OncePerCommand
<1>11. OnlyOldestDropped'
  <2>1. ASSUME NEW x \in evicted'
        PROVE  \E i \in DOMAIN accepted' :
                 accepted'[i] = x /\ Len(accepted') - i >= MAX_PENDING_COMMANDS - 1
    <3>1. PICK i \in DOMAIN accepted :
            accepted[i] = x /\ Len(accepted) - i >= MAX_PENDING_COMMANDS - 1
      BY <1>1, <1>4 DEF QueueInv, OnlyOldestDropped
    <3>2. Len(accepted') - i >= MAX_PENDING_COMMANDS - 1
      BY <3>1, <1>3, QueueConstants
    <3> QED BY <3>1, <3>2, <1>3
  <2> QED BY <2>1 DEF OnlyOldestDropped
<1>12. Follows(commands)'
  <2>1. ASSUME NEW i \in DOMAIN commands', NEW j \in DOMAIN commands', i < j
        PROVE  Before(accepted', commands'[i], commands'[j])
    <3>1. i \in DOMAIN Room /\ commands'[i] = Room[i]
      BY <2>1, <1>5
    <3>2. CASE j = Len(Room) + 1
      <4>1. Room[i] \in ToSet(accepted)
        BY <3>1, <1>4 DEF Follows, ToSet
      <4> QED BY <4>1, <3>1, <3>2, <1>3, <1>5
    <3>3. CASE j # Len(Room) + 1
      <4>1. j \in DOMAIN Room /\ commands'[j] = Room[j]
        BY <3>3, <1>5
      <4>2. Before(accepted, Room[i], Room[j])
        BY <3>1, <4>1, <2>1, <1>4 DEF Follows
      <4> QED BY <3>1, <4>1, <4>2, <1>3
    <3> QED BY <3>2, <3>3
  <2>2. ASSUME NEW i \in DOMAIN received', NEW j \in DOMAIN commands'
        PROVE  Before(accepted', received'[i], commands'[j])
    <3>1. received[i] \in ToSet(accepted) /\ received'[i] = received[i] /\ i \in DOMAIN received
      BY DEF QueueInv, Ordered, ToSet
    <3>2. CASE j = Len(Room) + 1
      BY <3>1, <3>2, <1>3, <1>5
    <3>3. CASE j # Len(Room) + 1
      <4>1. j \in DOMAIN Room /\ commands'[j] = Room[j]
        BY <3>3, <1>5
      <4>2. Before(accepted, received[i], Room[j])
        BY <3>1, <4>1, <1>4 DEF Follows
      <4> QED BY <3>1, <4>1, <4>2, <1>3
    <3> QED BY <3>2, <3>3
  <2>3. ASSUME NEW i \in DOMAIN commands'
        PROVE  \E p \in DOMAIN accepted' :
                 accepted'[p] = commands'[i] /\ Len(accepted') - p >= Len(commands') - i
    <3>1. CASE i = Len(Room) + 1
      <4>1. /\ Len(accepted) + 1 \in DOMAIN accepted'
            /\ accepted'[Len(accepted) + 1] = commands'[i]
            /\ Len(accepted') - (Len(accepted) + 1) >= Len(commands') - i
        BY <3>1, <1>3, <1>5
      <4> QED BY <4>1
    <3>2. CASE i # Len(Room) + 1
      <4>1. i \in DOMAIN Room /\ i \in Int /\ commands'[i] = Room[i]
        BY <3>2, <1>5
      <4>2. PICK p \in DOMAIN accepted :
              accepted[p] = Room[i] /\ Len(accepted) - p >= Len(Room) - i
        BY <4>1, <1>4 DEF Follows
      <4>3. Len(accepted') - p >= Len(commands') - i
        BY <4>1, <4>2, <1>3, <1>5
      <4> QED BY <4>1, <4>2, <4>3, <1>3
    <3> QED BY <3>1, <3>2
  <2> QED BY <2>1, <2>2, <2>3 DEF Follows
<1>13. Ordered'
  <2>1. \A i, j \in DOMAIN received' : i < j => Before(accepted', received'[i], received'[j])
    BY <1>3 DEF QueueInv, Ordered
  <2>2. ToSet(commands)' = ToSet(Room) \cup {c}
    BY <1>5 DEF ToSet
  <2>3. c \notin evicted
    BY <1>2 DEF QueueInv, OnlyOldestDropped, ToSet
  <2>4. c \notin ToSet(commands)
    BY <1>2 DEF QueueInv, Ordered
  <2>5. ToSet(received) \cup ToSet(commands) = ToSet(accepted) \ evicted
    BY DEF QueueInv, Ordered
  <2>6. ToSet(received)' \cup ToSet(commands)' = ToSet(accepted)' \ evicted'
    BY <2>2, <2>3, <2>4, <2>5, <1>1, <1>3, <1>4, <1>6
  <2> QED BY <2>1, <2>6, <1>12 DEF Ordered
<1> QED BY <1>8, <1>9, <1>10, <1>11, <1>13 DEF KeepsCommands

\* Without memory the oldest Command is gone all the same.
LEMMA OutOfMemoryKeeps ==
  ASSUME QueueInv, OutOfMemory, received' = received,
         exchange' \in [Commands -> Exchange], acked' = acked, command_handler' = command_handler
  PROVE  KeepsCommands'
<1>1. /\ commands' = Room
      /\ space_left' = space_left + Len(commands) - Len(Room)
      /\ evicted' = evicted \cup (ToSet(commands) \ ToSet(Room))
      /\ accepted' = accepted /\ handed' = handed
  BY DEF OutOfMemory, Evict
<1>2. /\ Room \in Seq(Commands) /\ Len(Room) < MAX_PENDING_COMMANDS
      /\ space_left + Len(commands) - Len(Room) = MAX_PENDING_COMMANDS - Len(Room)
      /\ Follows(Room)
      /\ ToSet(Room) \subseteq ToSet(commands)
      /\ \A x \in ToSet(commands) \ ToSet(Room) :
           /\ x \notin ToSet(received)
           /\ \E i \in DOMAIN accepted :
                accepted[i] = x /\ Len(accepted) - i >= MAX_PENDING_COMMANDS - 1
  BY RoomDropsOldest
<1>3. ToSet(commands) \subseteq Commands
  BY LenProperties DEF QueueInv, QueueTypeOK, ToSet
<1>4. Len(Room) \in Nat
  BY <1>2, LenProperties
<1>5. QueueTypeOK' /\ SpaceLeftRight'
  BY <1>1, <1>2, <1>3, <1>4, QueueConstants DEF QueueInv, QueueTypeOK, SpaceLeftRight
<1>6. OncePerCommand'
  BY <1>1 DEF QueueInv, OncePerCommand
<1>7. OnlyOldestDropped'
  BY <1>1, <1>2 DEF QueueInv, OnlyOldestDropped
<1>8. Ordered'
  <2>1. Follows(commands)'
    BY <1>1, <1>2 DEF Follows
  <2>2. ToSet(received)' \cup ToSet(commands)' = ToSet(accepted)' \ evicted'
    <3>1. ToSet(received) \cup ToSet(commands) = ToSet(accepted) \ evicted
      BY DEF QueueInv, Ordered
    <3>2. /\ ToSet(received)' = ToSet(received) /\ ToSet(commands)' = ToSet(Room)
          /\ ToSet(accepted)' = ToSet(accepted)
      BY <1>1 DEF ToSet
    <3> QED BY <3>1, <3>2, <1>1, <1>2
  <2> QED BY <2>1, <2>2, <1>1 DEF QueueInv, Ordered
<1> QED BY <1>5, <1>6, <1>7, <1>8 DEF KeepsCommands

\* The handler takes a Command past the queue.
LEMMA HandKeeps ==
  ASSUME QueueInv, NEW c \in Commands, exchange[c] = "new", Hand(c), received' = received,
         exchange' \in [Commands -> Exchange], acked' \subseteq Commands,
         command_handler' \in BOOLEAN
  PROVE  KeepsCommands'
<1>1. /\ handed' = [handed EXCEPT ![c] = IF @ = 0 THEN 1 ELSE 2]
      /\ UNCHANGED <<commands, space_left, accepted, evicted, received>>
  BY DEF Hand
<1>2. handed[c] = 0 /\ c \notin ToSet(accepted)
  BY DEF QueueInv, Remembered
<1>3. handed' = [handed EXCEPT ![c] = 1]
  BY <1>1, <1>2
<1>4. QueueTypeOK'
  BY <1>1, <1>3 DEF QueueInv, QueueTypeOK
<1>5. OncePerCommand'
  BY <1>1, <1>2, <1>3 DEF QueueInv, QueueTypeOK, OncePerCommand
<1>6. SpaceLeftRight' /\ OnlyOldestDropped' /\ Ordered'
  BY <1>1 DEF QueueInv, SpaceLeftRight, OnlyOldestDropped, Ordered, Follows
<1> QED BY <1>4, <1>5, <1>6 DEF KeepsCommands

\* The application takes the oldest Command, which becomes the last it has read.
LEMMA ReceiveCommandKeeps ==
  ASSUME QueueInv, NEW maxBufSize, ReceiveCommand(maxBufSize)
  PROVE  KeepsCommands'
<1>1. /\ commands # <<>> /\ commands' = Tail(commands)
      /\ received' = Append(received, Head(commands))
      /\ space_left' = space_left + 1
      /\ UNCHANGED <<command_handler, exchange, acked, accepted, evicted, handed>>
  BY DEF ReceiveCommand, HasWaitingCommand
<1>2. /\ DOMAIN commands = 1 .. Len(commands) /\ Len(commands) \in Nat \ {0}
      /\ commands' \in Seq(Commands) /\ Len(commands') = Len(commands) - 1
      /\ DOMAIN commands' = 1 .. Len(commands) - 1
      /\ \A i \in 1 .. Len(commands) - 1 : commands'[i] = commands[i + 1]
      /\ Head(commands) = commands[1]
      /\ ToSet(commands) = {commands[1]} \cup ToSet(commands')
  BY <1>1, TailSet DEF QueueInv, QueueTypeOK
<1>3. commands[1] \in Commands
  BY <1>2, ElementOfSeq DEF QueueInv, QueueTypeOK
<1>4. /\ DOMAIN received = 1 .. Len(received) /\ Len(received) \in Nat
      /\ received' \in Seq(Commands)
      /\ DOMAIN received' = 1 .. Len(received) + 1
      /\ \A i \in 1 .. Len(received) : received'[i] = received[i]
      /\ received'[Len(received) + 1] = commands[1]
      /\ ToSet(received') = ToSet(received) \cup {commands[1]}
  BY <1>1, <1>2, <1>3, AppendSet DEF QueueInv, QueueTypeOK
<1>5. QueueTypeOK' /\ SpaceLeftRight'
  <2>1. /\ space_left \in Nat /\ space_left + Len(commands) = MAX_PENDING_COMMANDS
        /\ MAX_PENDING_COMMANDS \in Nat
    BY QueueConstants DEF QueueInv, QueueTypeOK, SpaceLeftRight
  <2>2. /\ space_left' \in 0 .. MAX_PENDING_COMMANDS /\ Len(commands') <= MAX_PENDING_COMMANDS
        /\ space_left' + Len(commands') = MAX_PENDING_COMMANDS
    BY <2>1, <1>1, <1>2
  <2> QED BY <2>2, <1>1, <1>2, <1>4 DEF QueueInv, QueueTypeOK, SpaceLeftRight
<1>6. OncePerCommand' /\ OnlyOldestDropped'
  BY <1>1 DEF QueueInv, OncePerCommand, OnlyOldestDropped
<1>7. Follows(commands)
  BY DEF QueueInv, Ordered
<1>8. Follows(commands)'
  <2>1. ASSUME NEW i \in DOMAIN commands', NEW j \in DOMAIN commands', i < j
        PROVE  Before(accepted', commands'[i], commands'[j])
    <3>1. /\ i + 1 \in DOMAIN commands /\ j + 1 \in DOMAIN commands /\ i + 1 < j + 1
          /\ commands'[i] = commands[i + 1] /\ commands'[j] = commands[j + 1]
      BY <1>2, <2>1
    <3>2. Before(accepted, commands[i + 1], commands[j + 1])
      BY <3>1, <1>7 DEF Follows
    <3> QED BY <3>1, <3>2, <1>1
  <2>2. ASSUME NEW i \in DOMAIN received', NEW j \in DOMAIN commands'
        PROVE  Before(accepted', received'[i], commands'[j])
    <3>1. /\ j + 1 \in DOMAIN commands /\ commands'[j] = commands[j + 1]
          /\ 1 \in DOMAIN commands /\ 1 < j + 1
      BY <1>2
    <3>2. CASE i = Len(received) + 1
      <4>1. Before(accepted, commands[1], commands[j + 1])
        BY <3>1, <1>7 DEF Follows
      <4> QED BY <4>1, <3>1, <3>2, <1>1, <1>4
    <3>3. CASE i # Len(received) + 1
      <4>1. i \in DOMAIN received /\ received'[i] = received[i]
        BY <3>3, <1>4
      <4>2. Before(accepted, received[i], commands[j + 1])
        BY <3>1, <4>1, <1>7 DEF Follows
      <4> QED BY <4>1, <4>2, <3>1, <1>1
    <3> QED BY <3>2, <3>3
  <2>3. ASSUME NEW i \in DOMAIN commands'
        PROVE  \E p \in DOMAIN accepted' :
                 accepted'[p] = commands'[i] /\ Len(accepted') - p >= Len(commands') - i
    <3>1. /\ i \in Int /\ i + 1 \in DOMAIN commands /\ commands'[i] = commands[i + 1]
          /\ Len(commands) - (i + 1) = Len(commands') - i
      BY <1>2
    <3>2. \E p \in DOMAIN accepted :
            accepted[p] = commands[i + 1] /\ Len(accepted) - p >= Len(commands) - (i + 1)
      BY <3>1, <1>7 DEF Follows
    <3> QED BY <3>1, <3>2, <1>1
  <2> QED BY <2>1, <2>2, <2>3 DEF Follows
<1>9. ASSUME NEW i \in DOMAIN received', NEW j \in DOMAIN received', i < j
      PROVE  Before(accepted', received'[i], received'[j])
  <2>1. i \in DOMAIN received /\ received'[i] = received[i]
    BY <1>4, <1>9
  <2>2. CASE j = Len(received) + 1
    <3>1. Before(accepted, received[i], commands[1])
      BY <2>1, <1>2, <1>7 DEF Follows
    <3> QED BY <3>1, <2>1, <2>2, <1>1, <1>4
  <2>3. CASE j # Len(received) + 1
    <3>1. j \in DOMAIN received /\ received'[j] = received[j]
      BY <2>3, <1>4
    <3>2. Before(accepted, received[i], received[j])
      BY <2>1, <3>1, <1>9 DEF QueueInv, Ordered
    <3> QED BY <2>1, <3>1, <3>2, <1>1
  <2> QED BY <2>2, <2>3
<1>10. ToSet(received)' \cup ToSet(commands)' = ToSet(accepted)' \ evicted'
  <2>1. ToSet(received) \cup ToSet(commands) = ToSet(accepted) \ evicted
    BY DEF QueueInv, Ordered
  <2>2. ToSet(received)' = ToSet(received') /\ ToSet(commands)' = ToSet(commands')
    BY DEF ToSet
  <2>3. ToSet(accepted)' = ToSet(accepted) /\ evicted' = evicted
    BY <1>1 DEF ToSet
  <2> QED BY <2>1, <2>2, <2>3, <1>2, <1>4
<1>11. Ordered'
  BY <1>8, <1>9, <1>10 DEF Ordered
<1> QED BY <1>5, <1>6, <1>11 DEF KeepsCommands


\* Nothing of what the invariant speaks of but the acknowledgements may change.
LEMMA KeptByOthers ==
  ASSUME QueueInv, acked' \subseteq Commands, command_handler' \in BOOLEAN,
         UNCHANGED <<commands, space_left, exchange, accepted, received, evicted, handed>>
  PROVE  KeepsCommands'
  BY DEF QueueInv, KeepsCommands, QueueTypeOK, SpaceLeftRight, OncePerCommand,
         OnlyOldestDropped, Ordered, Follows

\* Each step keeps the invariant.
LEMMA QueueStep ==
  ASSUME QueueInv, [QueueNext]_queueVars
  PROVE  QueueInv'
<1> USE DEF QueueInv
<1>1. ASSUME NEW c \in Commands, NEW ackArrives \in BOOLEAN, ReceiveFirst(c, ackArrives)
      PROVE  QueueInv'
  <2>1. /\ exchange[c] = "new" /\ exchange' = [exchange EXCEPT ![c] = "ACK"]
        /\ acked' \subseteq acked \cup {c}
        /\ UNCHANGED <<command_handler, received>>
        /\ Hand(c) \/ Queue(c)
    BY <1>1 DEF ReceiveFirst
  <2>2. exchange' \in [Commands -> Exchange] /\ acked' \subseteq Commands
        /\ command_handler' \in BOOLEAN
    BY <2>1 DEF QueueTypeOK, Exchange
  <2>3. KeepsCommands'
    BY <2>1, <2>2, HandKeeps, QueueKeeps
  <2>4. Remembered'
    <3>1. CASE Hand(c)
      <4>1. handed[c] = 0
        BY <2>1 DEF Remembered
      <4>2. /\ handed' = [handed EXCEPT ![c] = 1]
            /\ accepted' = accepted
        BY <3>1, <4>1 DEF Hand
      <4> QED BY <4>2, <2>1 DEF QueueTypeOK, Remembered
    <3>2. CASE Queue(c)
      <4>1. handed' = handed /\ accepted' = Append(accepted, c)
        BY <3>2 DEF Queue
      <4>2. ToSet(accepted)' = ToSet(accepted) \cup {c}
        BY <4>1, AcceptedGrows
      <4> QED BY <4>1, <4>2, <2>1 DEF QueueTypeOK, Remembered
    <3> QED BY <3>1, <3>2, <2>1
  <2> QED BY <2>3, <2>4 DEF KeepsCommands
<1>2. ASSUME NEW c \in Commands, ReceiveFirstFails(c)
      PROVE  QueueInv'
  <2>1. /\ exchange[c] = "new" /\ exchange' = [exchange EXCEPT ![c] = "Do_Nothing"]
        /\ OutOfMemory
        /\ UNCHANGED <<command_handler, acked, received>>
    BY <1>2 DEF ReceiveFirstFails
  <2>2. exchange' \in [Commands -> Exchange]
    BY <2>1 DEF QueueTypeOK, Exchange
  <2>3. KeepsCommands'
    BY <2>1, <2>2, OutOfMemoryKeeps
  <2>4. accepted' = accepted /\ handed' = handed
    BY <2>1 DEF OutOfMemory
  <2>5. Remembered'
    BY <2>1, <2>4 DEF QueueTypeOK, Remembered
  <2> QED BY <2>3, <2>5 DEF KeepsCommands
<1>3. ASSUME NEW c \in Commands, NEW ackArrives \in BOOLEAN, ReceiveAgain(c, ackArrives)
      PROVE  QueueInv'
  <2>1. /\ exchange[c] = "ACK" /\ acked' \subseteq acked \cup {c}
        /\ UNCHANGED <<commands, space_left, command_handler, exchange, accepted,
                       received, evicted, handed>>
    BY <1>3 DEF ReceiveAgain
  <2>2. KeepsCommands'
    BY <2>1, KeptByOthers DEF QueueTypeOK
  <2>3. Remembered'
    BY <2>1 DEF Remembered
  <2> QED BY <2>2, <2>3 DEF KeepsCommands
<1>4. ASSUME NEW maxBufSize \in BufferSizes, ReceiveCommand(maxBufSize)
      PROVE  QueueInv'
  <2>1. KeepsCommands'
    BY <1>4, ReceiveCommandKeeps
  <2>2. Remembered'
    BY <1>4 DEF ReceiveCommand, Remembered
  <2> QED BY <2>1, <2>2 DEF KeepsCommands
<1>5. CASE SetCommandHandler
  <2>1. /\ command_handler' \in BOOLEAN
        /\ UNCHANGED <<commands, space_left, exchange, acked, accepted, received,
                       evicted, handed>>
    BY <1>5 DEF SetCommandHandler, QueueTypeOK
  <2>2. KeepsCommands'
    BY <2>1, KeptByOthers DEF QueueTypeOK
  <2>3. Remembered'
    BY <2>1 DEF Remembered
  <2> QED BY <2>2, <2>3 DEF KeepsCommands
<1>6. CASE UNCHANGED queueVars
  <2>1. KeepsCommands'
    BY <1>6, KeptByOthers DEF queueVars, QueueTypeOK
  <2>2. Remembered'
    BY <1>6 DEF queueVars, Remembered
  <2> QED BY <2>1, <2>2 DEF KeepsCommands
<1>7. ASSUME NEW c \in Commands, ReceiveAgainIgnored(c)
      PROVE  QueueInv'
  BY <1>6, <1>7 DEF ReceiveAgainIgnored
<1> QED BY <1>1, <1>2, <1>3, <1>4, <1>5, <1>6, <1>7 DEF QueueNext

\* The device starts with nothing received and every slot free.
LEMMA QueueStart ==
  ASSUME QueueInit
  PROVE  QueueInv
<1>1. QueueTypeOK /\ SpaceLeftRight
  <2>1. /\ commands \in Seq(Commands) /\ accepted \in Seq(Commands)
        /\ received \in Seq(Commands) /\ Len(commands) = 0
    BY EmptySeq DEF QueueInit
  <2>2. /\ Len(commands) <= MAX_PENDING_COMMANDS
        /\ space_left \in 0 .. MAX_PENDING_COMMANDS
        /\ space_left + Len(commands) = MAX_PENDING_COMMANDS
    BY <2>1, QueueConstants DEF QueueInit
  <2>3. /\ exchange \in [Commands -> Exchange]
        /\ acked \subseteq Commands /\ evicted \subseteq Commands
    BY DEF QueueInit, Exchange
  <2>4. handed \in [Commands -> 0 .. 2]
    BY DEF QueueInit
  <2>5. command_handler \in BOOLEAN
    BY DEF QueueInit
  <2> QED BY <2>1, <2>2, <2>3, <2>4, <2>5 DEF QueueTypeOK, SpaceLeftRight
<1>2. ToSet(accepted) = {} /\ DOMAIN accepted = {} /\ DOMAIN commands = {} /\ DOMAIN received = {}
      /\ ToSet(received) = {} /\ ToSet(commands) = {}
  BY EmptySeq, LenProperties DEF QueueInit, ToSet
<1>3. OncePerCommand /\ OnlyOldestDropped
  BY <1>2 DEF QueueInit, OncePerCommand, OnlyOldestDropped, IsInjective
<1>4. Ordered
  BY <1>2 DEF QueueInit, Ordered, Follows
<1>5. Remembered
  BY <1>2 DEF QueueInit, Remembered
<1> QED BY <1>1, <1>3, <1>4, <1>5 DEF QueueInv

\* The inductive invariant: what is pending is in the order of receipt, and an
\* exchange that is new brought nothing yet (Breakout.cpp, receivedCommandInternal).
THEOREM QueueInvariant == QueueSpec => []QueueInv
<1>1. QueueInit => QueueInv
  BY QueueStart
<1>2. QueueInv /\ [QueueNext]_queueVars => QueueInv'
  BY QueueStep
<1> QED BY <1>1, <1>2, PTL DEF QueueSpec

\* Whatever receives, evicts and runs out of memory in whatever order: slots are counted
\* right, only the oldest Command of a full queue makes room, and no Command is
\* acknowledged that was not kept (receivedCommandInternal, handler_CoAPRequest).
THEOREM QueueKept == QueueSpec => []QueueConsistent
<1>1. QueueInv => QueueConsistent
  <2>1. QueueInv => AckedIsKept
    BY DEF QueueInv, QueueTypeOK, Remembered, AckedIsKept
  <2> QED BY <2>1 DEF QueueInv, QueueConsistent
<1> QED BY <1>1, QueueInvariant, PTL

\* What was popped and what is pending is what was accepted, in that order.
LEMMA OrderedIsInOrder ==
  ASSUME QueueInv
  PROVE  InOrderOfReceipt
<1> DEFINE seen == received \o commands
<1>1. /\ received \in Seq(Commands) /\ commands \in Seq(Commands)
      /\ DOMAIN received = 1 .. Len(received) /\ DOMAIN commands = 1 .. Len(commands)
      /\ Len(received) \in Nat /\ Len(commands) \in Nat
  BY LenProperties DEF QueueInv, QueueTypeOK
<1>2. /\ DOMAIN seen = 1 .. Len(received) + Len(commands)
      /\ \A i \in 1 .. Len(received) : seen[i] = received[i]
      /\ \A i \in DOMAIN seen : i > Len(received) =>
           i - Len(received) \in DOMAIN commands /\ seen[i] = commands[i - Len(received)]
  BY <1>1, ConcatProperties, LenProperties
<1>3. ASSUME NEW i \in DOMAIN seen, NEW j \in DOMAIN seen, i < j
      PROVE  Before(accepted, seen[i], seen[j])
  <2>1. CASE j <= Len(received)
    BY <2>1, <1>1, <1>2, <1>3 DEF QueueInv, Ordered
  <2>2. CASE i <= Len(received) /\ j > Len(received)
    <3>1. i \in DOMAIN received /\ j - Len(received) \in DOMAIN commands
      BY <2>2, <1>1, <1>2
    <3>2. Before(accepted, received[i], commands[j - Len(received)])
      BY <3>1 DEF QueueInv, Ordered, Follows
    <3> QED BY <3>1, <3>2, <2>2, <1>1, <1>2
  <2>3. CASE i > Len(received)
    <3>1. /\ i - Len(received) \in DOMAIN commands /\ j - Len(received) \in DOMAIN commands
          /\ i - Len(received) < j - Len(received)
      BY <2>3, <1>1, <1>2, <1>3
    <3>2. Before(accepted, commands[i - Len(received)], commands[j - Len(received)])
      BY <3>1 DEF QueueInv, Ordered, Follows
    <3> QED BY <3>2, <2>3, <1>1, <1>2, <1>3
  <2> QED BY <2>1, <2>2, <2>3, <1>1, <1>2
<1>4. ToSet(seen) = ToSet(received) \cup ToSet(commands)
  <2>1. ToSet(seen) \subseteq ToSet(received) \cup ToSet(commands)
    BY <1>1, <1>2 DEF ToSet
  <2>2. ToSet(received) \subseteq ToSet(seen)
    BY <1>1, <1>2 DEF ToSet
  <2>3. ASSUME NEW k \in DOMAIN commands
        PROVE  commands[k] \in ToSet(seen)
    <3>1. /\ Len(received) + k \in DOMAIN seen /\ Len(received) + k > Len(received)
          /\ (Len(received) + k) - Len(received) = k
      BY <1>1, <1>2
    <3> QED BY <3>1, <1>2 DEF ToSet
  <2>4. ToSet(commands) \subseteq ToSet(seen)
    BY <2>3 DEF ToSet
  <2> QED BY <2>1, <2>2, <2>4
<1>5. ToSet(seen) = ToSet(accepted) \ evicted
  BY <1>4 DEF QueueInv, Ordered
<1> QED BY <1>3, <1>5 DEF InOrderOfReceipt

\* The application sees the Commands in the order of receipt, each once, however
\* often the server repeats them (receivedCommandInternal, receiveCommand).
THEOREM QueueInOrder == QueueSpec => []DeliveredInOrderOnce
<1>1. QueueInv => DeliveredInOrderOnce
  BY OrderedIsInOrder DEF QueueInv, DeliveredInOrderOnce
<1> QED BY <1>1, QueueInvariant, PTL

-----------------------------------------------------------------------------
(* The polling timer.                                                      *)

\* 49 days have not passed, and no interval is that long.
NoWrap == MaxTime < WIDTH /\ \A interval \in Intervals : interval < WIDTH

\* The times that are kept lie in the past, and none further back than a poll is put
\* forward by; what may be multiplied keeps below the width.
InThePast ==
    /\ now >= 1
    /\ polling_interval < WIDTH
    /\ last_polling <= now /\ last_polling >= 1 - MINIMUM
    /\ counted <= now

\* The interval is counted from a time that the timers know of, unless last_polling
\* was put back.
CountedFrom ==
    counted # 0 /\ ~ backdated =>
        /\ counted <= last_polling
        /\ next_polling # 0 => counted + polling_interval <= next_polling

\* A reinitialization that the timer waits for began when the interval was over.
FrameRight ==
    waiting # None =>
        /\ waiting.now >= 1 /\ waiting.now <= now
        /\ counted <= waiting.now
        /\ waiting.auto => ~ coap_status /\ (Over(counted, waiting.now) \/ backdated)

PollingInv ==
    /\ PollingTypeOK
    /\ InThePast
    /\ TimerArmed
    /\ NotTooFar
    /\ CountedFrom
    /\ FrameRight
    /\ AutoSpaced

\* What one check leaves behind, sent or not, if its own time is in the past and
\* not before the last Heartbeat.
LEMMA PollKeeps ==
  ASSUME PollingInv, NEW t \in Nat, NEW last \in Int, NEW auto \in BOOLEAN, NEW ok \in BOOLEAN,
         Poll(t, last, auto, ok), UNCHANGED <<now, polling_interval>>,
         t >= 1, t <= now, counted <= t, auto => Over(counted, t) \/ backdated,
         TooOften(t, last) => last = last_polling
  PROVE  /\ last_polling' \in Int /\ next_polling' \in Nat
         /\ InThePast' /\ TimerArmed' /\ NotTooFar' /\ CountedFrom' /\ AutoSpaced'
         /\ last_token' \in {0, 1} /\ asked' \in {0, 1}
         /\ sent' \in Nat /\ counted' \in Nat
         /\ pending' \subseteq 0 .. MaxTime
         /\ answer' \in {"none", "awaited", "ACK", "RST"}
         /\ early' \subseteq {"sent", "counted", "backdated"} /\ backdated' \in BOOLEAN
         /\ ~ ok => counted' = counted
<1> USE DEF PollingInv
<1>1. CASE TooOften(t, last)
  <2>1. last_polling' = last_polling /\ UNCHANGED <<next_polling, heartbeats>>
    BY <1>1 DEF Poll
  <2> QED BY <2>1 DEF heartbeats, PollingTypeOK, InThePast, TimerArmed, NotTooFar,
                      CountedFrom, AutoSpaced
<1>2. CASE ~ TooOften(t, last)
  <2>1. /\ last_polling' = t
        /\ next_polling' = NextAfter(t)
        /\ last_token' = 1 /\ backdated' = FALSE
    BY <1>2 DEF Poll
  <2>2. /\ polling_interval \in Nat /\ Milliseconds(polling_interval) = polling_interval
        /\ now \in Nat /\ now <= MaxTime /\ MaxTime \in Nat /\ MINIMUM \in Nat \ {0}
        /\ next_polling \in Nat /\ counted \in Nat
    BY PollingConstants DEF PollingTypeOK, InThePast, Milliseconds
  <2>3. next_polling' = IF next_polling = 0 THEN 0 ELSE t + polling_interval
    BY <2>1, <2>2 DEF NextAfter
  <2>4. TimerArmed' /\ NotTooFar' /\ (counted' = counted => InThePast')
    BY <2>1, <2>2, <2>3 DEF InThePast, TimerArmed, NotTooFar
  <2>5. CASE ok
    <3>1. /\ sent' = now /\ counted' = t /\ pending' = pending \cup {now}
          /\ asked' = last_token /\ answer' = "awaited"
          /\ early' = early \cup (IF auto THEN Early(t) ELSE {})
      BY <1>2, <2>5 DEF Poll
    <3>2. CountedFrom' /\ InThePast'
      BY <2>1, <2>2, <2>3, <3>1 DEF CountedFrom, InThePast
    <3>3. early' \subseteq {"sent", "counted", "backdated"} /\ "counted" \notin early'
      <4>1. auto => Early(t) \subseteq {"sent", "backdated"}
        BY DEF Early
      <4> QED BY <3>1, <4>1 DEF AutoSpaced, PollingTypeOK
    <3>4. pending' \subseteq 0 .. MaxTime
      BY <3>1, <2>2 DEF PollingTypeOK
    <3>5. backdated' \in BOOLEAN /\ last_token' \in {0, 1}
      BY <2>1
    <3> QED BY <2>1, <2>2, <2>3, <2>4, <2>5, <3>1, <3>2, <3>3, <3>4, <3>5
              DEF AutoSpaced, PollingTypeOK
  <2>6. CASE ~ ok
    <3>1. UNCHANGED <<sent, counted, pending, asked, answer, early>>
      BY <1>2, <2>6 DEF Poll
    <3>2. CountedFrom'
      BY <2>1, <2>2, <2>3, <3>1 DEF CountedFrom
    <3>3. backdated' \in BOOLEAN /\ last_token' \in {0, 1}
      BY <2>1
    <3> QED BY <2>1, <2>2, <2>3, <2>4, <3>1, <3>2, <3>3 DEF AutoSpaced, PollingTypeOK
  <2> QED BY <2>5, <2>6
<1> QED BY <1>1, <1>2

\* A check that is put off keeps the timer right.
LEMMA PostponeKeeps ==
  ASSUME PollingInv, NEW t \in Nat, Postpone(t), t <= now
  PROVE  /\ next_polling' \in Nat
         /\ (next_polling' = 0) <=> (next_polling = 0)
         /\ polling_interval # 0 => next_polling' <= now + polling_interval
         /\ next_polling' >= next_polling
<1>1. /\ polling_interval # 0 => polling_interval >= MINIMUM
      /\ polling_interval \in Nat /\ next_polling \in Nat /\ now \in Nat
      /\ BACKOFF \in Nat \ {0} /\ BACKOFF <= MINIMUM /\ MINIMUM \in Nat
  BY PollingConstants DEF PollingInv, PollingTypeOK
<1>2. CASE next_polling < t /\ next_polling # 0
  <2>1. next_polling' = t + BACKOFF
    BY <1>2 DEF Postpone
  <2> QED BY <2>1, <1>1, <1>2 DEF PollingInv, TimerArmed
<1>3. CASE ~(next_polling < t /\ next_polling # 0)
  BY <1>1, <1>3 DEF Postpone, PollingInv, NotTooFar
<1> QED BY <1>2, <1>3

\* A check, by the timer or by the application, in time or not.
LEMMA CheckKeeps ==
  ASSUME PollingInv, NEW auto \in BOOLEAN, CheckForCommands(auto),
         waiting # None => ~ ready,
         auto => next_polling # 0 /\ next_polling <= now
  PROVE  PollingInv'
<1> USE DEF PollingInv
<1>1. /\ now \in Nat /\ now >= 1 /\ now <= MaxTime /\ counted <= now /\ counted \in Nat
      /\ last_polling \in Int /\ polling_interval \in Nat
  BY PollingConstants DEF PollingTypeOK, InThePast
<1>2. auto => Over(counted, now) \/ backdated
  BY <1>1 DEF CountedFrom, Over, PollingTypeOK
<1>3. CASE CheckOnline(auto)
  <2>1. PICK ok \in SendResults(ready) : Poll(now, last_polling, auto, ok)
    BY <1>3 DEF CheckOnline
  <2>2. ok \in BOOLEAN /\ (~ ready => ~ ok)
    BY <2>1 DEF SendResults
  <2>3. /\ UNCHANGED <<now, polling_interval, waiting, registered, coap_status,
                       last_coap_status_connected, ready, requested>>
        /\ coap_status
    BY <1>3 DEF CheckOnline, connection, Online
  <2>4. /\ last_polling' \in Int /\ next_polling' \in Nat
        /\ InThePast' /\ TimerArmed' /\ NotTooFar' /\ CountedFrom' /\ AutoSpaced'
        /\ last_token' \in {0, 1} /\ asked' \in {0, 1}
        /\ sent' \in Nat /\ counted' \in Nat
        /\ pending' \subseteq 0 .. MaxTime
        /\ answer' \in {"none", "awaited", "ACK", "RST"}
        /\ early' \subseteq {"sent", "counted", "backdated"} /\ backdated' \in BOOLEAN
        /\ ~ ok => counted' = counted
    BY <1>1, <1>2, <2>1, <2>2, <2>3, PollKeeps
  <2>5. PollingTypeOK'
    BY <2>3, <2>4 DEF PollingTypeOK
  <2>6. FrameRight'
    BY <2>2, <2>3, <2>4 DEF FrameRight, Over
  <2> QED BY <2>4, <2>5, <2>6
<1>4. CASE CheckDead(auto)
  <2>1. /\ last_coap_status_connected' = now /\ ready' = FALSE
        /\ waiting' = [caller |-> "check", now |-> now, auto |-> auto]
        /\ UNCHANGED <<now, timers, registered, coap_status, heartbeats, requested>>
    BY <1>4 DEF CheckDead
  <2>2. waiting' \in Frame
    BY <2>1, <1>1 DEF Frame
  <2>3. PollingTypeOK'
    BY <2>1, <2>2, <1>1 DEF PollingTypeOK, timers, heartbeats
  <2>4. InThePast' /\ TimerArmed' /\ NotTooFar' /\ CountedFrom' /\ AutoSpaced'
    BY <2>1 DEF InThePast, TimerArmed, NotTooFar, CountedFrom, AutoSpaced, timers, heartbeats
  <2>5. FrameRight'
    BY <2>1, <1>1, <1>2, <1>4 DEF FrameRight, Over, timers, heartbeats, CheckDead
  <2> QED BY <2>3, <2>4, <2>5
<1>5. CASE CheckOffline
  <2>1. /\ Postpone(now)
        /\ UNCHANGED <<now, polling_interval, last_polling, connection, waiting,
                       heartbeats, requested>>
    BY <1>5 DEF CheckOffline
  <2>2. /\ next_polling' \in Nat
        /\ (next_polling' = 0) <=> (next_polling = 0)
        /\ polling_interval # 0 => next_polling' <= now + polling_interval
        /\ next_polling' >= next_polling
    BY <2>1, <1>1, PostponeKeeps
  <2>3. PollingTypeOK'
    BY <2>1, <2>2 DEF PollingTypeOK, connection, heartbeats
  <2>4. InThePast' /\ TimerArmed' /\ NotTooFar' /\ FrameRight' /\ AutoSpaced'
    BY <2>1, <2>2 DEF InThePast, TimerArmed, NotTooFar, FrameRight, AutoSpaced, Over, heartbeats,
                       connection
  <2>5. CountedFrom'
    BY <2>1, <2>2, <1>1 DEF CountedFrom, heartbeats, PollingTypeOK
  <2> QED BY <2>3, <2>4, <2>5
<1> QED BY <1>3, <1>4, <1>5 DEF CheckForCommands

\* A reinitialization that came through: both its callers poll.
LEMMA ReinitializedKeeps ==
  ASSUME PollingInv, Reinitialized
  PROVE  PollingInv'
<1> USE DEF PollingInv
<1>1. /\ now \in Nat /\ now >= 1 /\ now <= MaxTime /\ counted <= now /\ counted \in Nat
      /\ last_polling \in Int /\ polling_interval \in Nat /\ MINIMUM \in Nat \ {0}
      /\ now - MINIMUM \in Int
  BY PollingConstants DEF PollingTypeOK, InThePast
<1>2. /\ waiting # None /\ waiting \in Frame /\ waiting' = None
      /\ ready' = TRUE /\ coap_status' = TRUE
      /\ last_coap_status_connected' \in {now, last_coap_status_connected}
      /\ UNCHANGED <<now, polling_interval, registered, requested>>
  BY DEF Reinitialized, PollingTypeOK
<1>3. /\ waiting.now \in Nat /\ waiting.auto \in BOOLEAN
      /\ waiting.now >= 1 /\ waiting.now <= now /\ counted <= waiting.now
      /\ waiting.auto => Over(counted, waiting.now) \/ backdated
  BY <1>2 DEF Frame, FrameRight
<1>4. FrameRight'
  BY <1>2 DEF FrameRight
<1>5. ASSUME NEW t \in Nat, NEW last \in Int, NEW auto \in BOOLEAN, NEW ok \in BOOLEAN,
             Poll(t, last, auto, ok), t >= 1, t <= now, counted <= t,
             auto => Over(counted, t) \/ backdated, TooOften(t, last) => last = last_polling
      PROVE  PollingInv'
  <2>1. /\ last_polling' \in Int /\ next_polling' \in Nat
        /\ InThePast' /\ TimerArmed' /\ NotTooFar' /\ CountedFrom' /\ AutoSpaced'
        /\ last_token' \in {0, 1} /\ asked' \in {0, 1}
        /\ sent' \in Nat /\ counted' \in Nat
        /\ pending' \subseteq 0 .. MaxTime
        /\ answer' \in {"none", "awaited", "ACK", "RST"}
        /\ early' \subseteq {"sent", "counted", "backdated"} /\ backdated' \in BOOLEAN
    BY <1>2, <1>5, PollKeeps
  <2>2. PollingTypeOK'
    BY <1>1, <1>2, <2>1 DEF PollingTypeOK
  <2> QED BY <1>4, <2>1, <2>2
<1>6. CASE waiting.caller = "check"
  <2>1. PICK ok \in BOOLEAN : Poll(waiting.now, last_polling, waiting.auto, ok)
    BY <1>6 DEF Reinitialized
  <2> QED BY <1>1, <1>3, <1>5, <2>1
<1>7. CASE waiting.caller # "check" /\ registered
  <2>1. PICK ok \in BOOLEAN : Poll(now, now - MINIMUM, FALSE, ok)
    BY <1>7 DEF Reinitialized
  <2>2. ~ TooOften(now, now - MINIMUM)
    BY <1>1 DEF TooOften
  <2>3. PICK last \in Int : last = now - MINIMUM
    BY <1>1
  <2>4. Poll(now, last, FALSE, ok) /\ ~ TooOften(now, last)
    BY <2>1, <2>2, <2>3
  <2>5. FALSE \in BOOLEAN /\ (FALSE => Over(counted, now) \/ backdated)
    OBVIOUS
  <2>6. TooOften(now, last) => last = last_polling
    BY <2>4
  <2>7. now \in Nat /\ now >= 1 /\ now <= now /\ counted <= now
    BY <1>1
  <2> QED BY <1>5, <2>4, <2>5, <2>6, <2>7, Zenon
<1>8. CASE waiting.caller # "check" /\ ~ registered
  <2>1. /\ last_polling' = now - MINIMUM /\ Postpone(now)
        /\ backdated' = (backdated \/ now - MINIMUM < counted)
        /\ UNCHANGED <<pending, last_token, asked, answer, sent, counted, early>>
    BY <1>8 DEF Reinitialized
  <2>2. /\ next_polling' \in Nat
        /\ (next_polling' = 0) <=> (next_polling = 0)
        /\ polling_interval # 0 => next_polling' <= now + polling_interval
        /\ next_polling' >= next_polling
    BY <2>1, <1>1, PostponeKeeps
  <2>3. PollingTypeOK'
    BY <1>1, <1>2, <2>1, <2>2 DEF PollingTypeOK
  <2>4. InThePast' /\ TimerArmed' /\ NotTooFar' /\ AutoSpaced'
    BY <1>1, <1>2, <2>1, <2>2 DEF InThePast, TimerArmed, NotTooFar, AutoSpaced
  <2>5. CountedFrom'
    <3>1. CASE backdated'
      BY <3>1 DEF CountedFrom
    <3>2. CASE ~ backdated'
      <4>1. ~ backdated /\ ~(now - MINIMUM < counted)
        BY <2>1, <3>2
      <4>2. next_polling \in Nat
        BY DEF PollingTypeOK
      <4> QED BY <1>1, <1>2, <2>1, <2>2, <4>1, <4>2 DEF CountedFrom
    <3> QED BY <3>1, <3>2
  <2> QED BY <1>4, <2>3, <2>4, <2>5
<1> QED BY <1>6, <1>7, <1>8

\* The application's new interval.
LEMMA IntervalKeeps ==
  ASSUME NoWrap, PollingInv, NEW interval \in Intervals, SetPollingInterval(interval)
  PROVE  PollingInv'
<1> USE DEF PollingInv
<1>1. /\ interval \in Nat /\ interval < WIDTH /\ MINIMUM \in Nat \ {0} /\ MINIMUM < WIDTH
      /\ now \in Nat /\ WIDTH \in Nat /\ next_polling \in Nat
      /\ last_polling \in Int /\ polling_interval \in Nat /\ counted \in Nat
  BY PollingConstants DEF NoWrap, PollingTypeOK
<1>2. /\ polling_interval' = Supported(interval)
      /\ next_polling' = IF Supported(interval) # polling_interval \/ Supported(interval) = 0
                         THEN Timer(Supported(interval))
                         ELSE next_polling
      /\ waiting = None /\ requested' = interval
      /\ UNCHANGED <<now, last_polling, connection, waiting, heartbeats>>
  BY DEF SetPollingInterval
<1>3. /\ polling_interval' \in Nat /\ polling_interval' < WIDTH
      /\ polling_interval' = 0 \/ polling_interval' >= MINIMUM
  BY <1>1, <1>2 DEF Supported
<1>4. PICK p \in Nat : p = polling_interval'
  BY <1>3
<1>5. /\ next_polling' \in Nat
      /\ TimerArmed' /\ NotTooFar' /\ CountedFrom'
  <2>1. CASE p # polling_interval \/ p = 0
    <3>1. next_polling' = IF p = 0 THEN 0 ELSE IF last_polling = 0 THEN 1 ELSE last_polling + p
      BY <1>1, <1>2, <1>3, <1>4, <2>1 DEF Timer, Milliseconds
    <3>2. /\ now >= 1 /\ last_polling <= now /\ last_polling >= 1 - MINIMUM
          /\ counted # 0 /\ ~ backdated => counted <= last_polling
      BY DEF InThePast, CountedFrom
    <3>3. p = 0 \/ p >= MINIMUM
      BY <1>3, <1>4
    <3>4. PICK next \in Int : next = next_polling'
      BY <3>1, <1>1
    <3>5. /\ next \in Nat /\ (p = 0 <=> next = 0)
          /\ p # 0 => next <= now + p
          /\ counted # 0 /\ ~ backdated /\ next # 0 => counted + p <= next
      <4>1. CASE p = 0
        BY <3>1, <3>4, <4>1
      <4>2. CASE p # 0 /\ last_polling = 0
        BY <3>1, <3>2, <3>4, <4>2, <1>1
      <4>3. CASE p # 0 /\ last_polling # 0
        <5>1. next = last_polling + p
          BY <3>1, <3>4, <4>3
        <5>2. next >= 1
          BY <5>1, <3>2, <3>3, <4>3, <1>1
        <5> QED BY <5>1, <5>2, <3>2, <4>3, <1>1
      <4> QED BY <4>1, <4>2, <4>3
    <3>6. counted' = counted /\ backdated' = backdated /\ now' = now /\ last_polling' = last_polling
      BY <1>2 DEF heartbeats
    <3> QED BY <3>2, <3>4, <3>5, <3>6, <1>4 DEF TimerArmed, NotTooFar, CountedFrom
  <2>2. CASE ~(p # polling_interval \/ p = 0)
    BY <1>1, <1>2, <1>4, <2>2 DEF TimerArmed, NotTooFar, CountedFrom, heartbeats
  <2> QED BY <2>1, <2>2
<1>6. PollingTypeOK'
  BY <1>1, <1>2, <1>3, <1>5 DEF PollingTypeOK, connection, heartbeats
<1>7. InThePast' /\ FrameRight' /\ AutoSpaced'
  BY <1>2, <1>3 DEF InThePast, FrameRight, AutoSpaced, heartbeats
<1> QED BY <1>5, <1>6, <1>7


\* Time passes, and does not wrap.
LEMMA TickKeeps ==
  ASSUME NoWrap, PollingInv, Tick
  PROVE  PollingInv'
<1> USE DEF PollingInv
<1>1. /\ now \in Nat /\ now + 1 <= MaxTime /\ MaxTime < WIDTH /\ WIDTH \in Nat /\ MaxTime \in Nat
      /\ now' = (now + 1) % WIDTH
      /\ UNCHANGED <<timers, connection, waiting, heartbeats, requested>>
  BY PollingConstants DEF NoWrap, Tick, PollingTypeOK
<1>2. now' = now + 1
  BY <1>1
<1>3. /\ next_polling \in Nat /\ polling_interval \in Nat /\ last_polling \in Int
      /\ MINIMUM \in Nat
  BY PollingConstants DEF PollingTypeOK
<1>4. PollingTypeOK'
  <2>1. now' \in 0 .. MaxTime
    BY <1>1, <1>2
  <2> QED BY <2>1, <1>1 DEF PollingTypeOK, timers, connection, heartbeats
<1>5. InThePast'
  BY <1>1, <1>2, <1>3 DEF InThePast, timers, heartbeats, PollingTypeOK
<1>6. NotTooFar'
  BY <1>1, <1>2, <1>3 DEF NotTooFar, timers
<1>7. TimerArmed' /\ CountedFrom' /\ AutoSpaced'
  BY <1>1 DEF TimerArmed, CountedFrom, AutoSpaced, timers, heartbeats
<1>8. FrameRight'
  <2>1. waiting' = waiting /\ counted' = counted /\ polling_interval' = polling_interval
        /\ backdated' = backdated /\ coap_status' = coap_status
    BY <1>1 DEF timers, heartbeats, connection
  <2>2. waiting # None => waiting.now \in Nat
    BY DEF PollingTypeOK, Frame
  <2> QED BY <2>1, <2>2, <1>1, <1>2 DEF FrameRight, Over
<1> QED BY <1>4, <1>5, <1>6, <1>7, <1>8

\* A Heartbeat that times out begins a reinitialization of its own.
LEMMA TimeoutKeeps ==
  ASSUME PollingInv, NEW t \in pending, HeartbeatTimesOut(t)
  PROVE  PollingInv'
<1> USE DEF PollingInv
<1>1. /\ pending' = pending \ {t} /\ ready' = FALSE
      /\ waiting' = [caller |-> "timeout", now |-> now, auto |-> FALSE]
      /\ UNCHANGED <<now, timers, registered, coap_status, last_coap_status_connected,
                     last_token, asked, answer, requested, sent, counted, backdated, early>>
  BY DEF HeartbeatTimesOut
<1>2. /\ now \in Nat /\ now >= 1 /\ counted \in Nat /\ counted <= now
      /\ last_polling \in Int
  BY DEF PollingTypeOK, InThePast
<1>3. waiting' \in Frame
  BY <1>1, <1>2 DEF Frame
<1>4. PollingTypeOK'
  BY <1>1, <1>3 DEF PollingTypeOK, timers
<1>5. FrameRight'
  <2>1. waiting'.now = now /\ waiting'.auto = FALSE
    BY <1>1
  <2> QED BY <2>1, <1>1, <1>2 DEF FrameRight
<1>6. InThePast' /\ TimerArmed' /\ NotTooFar' /\ CountedFrom' /\ AutoSpaced'
  BY <1>1 DEF InThePast, TimerArmed, NotTooFar, CountedFrom, AutoSpaced, timers
<1> QED BY <1>4, <1>5, <1>6

\* A reinitialization that was given up: the check it was for is put off.
LEMMA GivenUpKeeps ==
  ASSUME PollingInv, NotReinitialized
  PROVE  PollingInv'
<1> USE DEF PollingInv
<1>1. /\ waiting # None /\ waiting' = None /\ coap_status' = FALSE
      /\ IF waiting.caller = "check" THEN Postpone(waiting.now) ELSE UNCHANGED next_polling
      /\ UNCHANGED <<now, polling_interval, last_polling, registered,
                     last_coap_status_connected, ready, heartbeats, requested>>
  BY DEF NotReinitialized
<1>2. /\ next_polling \in Nat /\ now \in Nat /\ polling_interval \in Nat /\ counted \in Nat
      /\ waiting.now \in Nat /\ waiting.now <= now
  BY <1>1 DEF PollingTypeOK, FrameRight, Frame
<1>3. /\ next_polling' \in Nat
      /\ (next_polling' = 0) <=> (next_polling = 0)
      /\ polling_interval # 0 => next_polling' <= now + polling_interval
      /\ next_polling' >= next_polling
  <2>1. CASE waiting.caller = "check"
    BY <2>1, <1>1, <1>2, PostponeKeeps
  <2>2. CASE waiting.caller # "check"
    BY <2>2, <1>1, <1>2 DEF NotTooFar
  <2> QED BY <2>1, <2>2
<1>4. PollingTypeOK'
  BY <1>1, <1>3 DEF PollingTypeOK, heartbeats
<1>5. InThePast' /\ TimerArmed' /\ NotTooFar' /\ FrameRight' /\ AutoSpaced'
  BY <1>1, <1>3 DEF InThePast, TimerArmed, NotTooFar, FrameRight, AutoSpaced, heartbeats
<1>6. CountedFrom'
  BY <1>1, <1>2, <1>3 DEF CountedFrom, heartbeats
<1> QED BY <1>4, <1>5, <1>6

\* Nothing that the timers are made of changes.
LEMMA OthersKeep ==
  ASSUME PollingInv, PollingTypeOK',
         UNCHANGED <<now, polling_interval, last_polling, next_polling, waiting, counted,
                     backdated, early>>,
         waiting = None \/ coap_status' = coap_status
  PROVE  PollingInv'
  BY DEF PollingInv, InThePast, TimerArmed, NotTooFar, CountedFrom, FrameRight, Over, AutoSpaced

\* Each step keeps the invariant.
LEMMA PollingStep ==
  ASSUME NoWrap, PollingInv, [PollingNext]_pollingVars
  PROVE  PollingInv'
<1>0. PollingTypeOK
  BY DEF PollingInv
<1>1. ASSUME NEW interval \in Intervals, SetPollingInterval(interval)
      PROVE  PollingInv'
  BY <1>1, IntervalKeeps
<1>2. CASE SpinChecks
  BY <1>2, CheckKeeps DEF SpinChecks
<1>3. CASE ManualCheck
  BY <1>3, CheckKeeps DEF ManualCheck
<1>4. ASSUME NEW t \in pending, HeartbeatAnswered(t)
      PROVE  PollingInv'
  <2>1. PollingTypeOK'
    BY <1>0, <1>4 DEF HeartbeatAnswered, PollingTypeOK, timers, connection
  <2> QED BY <2>1, <1>4, OthersKeep DEF HeartbeatAnswered, timers, connection
<1>5. ASSUME NEW t \in pending, HeartbeatTimesOut(t)
      PROVE  PollingInv'
  BY <1>5, TimeoutKeeps
<1>6. CASE Response
  <2>1. PollingTypeOK'
    BY <1>0, <1>6 DEF Response, PollingTypeOK, timers, connection
  <2> QED BY <2>1, <1>6, OthersKeep DEF Response, timers, connection
<1>7. CASE Reinitialized
  BY <1>7, ReinitializedKeeps
<1>8. CASE NotReinitialized
  BY <1>8, GivenUpKeeps
<1>9. CASE ConnectionLost
  <2>1. PollingTypeOK'
    BY <1>0, <1>9 DEF ConnectionLost, PollingTypeOK, timers, heartbeats
  <2> QED BY <2>1, <1>9, OthersKeep DEF ConnectionLost, timers, heartbeats
<1>10. CASE RegistrationChanges
  <2>1. /\ registered' = (~ registered)
        /\ last_coap_status_connected' \in {now, last_coap_status_connected}
        /\ UNCHANGED <<now, timers, coap_status, ready, waiting, heartbeats, requested>>
    BY <1>10 DEF RegistrationChanges
  <2>2. registered' \in BOOLEAN
    BY <2>1
  <2>3. last_coap_status_connected' \in Nat
    BY <2>1, <1>0 DEF PollingTypeOK
  <2>4. PollingTypeOK'
    BY <1>0, <2>1, <2>2, <2>3 DEF PollingTypeOK, timers, heartbeats
  <2> QED BY <2>1, <2>4, OthersKeep DEF timers, heartbeats
<1>11. CASE Tick
  BY <1>11, TickKeeps
<1>12. CASE UNCHANGED pollingVars
  <2>1. PollingTypeOK'
    BY <1>0, <1>12 DEF pollingVars, PollingTypeOK, timers, connection, heartbeats
  <2> QED BY <2>1, <1>12, OthersKeep DEF pollingVars, timers, heartbeats, connection
<1> QED BY <1>1, <1>2, <1>3, <1>4, <1>5, <1>6, <1>7, <1>8, <1>9, <1>10, <1>11, <1>12 DEF PollingNext

\* After powerModuleOn the timer is armed, and no Heartbeat was sent.
LEMMA PollingStart ==
  ASSUME PollingInit
  PROVE  PollingInv
<1>1. /\ DEFAULT \in Nat /\ DEFAULT >= MINIMUM /\ DEFAULT < WIDTH /\ MINIMUM \in Nat \ {0}
      /\ MaxTime \in Nat /\ MaxTime >= 1
  BY PollingConstants
<1>2. PollingTypeOK
  <2>1. /\ now \in 0 .. MaxTime
        /\ polling_interval \in {0} \cup {i \in Nat : i >= MINIMUM}
        /\ last_polling \in Int /\ next_polling \in Nat /\ last_coap_status_connected \in Nat
        /\ requested \in Nat /\ sent \in Nat /\ counted \in Nat
        /\ last_token \in {0, 1} /\ asked \in {0, 1}
    BY <1>1 DEF PollingInit
  <2>2. registered \in BOOLEAN /\ coap_status \in BOOLEAN /\ ready \in BOOLEAN
    BY DEF PollingInit
  <2>3. /\ waiting \in Frame \cup {None} /\ pending \subseteq 0 .. MaxTime
        /\ answer \in {"none", "awaited", "ACK", "RST"} /\ early \subseteq {"sent", "counted", "backdated"} /\ backdated \in BOOLEAN
    BY DEF PollingInit
  <2> QED BY <2>1, <2>2, <2>3 DEF PollingTypeOK
<1>3. InThePast /\ TimerArmed /\ NotTooFar /\ CountedFrom /\ AutoSpaced
  BY <1>1 DEF PollingInit, InThePast, TimerArmed, NotTooFar, CountedFrom, AutoSpaced
<1>4. FrameRight
  BY DEF PollingInit, FrameRight
<1> QED BY <1>2, <1>3, <1>4 DEF PollingInv

\* The inductive invariant: the time that the next poll is counted from is one that the
\* timers remember (Breakout.cpp, checkForCommands).
THEOREM PollingInvariant ==
  ASSUME NoWrap
  PROVE  PollingSpec => []PollingInv
<1>1. PollingInit => PollingInv
  BY PollingStart
<1>2. PollingInv /\ [PollingNext]_pollingVars => PollingInv'
  BY PollingStep, NoWrap
<1> QED BY <1>1, <1>2, PTL DEF PollingSpec

\* With polling on the timer runs, and its own polls keep the interval from the check
\* that sent the last Heartbeat, whatever is set, lost and reinitialized in between, as
\* long as no Heartbeat that timed out while the device was not registered has put
\* last_polling back to before it, and none was tried since (setPollingInterval,
\* checkForCommands, callback_checkForCommands).
THEOREM TimerKept ==
  ASSUME NoWrap
  PROVE  PollingSpec => []TimerRight
<1>1. PollingInv => TimerRight
  BY DEF PollingInv, TimerRight
<1> QED BY <1>1, PollingInvariant, NoWrap, PTL

\* No failure, postponement or new interval pushes the next poll further away than one
\* interval (checkForCommands, setPollingInterval).
THEOREM NextPollNear ==
  ASSUME NoWrap
  PROVE  PollingSpec => []NotTooFar
<1>1. PollingInv => NotTooFar
  BY DEF PollingInv
<1> QED BY <1>1, PollingInvariant, NoWrap, PTL

=============================================================================
