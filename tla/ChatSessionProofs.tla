---------------------------- MODULE ChatSessionProofs ---------------------------
(***************************************************************************)
(* Proofs about ChatSession, for any channels, messages and number of      *)
(* tasks: the chat uses CoreDataManager as CoreDataManager specifies, so   *)
(* that the theorems about the database hold of the chat as a whole; only  *)
(* the screen that is up listens; messages stay in their channel.          *)
(***************************************************************************)
EXTENDS ChatSession, CoreDataManagerProofs

USE ListAssumption

-----------------------------------------------------------------------------
(* What the steps of the database do to tasks that bring messages.          *)

(* A task of messages after a step is the one it was before, and what it    *)
(* has added to what was pending is of its batch.                          *)
BatchKept(u) ==
  task'[u].kind = "messages" =>
    /\ task[u].kind = "messages"
    /\ task'[u].channel = task[u].channel /\ task'[u].batch = task[u].batch
    /\ context'[u].add \subseteq context[u].add \cup task[u].batch

LEMMA AdvanceBatch ==
  ASSUME TypeOK, NEW t \in Tasks, NEW pc, NEW todo, Advance(t, pc, todo)
  PROVE  \A u \in Tasks : /\ task'[u].kind = task[u].kind
                          /\ task'[u].channel = task[u].channel
                          /\ task'[u].batch = task[u].batch
<1>1. task[t] \in Task
  BY DEF TypeOK
<1>2. /\ task'[t] = [task[t] EXCEPT !.pc = pc, !.todo = todo]
      /\ \A u \in Tasks \ {t} : task'[u] = task[u]
  BY DEF Advance, TypeOK
<1>3. /\ task'[t].kind = task[t].kind /\ task'[t].channel = task[t].channel
      /\ task'[t].batch = task[t].batch
  BY <1>1, <1>2 DEF Task
<1>4. QED
  BY <1>2, <1>3

LEMMA EndWithBatches ==
  ASSUME NEW cause, EndWith(cause)
  PROVE  \A u \in Tasks : BatchKept(u)
BY DEF EndWith, NoTask, BatchKept

LEMMA UpsertChannelBatches ==
  ASSUME TypeOK, NEW t \in Tasks, NEW c \in Channels, UpsertChannel(t, c)
  PROVE  \A u \in Tasks : BatchKept(u)
<1>1. context[t] \in Context
  BY DEF TypeOK
<1>2. context'[t].add = context[t].add
  BY <1>1 DEF UpsertChannel, Context, TypeOK
<1>3. \A u \in Tasks \ {t} : context'[u] = context[u]
  BY DEF UpsertChannel, TypeOK
<1>4. QED
  BY <1>2, <1>3, AdvanceBatch DEF UpsertChannel, BatchKept

LEMMA FetchAllBatches ==
  ASSUME TypeOK, NEW t \in Tasks, FetchAll(t)
  PROVE  \A u \in Tasks : BatchKept(u)
<1>1. context[t] \in Context
  BY DEF TypeOK
<1>2. /\ context'[t].add = context[t].add
      /\ \A u \in Tasks \ {t} : context'[u] = context[u]
  BY <1>1 DEF FetchAll, Context, TypeOK
<1>3. QED
  BY <1>2, AdvanceBatch DEF FetchAll, BatchKept

LEMMA VisitChannelBatches ==
  ASSUME TypeOK, NEW t \in Tasks, NEW c \in Channels, VisitChannel(t, c)
  PROVE  \A u \in Tasks : BatchKept(u)
<1>1. context[t] \in Context
  BY DEF TypeOK
<1>2. /\ context'[t].add = context[t].add
      /\ \A u \in Tasks \ {t} : context'[u] = context[u]
  BY <1>1 DEF VisitChannel, Context, TypeOK
<1>3. \E pc, todo : Advance(t, pc, todo)
  BY DEF VisitChannel
<1>4. QED
  BY <1>2, <1>3, AdvanceBatch DEF BatchKept

LEMMA FetchChannelBatches ==
  ASSUME TypeOK, NEW t \in Tasks, FetchChannel(t)
  PROVE  \A u \in Tasks : BatchKept(u)
<1>1. context[t] \in Context
  BY DEF TypeOK
<1>2. /\ context'[t].add = context[t].add
      /\ \A u \in Tasks \ {t} : context'[u] = context[u]
  BY <1>1 DEF FetchChannel, Context, TypeOK
<1>3. QED
  BY <1>2, AdvanceBatch DEF FetchChannel, BatchKept

LEMMA AddMessagesBatches ==
  ASSUME TypeOK, NEW t \in Tasks, AddMessages(t)
  PROVE  \A u \in Tasks : BatchKept(u)
<1>1. context[t] \in Context
  BY DEF TypeOK
<1>2. /\ context'[t].add = NewMessages(Listed(t), task[t].batch)
      /\ \A u \in Tasks \ {t} : context'[u] = context[u]
  BY <1>1 DEF AddMessages, Context, TypeOK
<1>3. context'[t].add \subseteq task[t].batch
  BY <1>2 DEF NewMessages
<1>4. QED
  BY <1>2, <1>3, AdvanceBatch DEF AddMessages, BatchKept

LEMMA SaveFailsBatches ==
  ASSUME TypeOK, NEW t \in Tasks, SaveFails(t)
  PROVE  \A u \in Tasks : BatchKept(u)
BY SaveFailsEffect DEF SaveFails, BatchKept

LEMMA DisturbedBatches ==
  ASSUME TypeOK, NEW u \in Tasks
  PROVE  /\ Disturbed[u] \in Task /\ Disturbed[u].kind = task[u].kind
         /\ Disturbed[u].channel = task[u].channel /\ Disturbed[u].batch = task[u].batch
<1>1. task[u] \in Task /\ Disturbed[u] = Unclean(task[u])
  BY DEF TypeOK, Disturbed
<1>2. QED
  BY <1>1, UncleanTask

LEMMA FetchFailsBatches ==
  ASSUME TypeOK, NEW t \in Tasks, FetchFails(t)
  PROVE  \A u \in Tasks : BatchKept(u)
<1> DEFINE todo == {c \in task[t].todo : \E d \in task[t].todo : d < c}
<1>1. task' = [Disturbed EXCEPT ![t] = [Disturbed[t] EXCEPT !.pc = "next", !.todo = todo]]
  BY DEF FetchFails
<1>2. Disturbed[t] \in Task /\ Disturbed \in [Tasks -> Task]
  BY DisturbedBatches, DisturbedType
<1> HIDE DEF todo
<1>3. \A u \in Tasks : /\ task'[u].kind = Disturbed[u].kind
                       /\ task'[u].channel = Disturbed[u].channel
                       /\ task'[u].batch = Disturbed[u].batch
  BY <1>1, <1>2 DEF Task
<1>4. QED
  BY <1>3, DisturbedBatches DEF FetchFails, BatchKept

LEMMA FinishBatches ==
  ASSUME TypeOK, NEW t \in Tasks, Finish(t)
  PROVE  \A u \in Tasks : BatchKept(u)
<1>1. task'[t].kind = "none" /\ \A u \in Tasks \ {t} : task'[u] = task[u] /\ context'[u] = context[u]
  BY DEF Finish, TypeOK, NoTask
<1>2. QED
  BY <1>1 DEF BatchKept

LEMMA SaveSucceedsBatches ==
  ASSUME TypeOK, NEW t \in Tasks, SaveSucceeds(t)
  PROVE  \A u \in Tasks : BatchKept(u)
<1>1. \A u \in Tasks : context[u] \in Context
  BY DEF TypeOK
<1>2. context'[t].add = {}
  BY DEF SaveSucceeds, NewContext
<1>3. \A u \in Tasks \ {t} : context'[u].add = context[u].add
  BY <1>1 DEF SaveSucceeds, Context
<1>4. QED
  BY <1>2, <1>3, AdvanceBatch DEF SaveSucceeds, BatchKept

LEMMA WorkBatches ==
  ASSUME TypeOK, NEW t \in Tasks, Work(t)
  PROVE  UNCHANGED <<dbChannels, dbMessages>> /\ \A u \in Tasks : BatchKept(u)
<1>1. ASSUME NEW c \in Channels, UpsertChannel(t, c)
      PROVE  UNCHANGED <<dbChannels, dbMessages>> /\ \A u \in Tasks : BatchKept(u)
  BY <1>1, UpsertChannelBatches DEF UpsertChannel
<1>2. ASSUME NEW c \in Channels, VisitChannel(t, c)
      PROVE  UNCHANGED <<dbChannels, dbMessages>> /\ \A u \in Tasks : BatchKept(u)
  BY <1>2, VisitChannelBatches DEF VisitChannel
<1>3. ASSUME NEW c \in Channels, VisitDeletedChannel(t, c)
      PROVE  UNCHANGED <<dbChannels, dbMessages>> /\ \A u \in Tasks : BatchKept(u)
  BY <1>3, EndWithBatches DEF VisitDeletedChannel, EndWith
<1>4. CASE FetchAll(t)
  BY <1>4, FetchAllBatches DEF FetchAll
<1>5. CASE FetchChannel(t)
  BY <1>5, FetchChannelBatches DEF FetchChannel
<1>6. CASE AddMessages(t)
  BY <1>6, AddMessagesBatches DEF AddMessages
<1>7. CASE AddToMissingChannel(t) \/ AddToDeletedChannel(t) \/ AddUndatedMessage(t)
  BY <1>7, EndWithBatches DEF AddToMissingChannel, AddToDeletedChannel, AddUndatedMessage, EndWith
<1>8. CASE SaveFails(t)
  BY <1>8, SaveFailsBatches DEF SaveFails
<1>9. CASE FetchFails(t)
  BY <1>9, FetchFailsBatches DEF FetchFails
<1>10. CASE Finish(t)
  BY <1>10, FinishBatches DEF Finish
<1>11. QED
  BY <1>1, <1>2, <1>3, <1>4, <1>5, <1>6, <1>7, <1>8, <1>9, <1>10 DEF Work

-----------------------------------------------------------------------------
(* The chat uses CoreDataManager as it is specified.                        *)

ScreenInv == ChatTypeOK /\ LeavingForTheList /\ ConversationRemembered /\ OnlyScreenListens

SessionInv == IInv /\ ScreenInv /\ PendingFromBatch /\ MessagesStayInTheirChannel

(* A listener delivers for the channel that is remembered.                  *)
LEMMA DeliveredInChannel ==
  ASSUME ScreenInv, NEW c \in Channels, DeliverMessages(c)
  PROVE  channelId = c /\ UpdateMessages(c, posted[c]) /\ posted[c] \in SUBSET Messages
<1>1. messageListeners[c] = "due" /\ UpdateMessages(channelId, posted[c])
  BY DEF DeliverMessages
<1>2. screen = c
  BY <1>1 DEF ScreenInv, OnlyScreenListens
<1>3. channelId = c
  BY <1>2 DEF ScreenInv, ConversationRemembered
<1>4. posted[c] \in SUBSET Messages
  BY DEF ScreenInv, ChatTypeOK
<1>5. QED
  BY <1>1, <1>3, <1>4

LEMMA WorldUses ==
  ASSUME World
  PROVE  [Next]_vars
<1>1. ASSUME NEW c \in Channels, NEW v \in Values \cup {None}, ChangeChannel(c, v)
      PROVE  UNCHANGED vars
  BY <1>1 DEF ChangeChannel
<1>2. ASSUME NEW c \in Channels, NEW m \in Messages, PostMessage(c, m)
      PROVE  UNCHANGED vars
  BY <1>2 DEF PostMessage
<1>3. CASE ChannelListenerFails
  BY <1>3 DEF ChannelListenerFails
<1>4. ASSUME NEW c \in Channels, MessageListenerFails(c)
      PROVE  UNCHANGED vars
  BY <1>4 DEF MessageListenerFails
<1>5. CASE KillApp
  BY <1>5 DEF KillApp, Next
<1>6. CASE LaunchApp
  BY <1>6 DEF LaunchApp, Next
<1>7. QED
  BY <1>1, <1>2, <1>3, <1>4, <1>5, <1>6 DEF World

LEMMA UserUses ==
  ASSUME User
  PROVE  UNCHANGED vars
<1>1. ASSUME NEW c \in Channels, \/ \E v \in Values : CreateChannel(c, v)
                                 \/ DeleteChannel(c)
                                 \/ OpenConversation(c)
      PROVE  UNCHANGED vars
  BY <1>1 DEF CreateChannel, DeleteChannel, ChangeChannel, OpenConversation
<1>2. ASSUME NEW m \in Messages, SendMessage(m)
      PROVE  UNCHANGED vars
  BY <1>2 DEF SendMessage, PostMessage
<1>3. CASE GoBack \/ LeaveConversation \/ CancelBack
  BY <1>3 DEF GoBack, LeaveConversation, CancelBack
<1>4. QED
  BY <1>1, <1>2, <1>3 DEF User

LEMMA DeliverUses ==
  ASSUME ScreenInv, Deliver
  PROVE  Next
<1>1. CASE DeliverChannels
  <2>1. UpdateChannels(cloud) /\ cloud \in Snapshots
    BY <1>1 DEF DeliverChannels, ScreenInv, ChatTypeOK
  <2>2. QED
    BY <2>1 DEF Next, Request
<1>2. ASSUME NEW c \in Channels, DeliverMessages(c)
      PROVE  Next
  BY <1>2, DeliveredInChannel DEF Next, Request
<1>3. QED
  BY <1>1, <1>2 DEF Deliver

LEMMA TaskStepUses ==
  ASSUME NEW t \in Tasks, TaskStep(t)
  PROVE  [Next]_vars
<1>1. CASE WorkOfTask(t)
  BY <1>1 DEF WorkOfTask, Next, Step
<1>2. CASE SaveOfTask(t)
  BY <1>2 DEF SaveOfTask, Next, Step
<1>3. CASE UpdateData(t)
  BY <1>3 DEF UpdateData
<1>4. QED
  BY <1>1, <1>2, <1>3 DEF TaskStep

LEMMA ChatStepUses ==
  ASSUME ScreenInv, [ChatNext]_allVars
  PROVE  [Next]_vars
BY WorldUses, UserUses, DeliverUses, TaskStepUses DEF ChatNext, allVars

-----------------------------------------------------------------------------
(* Who listens.                                                             *)

LEMMA ScreensAtFirst ==
  ASSUME ChatInit
  PROVE  ScreenInv
<1>1. ChatTypeOK
  BY DEF ChatInit, ChatTypeOK
<1>2. QED
  BY <1>1 DEF ChatInit, ScreenInv, LeavingForTheList, ConversationRemembered, OnlyScreenListens

(* The list stops listening.                                                *)
LEMMA ListStopsListening ==
  ASSUME ScreenInv, screen = List, ListWillDisappear
  PROVE  channelListeners' = 0 /\ channelsDue' \in BOOLEAN
<1>1. channelListeners \in Nat /\ channelListeners <= 1 /\ channelsDue \in BOOLEAN
  BY DEF ScreenInv, OnlyScreenListens, ChatTypeOK
<1>2. CASE channelListeners = 0
  BY <1>1, <1>2 DEF ListWillDisappear
<1>3. CASE channelListeners # 0
  <2>1. channelListeners' = channelListeners - 1 /\ channelsDue' = FALSE
    BY <1>3 DEF ListWillDisappear
  <2>2. channelListeners' = 0
    BY <1>1, <1>3, <2>1
  <2>3. QED
    BY <2>1, <2>2
<1>4. QED
  BY <1>2, <1>3

(* Steps that leave listeners and screens alone.                            *)
LEMMA ScreensLeftAlone ==
  ASSUME ScreenInv, ChatTypeOK',
         channelListeners' \in {0, channelListeners},
         \A c \in Channels : messageListeners[c] = "off" => messageListeners'[c] = "off",
         UNCHANGED <<listener, channelId, screenVars>>
  PROVE  ScreenInv'
<1>1. LeavingForTheList' /\ ConversationRemembered'
  BY DEF ScreenInv, LeavingForTheList, ConversationRemembered, screenVars
<1>2. channelListeners' <= (IF screen' = List THEN 1 ELSE 0)
  BY DEF ScreenInv, ChatTypeOK, OnlyScreenListens, screenVars
<1>3. \A c \in Channels : messageListeners'[c] # "off" => screen' = c
  BY DEF ScreenInv, OnlyScreenListens, screenVars
<1>4. QED
  BY <1>1, <1>2, <1>3 DEF ScreenInv, OnlyScreenListens

LEMMA ChangeChannelScreens ==
  ASSUME ScreenInv, NEW c \in Channels, NEW v \in Values \cup {None}, ChangeChannel(c, v)
  PROVE  ScreenInv'
<1>1. cloud' \in Snapshots /\ channelsDue' \in BOOLEAN
  BY DEF ChangeChannel, ScreenInv, ChatTypeOK, Snapshots
<1>2. ChatTypeOK'
  BY <1>1 DEF ChangeChannel, ScreenInv, ChatTypeOK, screenVars, fetchedVars
<1>3. QED
  BY <1>2, ScreensLeftAlone DEF ChangeChannel

LEMMA PostMessageScreens ==
  ASSUME ScreenInv, NEW c \in Channels, NEW m \in Messages, PostMessage(c, m)
  PROVE  ScreenInv'
<1>1. posted' \in [Channels -> SUBSET Messages]
  BY DEF PostMessage, ScreenInv, ChatTypeOK
<1>2. /\ messageListeners' \in [Channels -> {"off", "waiting", "due"}]
      /\ \A d \in Channels : messageListeners[d] = "off" => messageListeners'[d] = "off"
  BY DEF PostMessage, ScreenInv, ChatTypeOK
<1>3. ChatTypeOK'
  BY <1>1, <1>2 DEF PostMessage, ScreenInv, ChatTypeOK, screenVars, fetchedVars
<1>4. QED
  BY <1>2, <1>3, ScreensLeftAlone DEF PostMessage

LEMMA DeliverScreens ==
  ASSUME ScreenInv, Deliver
  PROVE  ScreenInv'
<1>1. CASE DeliverChannels
  <2>1. ChatTypeOK'
    BY <1>1 DEF DeliverChannels, ScreenInv, ChatTypeOK, cloudVars, screenVars, fetchedVars
  <2>2. QED
    BY <1>1, <2>1, ScreensLeftAlone DEF DeliverChannels
<1>2. ASSUME NEW c \in Channels, DeliverMessages(c)
      PROVE  ScreenInv'
  <2>1. /\ messageListeners[c] = "due"
        /\ messageListeners' = [messageListeners EXCEPT ![c] = "waiting"]
    BY <1>2 DEF DeliverMessages
  <2>2. /\ messageListeners' \in [Channels -> {"off", "waiting", "due"}]
        /\ \A d \in Channels : messageListeners[d] = "off" => messageListeners'[d] = "off"
    BY <2>1 DEF ScreenInv, ChatTypeOK
  <2>3. ChatTypeOK'
    BY <1>2, <2>2 DEF DeliverMessages, ScreenInv, ChatTypeOK, cloudVars, screenVars, fetchedVars
  <2>4. QED
    BY <1>2, <2>2, <2>3, ScreensLeftAlone DEF DeliverMessages
<1>3. QED
  BY <1>1, <1>2 DEF Deliver

LEMMA FailsScreens ==
  ASSUME ScreenInv, ChannelListenerFails \/ \E c \in Channels : MessageListenerFails(c)
  PROVE  ScreenInv'
<1>1. CASE ChannelListenerFails
  <2>1. channelListeners' = 0
    BY <1>1 DEF ChannelListenerFails, ScreenInv, OnlyScreenListens, ChatTypeOK
  <2>2. channelsDue' \in BOOLEAN
    BY <1>1 DEF ChannelListenerFails
  <2>3. ChatTypeOK'
    BY <1>1, <2>1, <2>2 DEF ChannelListenerFails, ScreenInv, ChatTypeOK, cloudVars, screenVars, fetchedVars
  <2>4. QED
    BY <1>1, <2>1, <2>3, ScreensLeftAlone DEF ChannelListenerFails
<1>2. ASSUME NEW c \in Channels, MessageListenerFails(c)
      PROVE  ScreenInv'
  <2>1. messageListeners' = [messageListeners EXCEPT ![c] = "off"]
    BY <1>2 DEF MessageListenerFails
  <2>2. /\ messageListeners' \in [Channels -> {"off", "waiting", "due"}]
        /\ \A d \in Channels : messageListeners[d] = "off" => messageListeners'[d] = "off"
    BY <2>1 DEF ScreenInv, ChatTypeOK
  <2>3. ChatTypeOK'
    BY <1>2, <2>2 DEF MessageListenerFails, ScreenInv, ChatTypeOK, cloudVars, screenVars, fetchedVars
  <2>4. QED
    BY <1>2, <2>2, <2>3, ScreensLeftAlone DEF MessageListenerFails
<1>3. QED
  BY <1>1, <1>2

LEMMA OpenConversationScreens ==
  ASSUME ScreenInv, NEW c \in Channels, OpenConversation(c)
  PROVE  ScreenInv'
<1>1. /\ screen = List /\ leaving = None /\ leaving' = leaving
      /\ UNCHANGED <<cloudVars, reporting, listed>>
      /\ shown' = Stored(c)
      /\ channelId' = c /\ listener' = c /\ screen' = c /\ databaseUpdater' = c
      /\ messageListeners' = [messageListeners EXCEPT ![c] = "due"]
      /\ ListWillDisappear
  BY DEF OpenConversation, ConversationWillAppear, startFetchingMessages, PerformFetchingMessages
<1>2. channelListeners' = 0 /\ channelsDue' \in BOOLEAN
  BY <1>1, ListStopsListening
<1>3. /\ messageListeners' \in [Channels -> {"off", "waiting", "due"}]
      /\ \A d \in Channels : messageListeners'[d] # "off" => d = c
  BY <1>1 DEF ScreenInv, OnlyScreenListens, ChatTypeOK
<1>4. Stored(c) \subseteq Messages
  BY DEF Stored
<1>5. ChatTypeOK'
  BY <1>1, <1>2, <1>3, <1>4 DEF ScreenInv, ChatTypeOK, cloudVars
<1>6. LeavingForTheList' /\ ConversationRemembered'
  BY <1>1 DEF LeavingForTheList, ConversationRemembered
<1>7. OnlyScreenListens'
  BY <1>1, <1>2, <1>3 DEF OnlyScreenListens
<1>8. QED
  BY <1>5, <1>6, <1>7 DEF ScreenInv

LEMMA GoBackScreens ==
  ASSUME ScreenInv, GoBack
  PROVE  ScreenInv'
<1>1. /\ screen \in Channels /\ leaving' = screen
      /\ UNCHANGED <<cloudVars, reporting, fetchedVars, listener, channelId>>
      /\ messageListeners' = [c \in Channels |-> IF c = listener THEN "off" ELSE messageListeners[c]]
      /\ channelListeners' = channelListeners + 1 /\ channelsDue' = TRUE
      /\ databaseUpdater' = List /\ screen' = List
  BY DEF GoBack, ConversationWillDisappear, ListWillAppear, startFetchingChannels
<1>2. channelListeners' = 1
  BY <1>1 DEF ScreenInv, OnlyScreenListens, ChatTypeOK
<1>3. \A c \in Channels : messageListeners'[c] = "off"
  BY <1>1 DEF ScreenInv, OnlyScreenListens, ConversationRemembered
<1>4. ChatTypeOK'
  BY <1>1, <1>2 DEF ScreenInv, ChatTypeOK, cloudVars, fetchedVars
<1>5. LeavingForTheList' /\ ConversationRemembered'
  BY <1>1 DEF LeavingForTheList, ConversationRemembered
<1>6. OnlyScreenListens'
  BY <1>1, <1>2, <1>3 DEF OnlyScreenListens
<1>7. QED
  BY <1>4, <1>5, <1>6 DEF ScreenInv

LEMMA LeaveConversationScreens ==
  ASSUME ScreenInv, LeaveConversation
  PROVE  ScreenInv'
<1>1. ChatTypeOK'
  BY DEF LeaveConversation, ScreenInv, ChatTypeOK, cloudVars, listenerVars
<1>2. LeavingForTheList' /\ ConversationRemembered' /\ OnlyScreenListens'
  BY DEF LeaveConversation, ScreenInv, LeavingForTheList, ConversationRemembered,
         OnlyScreenListens, listenerVars
<1>3. QED
  BY <1>1, <1>2 DEF ScreenInv

LEMMA CancelBackScreens ==
  ASSUME ScreenInv, CancelBack
  PROVE  ScreenInv'
<1>1. /\ leaving # None /\ leaving' = None
      /\ UNCHANGED <<cloudVars, reporting, fetchedVars>>
      /\ channelId' = leaving /\ listener' = leaving /\ screen' = leaving
      /\ databaseUpdater' = leaving
      /\ messageListeners' = [messageListeners EXCEPT ![leaving] = "due"]
      /\ ListWillDisappear
  BY DEF CancelBack, ConversationWillAppear, startFetchingMessages
<1>2. leaving \in Channels /\ screen = List
  BY <1>1 DEF ScreenInv, ChatTypeOK, LeavingForTheList
<1>3. channelListeners' = 0 /\ channelsDue' \in BOOLEAN
  BY <1>1, <1>2, ListStopsListening
<1>4. /\ messageListeners' \in [Channels -> {"off", "waiting", "due"}]
      /\ \A d \in Channels : messageListeners'[d] # "off" => d = leaving
  BY <1>1, <1>2 DEF ScreenInv, OnlyScreenListens, ChatTypeOK
<1>5. ChatTypeOK'
  BY <1>1, <1>2, <1>3, <1>4 DEF ScreenInv, ChatTypeOK, cloudVars, fetchedVars
<1>6. LeavingForTheList' /\ ConversationRemembered'
  BY <1>1 DEF LeavingForTheList, ConversationRemembered
<1>7. OnlyScreenListens'
  BY <1>1, <1>2, <1>3, <1>4 DEF OnlyScreenListens
<1>8. QED
  BY <1>5, <1>6, <1>7 DEF ScreenInv

LEMMA TaskStepScreens ==
  ASSUME ScreenInv, NEW t \in Tasks, TaskStep(t)
  PROVE  ScreenInv'
<1>1. CASE WorkOfTask(t)
  BY <1>1 DEF WorkOfTask, chatVars, cloudVars, listenerVars, screenVars, fetchedVars, ScreenInv,
     ChatTypeOK, LeavingForTheList, ConversationRemembered, OnlyScreenListens
<1>2. CASE SaveOfTask(t)
  <2>1. ChatTypeOK'
    BY <1>2 DEF SaveOfTask, cloudVars, listenerVars, screenVars, fetchedVars, ScreenInv, ChatTypeOK
  <2>2. QED
    BY <1>2, <2>1, ScreensLeftAlone DEF SaveOfTask, listenerVars
<1>3. CASE UpdateData(t)
  <2>1. /\ reporting' = reporting \ {t}
        /\ UNCHANGED <<cloudVars, listenerVars, screenVars>>
        /\ \/ listed' = Rows /\ shown' = shown
           \/ listed' = listed /\ shown' = Stored(databaseUpdater)
    BY <1>3 DEF UpdateData, PerformFetchingChannels, PerformFetchingMessages
  <2>2. Rows \subseteq Channels /\ \A c : Stored(c) \subseteq Messages
    BY DEF Rows, Stored
  <2>3. ChatTypeOK'
    BY <2>1, <2>2 DEF cloudVars, listenerVars, screenVars, ScreenInv, ChatTypeOK
  <2>4. QED
    BY <2>1, <2>3, ScreensLeftAlone DEF listenerVars
<1>4. QED
  BY <1>1, <1>2, <1>3 DEF TaskStep

LEMMA LaunchAppScreens ==
  ASSUME ScreenInv, LaunchApp
  PROVE  ScreenInv'
<1>1. /\ UNCHANGED cloudVars
      /\ channelListeners' = 1 /\ channelsDue' = TRUE
      /\ messageListeners' = [c \in Channels |-> "off"]
      /\ listener' = None /\ channelId' = None
      /\ screen' = List /\ leaving' = None /\ databaseUpdater' = List
      /\ reporting' = {} /\ listed' = Rows /\ shown' = {}
  BY DEF LaunchApp, NewProcess
<1>2. Rows \subseteq Channels
  BY DEF Rows
<1>3. ChatTypeOK'
  BY <1>1, <1>2 DEF ScreenInv, ChatTypeOK, cloudVars
<1>4. QED
  BY <1>1, <1>3 DEF ScreenInv, LeavingForTheList, ConversationRemembered, OnlyScreenListens

LEMMA WorldScreens ==
  ASSUME ScreenInv, World
  PROVE  ScreenInv'
<1>1. CASE KillApp
  BY <1>1 DEF KillApp, chatVars, cloudVars, listenerVars, screenVars, fetchedVars, ScreenInv,
     ChatTypeOK, LeavingForTheList, ConversationRemembered, OnlyScreenListens
<1>2. QED
  BY <1>1, ChangeChannelScreens, PostMessageScreens, FailsScreens, LaunchAppScreens DEF World

LEMMA UserScreens ==
  ASSUME ScreenInv, User
  PROVE  ScreenInv'
<1>1. ASSUME NEW c \in Channels, NEW v \in Values, CreateChannel(c, v)
      PROVE  ScreenInv'
  BY <1>1, ChangeChannelScreens DEF CreateChannel
<1>2. ASSUME NEW c \in Channels, DeleteChannel(c)
      PROVE  ScreenInv'
  BY <1>2, ChangeChannelScreens DEF DeleteChannel
<1>3. ASSUME NEW m \in Messages, SendMessage(m)
      PROVE  ScreenInv'
  <2>1. screen \in Channels /\ PostMessage(channelId, m)
    BY <1>3 DEF SendMessage
  <2>2. channelId \in Channels
    BY <2>1 DEF ScreenInv, ConversationRemembered
  <2>3. QED
    BY <2>1, <2>2, PostMessageScreens
<1>4. QED
  BY <1>1, <1>2, <1>3, OpenConversationScreens, GoBackScreens, LeaveConversationScreens,
     CancelBackScreens DEF User

LEMMA ScreensInv ==
  ASSUME ScreenInv, [ChatNext]_allVars
  PROVE  ScreenInv'
<1>1. CASE UNCHANGED allVars
  BY <1>1 DEF allVars, chatVars, cloudVars, listenerVars, screenVars, fetchedVars, ScreenInv,
     ChatTypeOK, LeavingForTheList, ConversationRemembered, OnlyScreenListens
<1>2. QED
  BY <1>1, WorldScreens, UserScreens, DeliverScreens, TaskStepScreens DEF ChatNext

-----------------------------------------------------------------------------
(* Where messages go.                                                       *)

(* Nothing that was posted is taken back.                                   *)
LEMMA PostedGrows ==
  ASSUME ScreenInv, [ChatNext]_allVars
  PROVE  \A c \in Channels : posted[c] \subseteq posted'[c]
<1>1. ASSUME NEW c \in Channels, NEW m \in Messages, PostMessage(c, m)
      PROVE  \A d \in Channels : posted[d] \subseteq posted'[d]
  BY <1>1 DEF PostMessage, ScreenInv, ChatTypeOK
<1>2. ASSUME NEW m \in Messages, SendMessage(m)
      PROVE  \A d \in Channels : posted[d] \subseteq posted'[d]
  <2>1. channelId \in Channels /\ PostMessage(channelId, m)
    BY <1>2 DEF SendMessage, ScreenInv, ConversationRemembered
  <2>2. QED
    BY <2>1, <1>1
<1>3. CASE World
  <2>1. CASE LaunchApp \/ KillApp
    BY <2>1 DEF LaunchApp, KillApp, cloudVars, chatVars
  <2>2. QED
    BY <1>1, <1>3, <2>1 DEF World, ChangeChannel, ChannelListenerFails, MessageListenerFails, cloudVars
<1>4. CASE User
  BY <1>2, <1>4 DEF User, CreateChannel, DeleteChannel, ChangeChannel, OpenConversation, GoBack,
     LeaveConversation, CancelBack, cloudVars
<1>5. CASE Deliver
  BY <1>5 DEF Deliver, DeliverChannels, DeliverMessages, cloudVars
<1>6. ASSUME NEW t \in Tasks, TaskStep(t)
      PROVE  \A d \in Channels : posted[d] \subseteq posted'[d]
  BY <1>6 DEF TaskStep, WorkOfTask, SaveOfTask, UpdateData, chatVars, cloudVars
<1>7. CASE UNCHANGED allVars
  BY <1>7 DEF allVars, chatVars, cloudVars
<1>8. QED
  BY <1>3, <1>4, <1>5, <1>6, <1>7 DEF ChatNext

(* Steps that keep the tasks of messages as they are.                       *)
LEMMA KeptBatchesStay ==
  ASSUME SessionInv, \A c \in Channels : posted[c] \subseteq posted'[c],
         \A c \in Channels : Stored(c)' \subseteq posted[c],
         \A u \in Tasks : BatchKept(u)
  PROVE  PendingFromBatch' /\ MessagesStayInTheirChannel'
<1>1. PendingFromBatch /\ MessagesStayInTheirChannel /\ PendingFromArguments
  BY DEF SessionInv, IInv
<1>2. PendingFromBatch'
  BY <1>1 DEF PendingFromBatch, BatchKept
<1>3. \A u \in Tasks : task'[u].kind = "messages" =>
                         task'[u].batch \subseteq posted'[task'[u].channel]
  BY <1>1 DEF BatchKept, MessagesStayInTheirChannel, PendingFromArguments
<1>4. QED
  BY <1>2, <1>3 DEF MessagesStayInTheirChannel

(* A request: new tasks have nothing pending, and a batch that was posted.  *)
LEMMA NewBatchesStay ==
  ASSUME SessionInv, UNCHANGED <<dbMessages, context, posted>>,
         \A u \in Tasks : task'[u].kind = "messages" =>
           \/ /\ task[u].kind = "messages"
              /\ task'[u].channel = task[u].channel /\ task'[u].batch = task[u].batch
           \/ /\ Idle(u)
              /\ task'[u].batch \subseteq posted[task'[u].channel]
  PROVE  PendingFromBatch' /\ MessagesStayInTheirChannel'
<1>1. PendingFromBatch /\ MessagesStayInTheirChannel /\ PendingByKind
  BY DEF SessionInv, IInv
<1>2. PendingFromBatch'
  BY <1>1 DEF PendingFromBatch, PendingByKind, Idle
<1>3. \A c \in Channels : Stored(c)' \subseteq posted'[c]
  BY <1>1 DEF MessagesStayInTheirChannel, Stored
<1>4. QED
  BY <1>1, <1>2, <1>3 DEF MessagesStayInTheirChannel

LEMMA UpdateChannelsStays ==
  ASSUME SessionInv, DeliverChannels
  PROVE  PendingFromBatch' /\ MessagesStayInTheirChannel'
<1>1. UpdateChannels(cloud) /\ UNCHANGED <<posted, dbMessages, context>>
  BY DEF DeliverChannels, UpdateChannels, cloudVars
<1>2. PICK u \in Tasks, d \in Tasks :
        /\ u # d
        /\ task' = [Disturbed EXCEPT
              ![u] = [NoTask EXCEPT !.kind = "upsert", !.pc = "next", !.snap = cloud,
                                    !.todo = {c \in Channels : cloud[c] # None},
                                    !.clean = Quiet, !.before = Before],
              ![d] = [NoTask EXCEPT !.kind = "delete", !.snap = cloud,
                                    !.clean = Quiet, !.before = Before]]
  BY <1>1 DEF UpdateChannels
<1>3. TypeOK
  BY DEF SessionInv, IInv
<1>4. task'[u].kind = "upsert" /\ task'[d].kind = "delete"
  BY <1>2, <1>3, DisturbedType DEF NoTask
<1>5. \A x \in Tasks \ {u, d} : task'[x] = Disturbed[x]
  BY <1>2, <1>3, DisturbedType
<1>6. \A x \in Tasks : task'[x].kind = "messages" =>
        /\ task[x].kind = "messages"
        /\ task'[x].channel = task[x].channel /\ task'[x].batch = task[x].batch
  BY <1>3, <1>4, <1>5, DisturbedBatches
<1>7. QED
  BY <1>1, <1>6, NewBatchesStay

LEMMA UpdateMessagesStays ==
  ASSUME SessionInv, NEW c \in Channels, DeliverMessages(c)
  PROVE  PendingFromBatch' /\ MessagesStayInTheirChannel'
<1>1. UpdateMessages(c, posted[c]) /\ UNCHANGED posted
  BY DeliveredInChannel DEF SessionInv, DeliverMessages, cloudVars
<1>2. PICK t \in Tasks :
        /\ Idle(t)
        /\ task' = [Disturbed EXCEPT
              ![t] = [NoTask EXCEPT !.kind = "messages", !.channel = c,
                                    !.batch = posted[c], !.clean = Quiet]]
        /\ UNCHANGED <<dbMessages, context>>
  BY <1>1 DEF UpdateMessages
<1>3. TypeOK
  BY DEF SessionInv, IInv
<1>4. task'[t].channel = c /\ task'[t].batch = posted[c]
  BY <1>2, <1>3, DisturbedType DEF NoTask
<1>5. \A x \in Tasks \ {t} : task'[x] = Disturbed[x]
  BY <1>2, <1>3, DisturbedType
<1>6. \A x \in Tasks : task'[x].kind = "messages" =>
           \/ /\ task[x].kind = "messages"
              /\ task'[x].channel = task[x].channel /\ task'[x].batch = task[x].batch
           \/ /\ Idle(x)
              /\ task'[x].batch \subseteq posted[task'[x].channel]
  BY <1>2, <1>3, <1>4, <1>5, DisturbedBatches
<1>7. QED
  BY <1>1, <1>2, <1>6, NewBatchesStay

LEMMA SaveStays ==
  ASSUME SessionInv, NEW t \in Tasks, SaveOfTask(t)
  PROVE  PendingFromBatch' /\ MessagesStayInTheirChannel'
<1>1. SaveSucceeds(t) /\ UNCHANGED posted
  BY DEF SaveOfTask, cloudVars
<1>2. /\ IInv /\ TypeOK /\ PendingByKind /\ PendingFromBatch /\ MessagesStayInTheirChannel
  BY DEF SessionInv, IInv
<1>3. \A u \in Tasks : BatchKept(u)
  BY <1>1, <1>2, SaveSucceedsBatches
<1>4. \A c \in Grown(t) : context[t].add \subseteq posted[c]
  <2> SUFFICES ASSUME context[t].add # {}
               PROVE  context[t].add \subseteq posted[task[t].channel]
    BY DEF Grown
  <2>1. task[t].kind = "messages"
    BY <1>2 DEF PendingByKind
  <2>2. QED
    BY <1>2, <2>1 DEF PendingFromBatch, MessagesStayInTheirChannel
<1>5. \A c \in Channels : Stored(c)' \subseteq posted[c]
  BY <1>1, <1>2, <1>4, SaveEffect DEF MessagesStayInTheirChannel
<1>6. QED
  BY <1>1, <1>3, <1>5, KeptBatchesStay

(* All other steps of the chat.                                             *)
LEMMA OtherStepsStay ==
  ASSUME SessionInv, [ChatNext]_allVars,
         UNCHANGED dbMessages, \A u \in Tasks : BatchKept(u)
  PROVE  PendingFromBatch' /\ MessagesStayInTheirChannel'
<1>1. \A c \in Channels : posted[c] \subseteq posted'[c]
  BY PostedGrows DEF SessionInv
<1>2. \A c \in Channels : Stored(c)' \subseteq posted[c]
  BY DEF SessionInv, MessagesStayInTheirChannel, Stored
<1>3. QED
  BY <1>1, <1>2, KeptBatchesStay

LEMMA MessagesStay ==
  ASSUME SessionInv, [ChatNext]_allVars
  PROVE  PendingFromBatch' /\ MessagesStayInTheirChannel'
<1>1. TypeOK
  BY DEF SessionInv, IInv
<1>2. CASE UNCHANGED vars
  <2>1. \A u \in Tasks : BatchKept(u)
    BY <1>2 DEF vars, BatchKept
  <2>2. QED
    BY <1>2, <2>1, OtherStepsStay DEF vars
<1>3. CASE KillApp \/ LaunchApp
  <2>1. (\A u \in Tasks : BatchKept(u)) /\ UNCHANGED dbMessages
    <3>1. CASE KillApp
      BY <3>1, EndWithBatches DEF KillApp, Kill, EndWith
    <3>2. CASE LaunchApp
      BY <3>2 DEF LaunchApp, Launch, BatchKept
    <3>3. QED
      BY <1>3, <3>1, <3>2
  <2>2. QED
    BY <2>1, OtherStepsStay
<1>4. CASE Deliver
  BY <1>4, UpdateChannelsStays, UpdateMessagesStays DEF Deliver
<1>5. ASSUME NEW t \in Tasks, WorkOfTask(t)
      PROVE  PendingFromBatch' /\ MessagesStayInTheirChannel'
  <2>1. (\A u \in Tasks : BatchKept(u)) /\ UNCHANGED dbMessages
    BY <1>1, <1>5, WorkBatches DEF WorkOfTask
  <2>2. QED
    BY <2>1, OtherStepsStay
<1>6. CASE World
  <2>1. UNCHANGED vars \/ KillApp \/ LaunchApp
    BY <1>6 DEF World, ChangeChannel, PostMessage, ChannelListenerFails, MessageListenerFails
  <2>2. QED
    BY <1>2, <1>3, <2>1
<1>7. ASSUME NEW t \in Tasks, UpdateData(t)
      PROVE  UNCHANGED vars
  BY <1>7 DEF UpdateData
<1>8. CASE UNCHANGED allVars
  BY <1>2, <1>8 DEF allVars
<1>9. QED
  BY <1>2, <1>4, <1>5, <1>6, <1>7, <1>8, UserUses, SaveStays DEF ChatNext, TaskStep

LEMMA SessionInit == ChatInit => SessionInv
<1> SUFFICES ASSUME ChatInit
             PROVE  SessionInv
  OBVIOUS
<1>1. IInv /\ ScreenInv
  BY InitInv, ScreensAtFirst DEF ChatInit
<1>2. /\ \A c \in Channels : Stored(c) = {}
      /\ \A t \in Tasks : task[t].kind = "none"
  BY DEF ChatInit, Init, Stored, NoTask
<1>3. PendingFromBatch /\ MessagesStayInTheirChannel
  BY <1>2 DEF PendingFromBatch, MessagesStayInTheirChannel
<1>4. QED
  BY <1>1, <1>3 DEF SessionInv

LEMMA SessionNext == SessionInv /\ [ChatNext]_allVars => SessionInv'
<1> SUFFICES ASSUME SessionInv, [ChatNext]_allVars
             PROVE  SessionInv'
  OBVIOUS
<1>1. IInv'
  BY ChatStepUses, NextInv DEF SessionInv
<1>2. ScreenInv'
  BY ScreensInv DEF SessionInv
<1>3. QED
  BY <1>1, <1>2, MessagesStay DEF SessionInv

LEMMA Session == ChatSpec => []SessionInv
BY SessionInit, SessionNext, PTL DEF ChatSpec

-----------------------------------------------------------------------------
(* The results.                                                             *)

(* Types, and what the screens remember: a conversation on screen is the    *)
(* one ChatService and FirestoreManager remember, and what a task has      *)
(* pending is of the batch that the listener brought.                      *)
THEOREM ChatInvariant == ChatSpec => []ChatInv
<1>1. SessionInv => ChatInv
  BY DEF SessionInv, ScreenInv, ChatInv
<1>2. QED
  BY <1>1, Session, PTL

(* No listener outlives its screen: viewWillDisappear removes the one that  *)
(* viewWillAppear added, through swipes that are cancelled, listeners that *)
(* fail and new processes.                                                 *)
THEOREM ScreenListensAlone == ChatSpec => []OnlyScreenListens
<1>1. SessionInv => OnlyScreenListens
  BY DEF SessionInv, ScreenInv
<1>2. QED
  BY <1>1, Session, PTL

(* updateDatabase(with: messages) pairs documents with the channel that     *)
(* ChatService remembers, and a task stores them later: they are stored in *)
(* the channel they were posted to, or not at all.                         *)
THEOREM MessagesInTheirChannel == ChatSpec => []MessagesStayInTheirChannel
<1>1. SessionInv => MessagesStayInTheirChannel
  BY DEF SessionInv
<1>2. QED
  BY <1>1, Session, PTL

(* The chat calls CoreDataManager as its specification has it: each step of *)
(* the chat is one of the database or none, so that what is proved of the  *)
(* database holds of the chat.                                             *)
THEOREM ChatUsesCoreData == ChatSpec => Spec
<1>1. ChatInit => Init
  BY DEF ChatInit
<1>2. SessionInv /\ [ChatNext]_allVars => [Next]_vars
  BY ChatStepUses DEF SessionInv
<1>3. QED
  BY <1>1, <1>2, Session, PTL DEF ChatSpec, Spec

(* ... such as that the database of the chat implements the abstract        *)
(* replica.                                                                *)
THEOREM ChatImplementsReplica == ChatSpec => ImplementsReplica
BY ChatUsesCoreData, Implements, PTL

(* A request of the list that met no other and no I/O error leaves what its *)
(* snapshot and the rows there were determine; of a batch that met none    *)
(* the new messages are stored, or none if a stamp is missing or taken; and *)
(* rows lose their identifier under a delete task only by requests that    *)
(* overlap, whatever the screens and the listeners do meanwhile.           *)
THEOREM ChatRequestsAlone ==
  ChatSpec => ConvergesAlone /\ MessagesCompleteAlone /\ IdentifiersLostByOverlapOnly
BY ChatUsesCoreData, RequestConverges, BatchIsComplete, IdentifiersSafeAlone, PTL

(* Every background task of the chat gets nearer to its end with each of    *)
(* its steps, and listeners that post more do not hold it up.              *)
THEOREM ChatTasksNeverGrow == ChatSpec => TasksShorten
BY ChatUsesCoreData, TasksNeverGrow, PTL

-----------------------------------------------------------------------------
(* Why the screens come to show the database: what brings their rows is not *)
(* lost but by a save of another task, and that is reported.               *)

(* The saves that nothing refuses.                                          *)
LEMMA MessagesSaved ==
  ASSUME SessionInv, NEW t \in Tasks, NEW c \in Channels, WillBringMessages(t, c),
         task[t].pc = "save", WellFormed(c, posted[c])
  PROVE  MustSave(t)
<1> DEFINE add == context[t].add
<1>1. /\ task[t].kind = "messages" /\ task[t].channel = c /\ context[t].row[c] = "current"
  BY DEF WillBringMessages
<1>2. context[t].ins = {} /\ context[t].upd = {} /\ context[t].del = {}
  BY <1>1 DEF SessionInv, IInv, PendingByKind
<1>3. add \subseteq posted[c] /\ posted[c] \subseteq Messages /\ Stored(c) \subseteq Messages
  BY <1>1 DEF SessionInv, PendingFromBatch, MessagesStayInTheirChannel, ScreenInv, ChatTypeOK, Stored
<1>4. \A m \in add : \A n \in Stored(c) : Created[m] > Created[n]
  BY <1>1 DEF SessionInv, IInv, PendingMessagesNewer
<1>5. \A m \in Messages : Created[m] \in Nat
  BY CreatedAssumption
<1>6. UniqueCreated(t)
  <2> SUFFICES ASSUME NEW m \in add
               PROVE  /\ \A n \in add : Created[m] = Created[n] => m = n
                      /\ \A d \in Channels : \A n \in Stored(d) : Created[m] # Created[n]
    BY DEF UniqueCreated
  <2>1. \A n \in Stored(c) : Created[m] # Created[n]
    BY <1>3, <1>4, <1>5
  <2>2. QED
    BY <1>3, <2>1 DEF WellFormed
<1>7. Complete(t)
  BY <1>2, <1>3 DEF Complete, WellFormed
<1>8. QED
  BY <1>1, <1>2, <1>6, <1>7 DEF MustSave, MaySave, UniqueIdentifiers, Unconflicted, Deletable

LEMMA ChannelsSaved ==
  ASSUME SessionInv, NEW t \in Tasks, WillBringChannels(t)
  PROVE  MustSave(t)
<1>1. context[t].del = {} /\ context[t].add = {}
  BY DEF SessionInv, IInv, PendingByKind, WillBringChannels
<1>2. context[t].ins \subseteq Channels /\ context[t].upd \subseteq Channels
  BY DEF SessionInv, IInv, TypeOK, Context
<1>3. QED
  BY <1>1, <1>2 DEF MustSave, MaySave, Complete, UniqueIdentifiers, UniqueCreated,
     Unconflicted, Deletable, AllNamed, WillBringChannels

(* A task and its context are as they were, as far as that matters.         *)
Untouched(u) ==
  /\ task'[u].kind = task[u].kind /\ task'[u].pc = task[u].pc
  /\ task'[u].snap = task[u].snap /\ task'[u].channel = task[u].channel
  /\ task'[u].todo = task[u].todo
  /\ context'[u] = context[u]

LEMMA UntouchedWillBring ==
  ASSUME NEW u \in Tasks, Untouched(u), UNCHANGED dbChannels
  PROVE  /\ WillBringChannels(u) => WillBringChannels(u)'
         /\ \A c \in Channels : WillBringMessages(u, c) => WillBringMessages(u, c)'
BY DEF Untouched, WillBringChannels, WillBringMessages, AllNamed, Rows

(* What one task does without a save leaves the others alone, unless it     *)
(* ends the process.                                                       *)
LEMMA OthersUntouched ==
  ASSUME TypeOK, NEW t \in Tasks, Work(t), ~FetchFails(t), app' = "running"
  PROVE  UNCHANGED <<dbChannels, dbMessages>> /\ \A u \in Tasks \ {t} : Untouched(u)
<1>1. ASSUME NEW pc, NEW todo, Advance(t, pc, todo)
      PROVE  \A u \in Tasks \ {t} : task'[u] = task[u]
  BY <1>1, AdvanceEffect
<1>2. ASSUME NEW x, context' = [context EXCEPT ![t] = x]
      PROVE  \A u \in Tasks \ {t} : context'[u] = context[u]
  BY <1>2 DEF TypeOK
<1>3. CASE \E c \in Channels : UpsertChannel(t, c) \/ VisitChannel(t, c)
  BY <1>1, <1>2, <1>3 DEF UpsertChannel, VisitChannel, Untouched
<1>4. CASE FetchAll(t) \/ FetchChannel(t) \/ AddMessages(t)
  BY <1>1, <1>2, <1>4 DEF FetchAll, FetchChannel, AddMessages, Untouched
<1>5. CASE SaveFails(t)
  <2>1. UNCHANGED <<dbChannels, dbMessages, context>>
    BY <1>5 DEF SaveFails
  <2>2. QED
    BY <1>5, <2>1, SaveFailsEffect DEF Untouched
<1>6. CASE Finish(t)
  BY <1>2, <1>6 DEF Finish, Untouched, TypeOK
<1>7. CASE (\E c \in Channels : VisitDeletedChannel(t, c)) \/ AddToMissingChannel(t)
            \/ AddToDeletedChannel(t) \/ AddUndatedMessage(t)
  BY <1>7 DEF VisitDeletedChannel, AddToMissingChannel, AddToDeletedChannel, AddUndatedMessage,
     EndWith
<1>8. QED
  BY <1>3, <1>4, <1>5, <1>6, <1>7 DEF Work

(* A task that will bring messages goes on to its save.                     *)
LEMMA MessagesComeOn ==
  ASSUME SessionInv, NEW t \in Tasks, NEW c \in Channels, WillBringMessages(t, c),
         WellFormed(c, posted[c]), Work(t), ~FetchFails(t),
         ~(SaveFails(t) /\ MustSave(t)), app' = "running"
  PROVE  WillBringMessages(t, c)'
<1>1. TypeOK /\ task[t].kind = "messages" /\ task[t].channel = c
  BY DEF SessionInv, IInv, WillBringMessages
<1>2. FetchChannel(t) \/ AddMessages(t)
  <2>1. ~SaveFails(t)
    BY MessagesSaved DEF SaveFails
  <2>2. ~Finish(t)
    BY DEF Finish, WillBringMessages
  <2>3. ~AddToMissingChannel(t) /\ ~AddToDeletedChannel(t) /\ ~AddUndatedMessage(t)
    BY DEF AddToMissingChannel, AddToDeletedChannel, AddUndatedMessage, EndWith
  <2>4. ~FetchAll(t) /\ \A d \in Channels : /\ ~UpsertChannel(t, d) /\ ~VisitChannel(t, d)
                                           /\ ~VisitDeletedChannel(t, d)
    BY <1>1 DEF FetchAll, UpsertChannel, VisitChannel, VisitDeletedChannel, Running
  <2>5. QED
    BY <2>1, <2>2, <2>3, <2>4 DEF Work
<1>3. CASE FetchChannel(t)
  <2>1. /\ Advance(t, "list", {})
        /\ context' = [context EXCEPT ![t] = [context[t] EXCEPT !.row = Read(t, c)]]
    BY <1>1, <1>3 DEF FetchChannel
  <2>2. context[t] \in Context /\ context'[t] = [context[t] EXCEPT !.row = Read(t, c)]
    BY <1>1, <2>1 DEF TypeOK
  <2>3. context'[t].row[c] = "current"
    BY <1>1, <2>2, ReadEffect DEF Context
  <2>4. QED
    BY <1>1, <2>1, <2>3, AdvanceEffect DEF WillBringMessages
<1>4. CASE AddMessages(t)
  <2>1. Advance(t, "save", {}) /\ task[t].pc = "list"
    BY <1>4 DEF AddMessages, Running
  <2>2. context'[t].row = context[t].row
    BY <1>1, <1>4 DEF AddMessages, TypeOK, Context
  <2>3. QED
    BY <1>1, <2>1, <2>2, AdvanceEffect DEF WillBringMessages
<1>5. QED
  BY <1>2, <1>3, <1>4

(* ... and one that will bring channels to its next one.                    *)
LEMMA ChannelsComeOn ==
  ASSUME SessionInv, NEW t \in Tasks, WillBringChannels(t), Work(t), ~FetchFails(t),
         ~(SaveFails(t) /\ MustSave(t)), app' = "running"
  PROVE  WillBringChannels(t)'
<1>1. TypeOK /\ task[t].kind = "upsert"
  BY DEF SessionInv, IInv, WillBringChannels
<1>2. PICK c \in Channels : UpsertChannel(t, c)
  <2>1. ~SaveFails(t)
    BY ChannelsSaved DEF SaveFails
  <2>2. ~Finish(t)
    BY DEF Finish, WillBringChannels
  <2>3. /\ ~AddToMissingChannel(t) /\ ~AddToDeletedChannel(t)
        /\ ~AddUndatedMessage(t) /\ ~FetchAll(t)
        /\ ~FetchChannel(t) /\ ~AddMessages(t)
        /\ \A d \in Channels : ~VisitChannel(t, d) /\ ~VisitDeletedChannel(t, d)
    BY <1>1 DEF AddToMissingChannel, AddToDeletedChannel, AddUndatedMessage, FetchAll,
       FetchChannel, AddMessages, VisitChannel, VisitDeletedChannel, Running
  <2>4. QED
    BY <2>1, <2>2, <2>3 DEF Work
<1>3. Advance(t, "save", task[t].todo \ {c}) /\ UNCHANGED dbChannels
  BY <1>2 DEF UpsertChannel
<1>4. context[t] \in Context
  BY <1>1 DEF TypeOK
<1>5. CASE dbChannels[c] = None
  <2>1. context'[t] = [context[t] EXCEPT !.ins = context[t].ins \cup {c}]
    BY <1>1, <1>2, <1>5 DEF UpsertChannel, TypeOK
  <2>2. /\ context'[t].ins = context[t].ins \cup {c}
        /\ context'[t].upd = context[t].upd /\ context'[t].row = context[t].row
    BY <1>4, <2>1 DEF Context
  <2>3. QED
    BY <1>1, <1>3, <1>5, <2>2, AdvanceEffect DEF WillBringChannels, AllNamed, Rows
<1>6. CASE dbChannels[c] # None
  <2>1. context'[t] = [context[t] EXCEPT !.upd = context[t].upd \cup {c}, !.row = Read(t, c)]
    BY <1>1, <1>2, <1>6 DEF UpsertChannel, TypeOK
  <2>2. /\ context'[t].ins = context[t].ins
        /\ context'[t].upd = context[t].upd \cup {c} /\ context'[t].row = Read(t, c)
    BY <1>4, <2>1 DEF Context
  <2>3. \A d \in context'[t].upd : context'[t].row[d] = "current"
    BY <1>1, <1>4, <2>2, ReadEffect DEF WillBringChannels, Context
  <2>4. QED
    BY <1>1, <1>3, <2>2, <2>3, AdvanceEffect DEF WillBringChannels, AllNamed, Rows
<1>7. QED
  BY <1>5, <1>6

(* A request leaves the tasks at work alone.                                *)
LEMMA RequestUntouched ==
  ASSUME TypeOK, NEW u \in Tasks, task'[u] = Disturbed[u], UNCHANGED context
  PROVE  Untouched(u)
<1>1. task'[u] = Unclean(task[u])
  BY DEF Disturbed
<1>2. QED
  BY <1>1, DisturbedTask DEF Untouched

LEMMA ChannelsRequested ==
  ASSUME SessionInv, UpdateChannels(cloud)
  PROVE  /\ \A u \in Tasks : ~Idle(u) => Untouched(u)
         /\ UNCHANGED <<app, dbChannels, dbMessages>>
         /\ cloud # NoSnapshot /\ AllNamed(cloud) => \E u \in Tasks : WillBringChannels(u)'
<1> DEFINE newU == [NoTask EXCEPT !.kind = "upsert", !.pc = "next", !.snap = cloud,
                                  !.todo = {c \in Channels : cloud[c] # None},
                                  !.clean = Quiet, !.before = Before]
           newD == [NoTask EXCEPT !.kind = "delete", !.snap = cloud,
                                  !.clean = Quiet, !.before = Before]
<1>1. PICK u \in Tasks, d \in Tasks :
        /\ u # d /\ Idle(u) /\ Idle(d)
        /\ task' = [Disturbed EXCEPT ![u] = newU, ![d] = newD]
  BY DEF UpdateChannels
<1>2. UNCHANGED <<app, dbChannels, dbMessages, context>>
  BY DEF UpdateChannels
<1>3. /\ newU.kind = "upsert" /\ newU.snap = cloud
      /\ newU.todo = {c \in Channels : cloud[c] # None}
  BY DEF NoTask
<1> HIDE DEF newU, newD
<1>4. task'[u] = newU /\ \A t \in Tasks \ {u, d} : task'[t] = Disturbed[t]
  BY <1>1 DEF Disturbed
<1>5. \A t \in Tasks : ~Idle(t) => Untouched(t)
  BY <1>1, <1>2, <1>4, RequestUntouched DEF SessionInv, IInv
<1>6. ASSUME cloud # NoSnapshot, AllNamed(cloud)
      PROVE  WillBringChannels(u)'
  <2>1. newU.todo # {}
    BY <1>3, <1>6 DEF SessionInv, ScreenInv, ChatTypeOK, Snapshots, NoSnapshot
  <2>2. context[u].ins = {} /\ context[u].upd = {}
    BY <1>1 DEF SessionInv, IInv, PendingByKind, Idle
  <2>3. QED
    BY <1>2, <1>3, <1>4, <1>6, <2>1, <2>2 DEF WillBringChannels, AllNamed
<1>7. QED
  BY <1>2, <1>5, <1>6

LEMMA MessagesRequested ==
  ASSUME SessionInv, NEW c \in Channels, NEW batch, UpdateMessages(c, batch)
  PROVE  /\ \A u \in Tasks : ~Idle(u) => Untouched(u)
         /\ UNCHANGED <<app, dbChannels, dbMessages>>
         /\ \E u \in Tasks : WillBringMessages(u, c)'
<1> DEFINE new == [NoTask EXCEPT !.kind = "messages", !.channel = c,
                                 !.batch = batch, !.clean = Quiet]
<1>1. PICK t \in Tasks : Idle(t) /\ task' = [Disturbed EXCEPT ![t] = new]
  BY DEF UpdateMessages
<1>2. UNCHANGED <<app, dbChannels, dbMessages, context>>
  BY DEF UpdateMessages
<1>3. new.kind = "messages" /\ new.pc = "fetch" /\ new.channel = c
  BY DEF NoTask
<1> HIDE DEF new
<1>4. task'[t] = new /\ \A u \in Tasks \ {t} : task'[u] = Disturbed[u]
  BY <1>1 DEF Disturbed
<1>5. QED
  BY <1>1, <1>2, <1>3, <1>4, RequestUntouched DEF SessionInv, IInv, WillBringMessages

-----------------------------------------------------------------------------
(* The steps of the chat, for the screen that is up.                        *)

LEMMA AwaitAtFirst == ChatInit => ScreensAwait
BY DEF ChatInit, ScreensAwait, ConversationAwaits, ListAwaits

(* Steps that neither touch the database nor what the screen that is up     *)
(* shows, while no listener is told that there is nothing to deliver.       *)
LEMMA NothingNewAwaits ==
  ASSUME ScreensAwait, UNCHANGED vars, UNCHANGED <<screen, databaseUpdater, reporting, listed>>,
         screen # List => shown' = shown,
         \A c \in Channels : messageListeners'[c] = "waiting" =>
           messageListeners[c] = "waiting" /\ posted'[c] = posted[c],
         channelListeners' > 0 /\ ~channelsDue' =>
           channelListeners > 0 /\ ~channelsDue /\ cloud' = cloud
  PROVE  ScreensAwait'
<1>1. \A t \in Tasks : Untouched(t)
  BY DEF vars, Untouched
<1>2. UNCHANGED <<app, dbChannels, dbMessages>>
  BY DEF vars
<1>3. Rows' = Rows /\ \A c : Stored(c)' = Stored(c)
  BY <1>2, SameStored
<1>4. ConversationAwaits'
  <2> SUFFICES ASSUME NEW c \in Channels, app' = "running", screen' = c,
                      messageListeners'[c] = "waiting", WellFormed(c, posted[c])'
               PROVE  shown' = Stored(c)' \/ reporting' # {} \/ \E t \in Tasks : WillBringMessages(t, c)'
    BY DEF ConversationAwaits
  <2>1. WellFormed(c, posted[c])
    BY <1>3 DEF WellFormed
  <2>2. screen # List
    BY ListAssumption
  <2>3. shown = Stored(c) \/ reporting # {} \/ \E t \in Tasks : WillBringMessages(t, c)
    BY <1>2, <2>1 DEF ScreensAwait, ConversationAwaits
  <2>4. QED
    BY <1>1, <1>2, <1>3, <2>2, <2>3, UntouchedWillBring
<1>5. ListAwaits'
  <2> SUFFICES ASSUME app' = "running", screen' = List, channelListeners' > 0, ~channelsDue',
                      cloud' # NoSnapshot, AllNamed(cloud)'
               PROVE  listed' = Rows' \/ reporting' # {} \/ \E t \in Tasks : WillBringChannels(t)'
    BY DEF ListAwaits, NoSnapshot
  <2>1. AllNamed(cloud) /\ cloud # NoSnapshot
    BY DEF AllNamed
  <2>2. listed = Rows \/ reporting # {} \/ \E t \in Tasks : WillBringChannels(t)
    BY <1>2, <2>1 DEF ScreensAwait, ListAwaits
  <2>3. QED
    BY <1>1, <1>2, <1>3, <2>2, UntouchedWillBring
<1>6. QED
  BY <1>4, <1>5 DEF ScreensAwait

(* A screen that appears has its listener deliver what there is.            *)
LEMMA AppearingAwaits ==
  ASSUME databaseUpdater' = screen',
         screen' = List => channelsDue',
         \A c \in Channels : screen' = c => messageListeners'[c] # "waiting"
  PROVE  ScreensAwait'
BY DEF ScreensAwait, ConversationAwaits, ListAwaits

LEMMA WorldAwaits ==
  ASSUME SessionInv, ScreensAwait, World
  PROVE  ScreensAwait'
<1>1. /\ channelListeners \in Nat /\ channelListeners <= 1 /\ channelsDue \in BOOLEAN
      /\ messageListeners \in [Channels -> {"off", "waiting", "due"}]
      /\ posted \in [Channels -> SUBSET Messages]
  BY DEF SessionInv, ScreenInv, ChatTypeOK, OnlyScreenListens
<1>2. ASSUME NEW c \in Channels, NEW v \in Values \cup {None}, ChangeChannel(c, v)
      PROVE  ScreensAwait'
  BY <1>2, NothingNewAwaits DEF ChangeChannel, screenVars, fetchedVars
<1>3. ASSUME NEW c \in Channels, NEW m \in Messages, PostMessage(c, m)
      PROVE  ScreensAwait'
  <2>1. \A d \in Channels : messageListeners'[d] = "waiting" =>
          messageListeners[d] = "waiting" /\ posted'[d] = posted[d]
    BY <1>1, <1>3 DEF PostMessage
  <2>2. QED
    BY <1>3, <2>1, NothingNewAwaits DEF PostMessage, screenVars, fetchedVars
<1>4. CASE ChannelListenerFails
  <2>1. channelListeners' = 0
    BY <1>1, <1>4 DEF ChannelListenerFails
  <2>2. QED
    BY <1>4, <2>1, NothingNewAwaits DEF ChannelListenerFails, cloudVars, screenVars, fetchedVars
<1>5. ASSUME NEW c \in Channels, MessageListenerFails(c)
      PROVE  ScreensAwait'
  <2>1. \A d \in Channels : messageListeners'[d] = "waiting" => messageListeners[d] = "waiting"
    BY <1>1, <1>5 DEF MessageListenerFails
  <2>2. QED
    BY <1>5, <2>1, NothingNewAwaits DEF MessageListenerFails, cloudVars, screenVars, fetchedVars
<1>6. CASE KillApp
  <2>1. app' # "running" /\ UNCHANGED <<screen, databaseUpdater>>
    BY <1>6 DEF KillApp, Kill, EndWith, chatVars, screenVars
  <2>2. QED
    BY <2>1 DEF ScreensAwait, ConversationAwaits, ListAwaits
<1>7. CASE LaunchApp
  BY <1>7, AppearingAwaits, ListAssumption DEF LaunchApp, NewProcess
<1>8. QED
  BY <1>2, <1>3, <1>4, <1>5, <1>6, <1>7 DEF World

LEMMA UserAwaits ==
  ASSUME SessionInv, ScreensAwait, User
  PROVE  ScreensAwait'
<1>1. /\ messageListeners \in [Channels -> {"off", "waiting", "due"}]
      /\ leaving \in Channels \cup {None}
      /\ leaving # None => screen = List
      /\ screen \in Channels => channelId = screen
  BY DEF SessionInv, ScreenInv, ChatTypeOK, LeavingForTheList, ConversationRemembered
<1>2. ASSUME NEW c \in Channels, \/ \E v \in Values : CreateChannel(c, v)
                                 \/ DeleteChannel(c)
      PROVE  ScreensAwait'
  BY <1>2, WorldAwaits DEF CreateChannel, DeleteChannel, World
<1>3. ASSUME NEW m \in Messages, SendMessage(m)
      PROVE  ScreensAwait'
  BY <1>1, <1>3, WorldAwaits DEF SendMessage, World
<1>4. ASSUME NEW c \in Channels, OpenConversation(c)
      PROVE  ScreensAwait'
  <2>1. /\ screen' = c /\ databaseUpdater' = c
        /\ messageListeners' = [messageListeners EXCEPT ![c] = "due"]
    BY <1>4 DEF OpenConversation, ConversationWillAppear, startFetchingMessages
  <2>2. QED
    BY <1>1, <2>1, AppearingAwaits, ListAssumption
<1>5. CASE GoBack
  BY <1>5, AppearingAwaits, ListAssumption DEF GoBack, ListWillAppear, startFetchingChannels
<1>6. CASE LeaveConversation
  BY <1>1, <1>6, NothingNewAwaits DEF LeaveConversation, cloudVars, listenerVars
<1>7. CASE CancelBack
  <2>1. /\ screen' = leaving /\ databaseUpdater' = leaving /\ leaving \in Channels
        /\ messageListeners' = [messageListeners EXCEPT ![leaving] = "due"]
    BY <1>1, <1>7 DEF CancelBack, ConversationWillAppear, startFetchingMessages
  <2>2. QED
    BY <1>1, <2>1, AppearingAwaits, ListAssumption
<1>8. QED
  BY <1>2, <1>3, <1>4, <1>5, <1>6, <1>7 DEF User

(* What a listener delivers starts a task that will bring it.               *)
LEMMA DeliverAwaits ==
  ASSUME SessionInv, ScreensAwait, Deliver
  PROVE  ScreensAwait'
<1>1. CASE DeliverChannels
  <2>1. /\ UpdateChannels(cloud) /\ channelsDue /\ ~channelsDue'
        /\ UNCHANGED <<cloud, posted, messageListeners, screen, databaseUpdater, reporting, shown>>
    BY <1>1 DEF DeliverChannels, cloudVars, screenVars, fetchedVars
  <2>2. /\ \A u \in Tasks : ~Idle(u) => Untouched(u)
        /\ UNCHANGED <<app, dbChannels, dbMessages>>
        /\ cloud # NoSnapshot /\ AllNamed(cloud) => \E u \in Tasks : WillBringChannels(u)'
    BY <2>1, ChannelsRequested
  <2>3. Rows' = Rows /\ \A c : Stored(c)' = Stored(c)
    BY <2>2, SameStored
  <2>4. ConversationAwaits'
    <3> SUFFICES ASSUME NEW c \in Channels, app' = "running", screen' = c,
                        messageListeners'[c] = "waiting", WellFormed(c, posted[c])'
                 PROVE  shown' = Stored(c)' \/ reporting' # {} \/ \E t \in Tasks : WillBringMessages(t, c)'
      BY DEF ConversationAwaits
    <3>1. WellFormed(c, posted[c])
      BY <2>1, <2>3 DEF WellFormed
    <3>2. shown = Stored(c) \/ reporting # {} \/ \E t \in Tasks : WillBringMessages(t, c)
      BY <2>1, <2>2, <3>1 DEF ScreensAwait, ConversationAwaits
    <3>3. \A t \in Tasks : WillBringMessages(t, c) => WillBringMessages(t, c)'
      BY <2>2, UntouchedWillBring DEF WillBringMessages, Idle
    <3>4. QED
      BY <2>1, <2>3, <3>2, <3>3
  <2>5. ListAwaits'
    <3>1. NoSnapshot' = NoSnapshot /\ (AllNamed(cloud)' => AllNamed(cloud))
      BY <2>1 DEF NoSnapshot, AllNamed
    <3>2. QED
      BY <2>1, <2>2, <3>1 DEF ListAwaits
  <2>6. QED
    BY <2>1, <2>4, <2>5 DEF ScreensAwait
<1>2. ASSUME NEW c \in Channels, DeliverMessages(c)
      PROVE  ScreensAwait'
  <2>1. UpdateMessages(c, posted[c]) /\ screen = c
    <3>1. UpdateMessages(c, posted[c])
      BY <1>2, DeliveredInChannel DEF SessionInv
    <3>2. screen = c
      BY <1>2 DEF DeliverMessages, SessionInv, ScreenInv, OnlyScreenListens
    <3>3. QED
      BY <3>1, <3>2
  <2>2. UNCHANGED <<screen, databaseUpdater>>
    BY <1>2 DEF DeliverMessages, screenVars
  <2>3. \E u \in Tasks : WillBringMessages(u, c)'
    BY <2>1, MessagesRequested
  <2>4. ConversationAwaits' /\ ListAwaits'
    BY <2>1, <2>2, <2>3, ListAssumption DEF ConversationAwaits, ListAwaits
  <2>5. QED
    BY <2>2, <2>4 DEF ScreensAwait
<1>3. QED
  BY <1>1, <1>2 DEF Deliver

(* What a task does: it goes on to its save, unless the process ends, the   *)
(* save is reported, and the report has the screen that is up fetch again.  *)
LEMMA TaskStepAwaits ==
  ASSUME SessionInv, ScreensAwait, NEW t \in Tasks, TaskStep(t), ~IOError
  PROVE  ScreensAwait'
<1>1. CASE WorkOfTask(t)
  <2>1. /\ Work(t) /\ ~FetchFails(t) /\ ~(SaveFails(t) /\ MustSave(t))
        /\ UNCHANGED <<cloud, posted, channelListeners, channelsDue, messageListeners, screen,
                       databaseUpdater, reporting, listed, shown>>
        /\ app = "running"
    BY <1>1 DEF WorkOfTask, IOError, chatVars, cloudVars, listenerVars, screenVars, fetchedVars
  <2>2. CASE app' # "running"
    BY <2>1, <2>2 DEF ScreensAwait, ConversationAwaits, ListAwaits
  <2>3. CASE app' = "running"
    <3>1. UNCHANGED <<dbChannels, dbMessages>> /\ \A u \in Tasks \ {t} : Untouched(u)
      BY <2>1, <2>3, OthersUntouched DEF SessionInv, IInv
    <3>2. Rows' = Rows /\ \A c : Stored(c)' = Stored(c)
      BY <3>1, SameStored
    <3>3. ConversationAwaits'
      <4> SUFFICES ASSUME NEW c \in Channels, screen' = c, messageListeners'[c] = "waiting",
                          WellFormed(c, posted[c])'
                   PROVE  shown' = Stored(c)' \/ reporting' # {} \/ \E u \in Tasks : WillBringMessages(u, c)'
        BY DEF ConversationAwaits
      <4>1. WellFormed(c, posted[c])
        BY <2>1, <3>2 DEF WellFormed
      <4>2. shown = Stored(c) \/ reporting # {} \/ \E u \in Tasks : WillBringMessages(u, c)
        BY <2>1, <4>1 DEF ScreensAwait, ConversationAwaits
      <4>3. \A u \in Tasks : WillBringMessages(u, c) => WillBringMessages(u, c)'
        BY <2>1, <2>3, <3>1, <4>1, UntouchedWillBring, MessagesComeOn
      <4>4. QED
        BY <2>1, <3>2, <4>2, <4>3
    <3>4. ListAwaits'
      <4> SUFFICES ASSUME screen' = List, channelListeners' > 0, ~channelsDue',
                          cloud' # NoSnapshot, AllNamed(cloud)'
                   PROVE  listed' = Rows' \/ reporting' # {} \/ \E u \in Tasks : WillBringChannels(u)'
        BY DEF ListAwaits, NoSnapshot
      <4>1. AllNamed(cloud)
        BY <2>1 DEF AllNamed
      <4>2. listed = Rows \/ reporting # {} \/ \E u \in Tasks : WillBringChannels(u)
        BY <2>1, <4>1 DEF ScreensAwait, ListAwaits
      <4>3. \A u \in Tasks : WillBringChannels(u) => WillBringChannels(u)'
        BY <2>1, <2>3, <3>1, UntouchedWillBring, ChannelsComeOn
      <4>4. QED
        BY <2>1, <3>2, <4>2, <4>3
    <3>5. QED
      BY <2>1, <3>3, <3>4 DEF ScreensAwait
  <2>4. QED
    BY <2>2, <2>3
<1>2. CASE SaveOfTask(t)
  <2>1. t \in reporting' /\ UNCHANGED <<screen, databaseUpdater>>
    BY <1>2 DEF SaveOfTask, screenVars
  <2>2. QED
    BY <2>1 DEF ScreensAwait, ConversationAwaits, ListAwaits
<1>3. CASE UpdateData(t)
  <2>1. /\ UNCHANGED <<screen, databaseUpdater, dbChannels, dbMessages>>
        /\ IF screen = List THEN listed' = Rows ELSE shown' = Stored(screen)
    BY <1>3 DEF UpdateData, PerformFetchingChannels, PerformFetchingMessages, vars, screenVars,
       ScreensAwait
  <2>2. Rows' = Rows /\ \A c : Stored(c)' = Stored(c)
    BY <2>1, SameStored
  <2>3. ConversationAwaits' /\ ListAwaits'
    BY <2>1, <2>2, ListAssumption DEF ConversationAwaits, ListAwaits
  <2>4. QED
    BY <2>1, <2>3 DEF ScreensAwait
<1>4. QED
  BY <1>1, <1>2, <1>3 DEF TaskStep

LEMMA NextAwaits ==
  ASSUME SessionInv, ScreensAwait, [ChatNext /\ ~IOError]_allVars
  PROVE  ScreensAwait'
<1>1. CASE UNCHANGED allVars
  BY <1>1, NothingNewAwaits DEF allVars, chatVars, cloudVars, listenerVars, screenVars, fetchedVars
<1>2. QED
  BY <1>1, WorldAwaits, UserAwaits, DeliverAwaits, TaskStepAwaits DEF ChatNext

(* As long as the local store answers, a screen that does not show what is  *)
(* stored is never left alone: one databaseUpdater for two screens,         *)
(* completions of tasks of a screen that was left, saves that are refused   *)
(* because others were faster, all end in another fetch of the screen that  *)
(* is up.                                                                   *)
THEOREM ScreensNeverLeftBehind == ReliableChatSpec => []ScreensAwait
<1>1. ReliableChatSpec => ChatInit /\ [][ChatNext /\ ~IOError]_allVars
  BY PTL DEF ReliableChatSpec
<1>2. [ChatNext /\ ~IOError]_allVars => [ChatNext]_allVars
  OBVIOUS
<1>3. SessionInv /\ ScreensAwait /\ [ChatNext /\ ~IOError]_allVars => (SessionInv /\ ScreensAwait)'
  BY <1>2, SessionNext, NextAwaits
<1>4. ChatInit => SessionInv /\ ScreensAwait
  BY SessionInit, AwaitAtFirst
<1>5. QED
  BY <1>1, <1>3, <1>4, PTL
================================================================================
