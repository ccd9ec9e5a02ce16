------------------------------ MODULE ChatSession ------------------------------
(***************************************************************************)
(* The chat as a whole: Firestore's listeners, FirestoreManager and        *)
(* ChatService, the lifecycle of the two chat screens, and the background  *)
(* tasks of CoreDataManager, which this module extends.                    *)
(*                                                                         *)
(* Callbacks of Firestore and of UIKit run on the main queue, one at a     *)
(* time, so each is one action.  The completion of a save runs on the      *)
(* queue of the task that saved: it is a step of its own, and the screen   *)
(* may have changed since the save.                                        *)
(*                                                                         *)
(* Firestore is not under src/.  What is used of it: a listener gets the   *)
(* documents there are when it is added, again after every change (changes *)
(* may be merged), nothing once it is removed, and nothing after an error. *)
(***************************************************************************)
EXTENDS CoreDataManager

CONSTANT List  \* the channels list, as a screen and as databaseUpdater

ASSUME ListAssumption == List \notin Channels

VARIABLES
  cloud,             \* channel documents
  posted,            \* posted[c]: message documents below channel document c
  channelListeners,  \* how many channel listeners are alive
  channelsDue,       \* they have documents to deliver
  messageListeners,  \* messageListeners[c]: "off", "waiting" or "due"
  listener,          \* FirestoreManager.messageListener: its channel, or None
  channelId,         \* ChatService.channelId, and FirestoreManager's, set with it
  screen,            \* the screen that appeared last: List, or the conversation of c
  leaving,           \* conversation being swiped away, whose view still exists
  databaseUpdater,   \* ChatService.databaseUpdater
  reporting,         \* tasks whose save succeeded and that run their completion
  listed,            \* rows the list's FetchedResultsController has fetched
  shown              \* and those of the conversation's

cloudVars    == <<cloud, posted>>
listenerVars == <<channelListeners, channelsDue, messageListeners, listener, channelId>>
screenVars   == <<screen, leaving, databaseUpdater>>
fetchedVars  == <<listed, shown>>
chatVars     == <<cloudVars, listenerVars, screenVars, reporting, fetchedVars>>
allVars      == <<vars, chatVars>>

ChatTypeOK ==
  /\ cloud \in Snapshots
  /\ posted \in [Channels -> SUBSET Messages]
  /\ channelListeners \in Nat
  /\ channelsDue \in BOOLEAN
  /\ messageListeners \in [Channels -> {"off", "waiting", "due"}]
  /\ listener \in Channels \cup {None}
  /\ channelId \in Channels \cup {None}
  /\ screen \in Channels \cup {List}
  /\ leaving \in Channels \cup {None}
  /\ databaseUpdater \in Channels \cup {List}
  /\ reporting \subseteq Tasks
  /\ listed \subseteq Channels
  /\ shown \subseteq Messages

(* A new process: AppDelegate puts the list on screen, whose data source    *)
(* fetches as it is made, and which appears.                               *)
NewProcess == /\ channelListeners' = 1 /\ channelsDue' = TRUE
              /\ messageListeners' = [c \in Channels |-> "off"]
              /\ listener' = None /\ channelId' = None
              /\ screen' = List /\ leaving' = None /\ databaseUpdater' = List
              /\ reporting' = {}
              /\ listed' = Rows /\ shown' = {}

ChatInit == /\ Init
            /\ cloud \in Snapshots
            /\ posted = [c \in Channels |-> {}]
            /\ channelListeners = 1 /\ channelsDue = TRUE
            /\ messageListeners = [c \in Channels |-> "off"]
            /\ listener = None /\ channelId = None
            /\ screen = List /\ leaving = None /\ databaseUpdater = List
            /\ reporting = {}
            /\ listed = {} /\ shown = {}

(***************************************************************************)
(* The cloud.  Documents change at any time; listeners hear of it.         *)
(***************************************************************************)
ChangeChannel(c, v) ==
  /\ cloud[c] # v
  /\ cloud' = [cloud EXCEPT ![c] = v]
  /\ channelsDue' = (channelListeners > 0)
  /\ UNCHANGED <<vars, posted, channelListeners, messageListeners, listener, channelId,
                 screenVars, reporting, fetchedVars>>

PostMessage(c, m) ==
  /\ \A d \in Channels : m \notin posted[d]
  /\ posted' = [posted EXCEPT ![c] = @ \cup {m}]
  /\ messageListeners' = [messageListeners EXCEPT ![c] = IF @ = "off" THEN @ ELSE "due"]
  /\ UNCHANGED <<vars, cloud, channelListeners, channelsDue, listener, channelId,
                 screenVars, reporting, fetchedVars>>

(* Changes made in this app: a channel created or deleted on the list, a    *)
(* message sent from a conversation.                                       *)
CreateChannel(c, v) == /\ app = "running" /\ screen = List
                       /\ cloud[c] = None /\ v # Unnamed
                       /\ ChangeChannel(c, v)

DeleteChannel(c) == /\ app = "running" /\ screen = List
                    /\ c \in listed
                    /\ ChangeChannel(c, None)

SendMessage(m) == /\ app = "running" /\ screen \in Channels
                  /\ PostMessage(channelId, m)

(***************************************************************************)
(* Listeners call ChatService, which updates the database.                 *)
(***************************************************************************)
DeliverChannels ==
  /\ channelsDue
  /\ UpdateChannels(cloud)
  /\ channelsDue' = FALSE
  /\ UNCHANGED <<cloudVars, channelListeners, messageListeners, listener, channelId,
                 screenVars, reporting, fetchedVars>>

(* The messages go to the channel ChatService remembers, which is not taken *)
(* from the listener.                                                      *)
DeliverMessages(c) ==
  /\ messageListeners[c] = "due"
  /\ UpdateMessages(channelId, posted[c])
  /\ messageListeners' = [messageListeners EXCEPT ![c] = "waiting"]
  /\ UNCHANGED <<cloudVars, channelListeners, channelsDue, listener, channelId,
                 screenVars, reporting, fetchedVars>>

(* A listener that gets an error gets nothing more; the app prints it.      *)
ChannelListenerFails ==
  /\ app = "running" /\ channelListeners > 0
  /\ channelListeners' = channelListeners - 1 /\ channelsDue' = FALSE
  /\ UNCHANGED <<vars, cloudVars, messageListeners, listener, channelId,
                 screenVars, reporting, fetchedVars>>

MessageListenerFails(c) ==
  /\ app = "running" /\ messageListeners[c] # "off"
  /\ messageListeners' = [messageListeners EXCEPT ![c] = "off"]
  /\ UNCHANGED <<vars, cloudVars, channelListeners, channelsDue, listener, channelId,
                 screenVars, reporting, fetchedVars>>

(***************************************************************************)
(* The screens.                                                            *)
(***************************************************************************)
(* The rows that the tables show are those their controllers fetched: all   *)
(* channels, and the messages of the conversation's channel.  A controller *)
(* fetches when the data source is made and when results were saved.       *)
PerformFetchingChannels == listed' = Rows /\ UNCHANGED shown

PerformFetchingMessages(c) == shown' = Stored(c) /\ UNCHANGED listed

(* A listener gets the documents there are.  FirestoreManager forgets the   *)
(* listener it had, alive or not.                                          *)
(* Mutant: the first snapshot is skipped, as that of the rows at hand.      *)
startFetchingChannels_NotDue ==
  channelListeners' = channelListeners + 1 /\ UNCHANGED channelsDue

startFetchingChannels ==
  channelListeners' = channelListeners + 1 /\ channelsDue' = TRUE

startFetchingMessages(c) ==
  /\ channelId' = c /\ listener' = c
  /\ messageListeners' = [messageListeners EXCEPT ![c] = "due"]

(* Mutants: a conversation does not make itself databaseUpdater when it     *)
(* appears; its channel is set the first time only; its listener is not    *)
(* removed.                                                                *)
ConversationWillAppear_Silent(c) ==
  startFetchingMessages(c) /\ screen' = c /\ UNCHANGED databaseUpdater

ConversationWillAppear_FirstChannel(c) ==
  /\ channelId' = (IF channelId = None THEN c ELSE channelId) /\ listener' = c
  /\ messageListeners' = [messageListeners EXCEPT ![c] = "due"]
  /\ databaseUpdater' = c /\ screen' = c

ConversationWillDisappear_Listening ==
  UNCHANGED <<messageListeners, listener, channelId>>

ListWillAppear ==
  startFetchingChannels /\ databaseUpdater' = List /\ screen' = List

ListWillDisappear == IF channelListeners = 0
                     THEN UNCHANGED <<channelListeners, channelsDue>>
                     ELSE channelListeners' = channelListeners - 1 /\ channelsDue' = FALSE

ConversationWillAppear(c) ==
  startFetchingMessages(c) /\ databaseUpdater' = c /\ screen' = c

ConversationWillDisappear ==
  /\ messageListeners' = [c \in Channels |->
        IF c = listener THEN "off" ELSE messageListeners[c]]
  /\ UNCHANGED <<listener, channelId>>

(* A row of the list is tapped; it may be gone from the database by now.    *)
OpenConversation(c) ==
  /\ app = "running" /\ screen = List /\ leaving = None
  /\ c \in listed
  /\ ListWillDisappear /\ ConversationWillAppear(c)
  /\ PerformFetchingMessages(c)
  /\ UNCHANGED <<vars, cloudVars, leaving, reporting>>

(* The conversation is left with the button or by a swipe.  A swipe may be  *)
(* cancelled, after which the same conversation appears again.             *)
GoBack ==
  /\ app = "running" /\ screen \in Channels
  /\ ConversationWillDisappear /\ ListWillAppear
  /\ leaving' = screen
  /\ UNCHANGED <<vars, cloudVars, reporting, fetchedVars>>

LeaveConversation ==
  /\ app = "running" /\ leaving # None
  /\ leaving' = None /\ shown' = {}
  /\ UNCHANGED <<vars, cloudVars, listenerVars, screen, databaseUpdater, reporting, listed>>

CancelBack ==
  /\ app = "running" /\ leaving # None
  /\ ListWillDisappear /\ ConversationWillAppear(leaving)
  /\ leaving' = None
  /\ UNCHANGED <<vars, cloudVars, reporting, fetchedVars>>

(***************************************************************************)
(* The background tasks and their completions.                             *)
(***************************************************************************)
WorkOfTask(t) == /\ app = "running" /\ t \notin reporting
                 /\ Work(t)
                 /\ UNCHANGED chatVars

SaveOfTask(t) == /\ app = "running" /\ t \notin reporting
                 /\ SaveSucceeds(t)
                 /\ reporting' = reporting \cup {t}
                 /\ UNCHANGED <<cloudVars, listenerVars, screenVars, fetchedVars>>

(* updateData of whichever screen is databaseUpdater by now.                *)
UpdateData(t) ==
  /\ app = "running" /\ t \in reporting
  /\ reporting' = reporting \ {t}
  /\ IF databaseUpdater = List
     THEN PerformFetchingChannels
     ELSE PerformFetchingMessages(databaseUpdater)
  /\ UNCHANGED <<vars, cloudVars, listenerVars, screenVars>>

KillApp == Kill /\ UNCHANGED chatVars

LaunchApp == Launch /\ NewProcess /\ UNCHANGED cloudVars

World == \/ \E c \in Channels : \/ \E v \in Values \cup {None} : ChangeChannel(c, v)
                                \/ \E m \in Messages : PostMessage(c, m)
         \/ ChannelListenerFails
         \/ \E c \in Channels : MessageListenerFails(c)
         \/ KillApp
         \/ LaunchApp

User == \/ \E c \in Channels : \/ \E v \in Values : CreateChannel(c, v)
                               \/ DeleteChannel(c)
                               \/ OpenConversation(c)
        \/ \E m \in Messages : SendMessage(m)
        \/ GoBack
        \/ LeaveConversation
        \/ CancelBack

Deliver == DeliverChannels \/ \E c \in Channels : DeliverMessages(c)

TaskStep(t) == WorkOfTask(t) \/ SaveOfTask(t) \/ UpdateData(t)

ChatNext == World \/ User \/ Deliver \/ \E t \in Tasks : TaskStep(t)

ChatSpec == ChatInit /\ [][ChatNext]_allVars

(* The queues of the tasks and the main queue are served.  What others, the *)
(* user and the system do is up to them.                                   *)
ChatFairness == WF_allVars(Deliver) /\ \A t \in Tasks : WF_allVars(TaskStep(t))

(* The runs in which the local store answers every request.                 *)
IOError == \E t \in Tasks : \/ FetchFails(t)
                            \/ SaveFails(t) /\ MustSave(t)

ReliableChatSpec == ChatInit /\ [][ChatNext /\ ~IOError]_allVars /\ ChatFairness

(***************************************************************************)
(* Properties.                                                             *)
(***************************************************************************)
AllNamed(snap) == \A c \in Channels : snap[c] # Unnamed

(* While a screen is up, its listener and no other delivers: none survives  *)
(* a change of screen, so nothing is stored for a screen that was left.    *)
OnlyScreenListens ==
  /\ channelListeners <= (IF screen = List THEN 1 ELSE 0)
  /\ \A c \in Channels : messageListeners[c] # "off" => screen = c

(* Messages are stored in the channel they were posted to, although the     *)
(* callback pairs the documents of a listener with a channel remembered    *)
(* elsewhere, and although tasks run after the conversation was left.      *)
MessagesStayInTheirChannel ==
  /\ \A c \in Channels : Stored(c) \subseteq posted[c]
  /\ \A t \in Tasks : task[t].kind = "messages" =>
        task[t].batch \subseteq posted[task[t].channel]

(***************************************************************************)
(* What makes the two inductive, with IInv of CoreDataManager.             *)
(***************************************************************************)
LeavingForTheList == leaving # None => screen = List

ConversationRemembered == screen \in Channels => channelId = screen /\ listener = screen

PendingFromBatch ==
  \A t \in Tasks : task[t].kind = "messages" => context[t].add \subseteq task[t].batch

ChatInv == ChatTypeOK /\ LeavingForTheList /\ ConversationRemembered /\ PendingFromBatch

(* What the fatalError of updateDatabase(with: messages) asserts: the       *)
(* channel of a conversation is in the database.                           *)
ConversationHasChannel ==
  app # "There is no channel with this identifier in the database"

(* The premise under which a screen must come to show the database, beside  *)
(* those on the screen itself: the cloud comes to rest.                     *)
CloudRests == <>[][UNCHANGED cloudVars]_allVars

(* The list comes to show the channels of the database: completions that    *)
(* were spent on a conversation are made up for when the list is back,     *)
(* because the first snapshot saves something again.  Without a channel in *)
(* the cloud, or with a nameless one, there may be no such save.           *)
ListShowsDatabase ==
  (/\ CloudRests
   /\ <>[](/\ app = "running" /\ screen = List /\ channelListeners = 1
           /\ cloud # NoSnapshot /\ AllNamed(cloud)))
    => <>[](listed = Rows)

(* A conversation comes to show the messages of its channel.                *)
ConversationShowsDatabase ==
  \A c \in Channels :
    (/\ CloudRests
     /\ <>[](/\ app = "running" /\ screen = c /\ messageListeners[c] # "off"
             /\ \A d \in Channels : WellFormed(d, posted[d])))
      => <>[](shown = Stored(c))

(***************************************************************************)
(* What the two rest on, as an invariant of the runs without I/O errors.    *)
(* Completions go to the screen that is up; and as long as that screen does *)
(* not show what is stored, its listener has something to deliver, a       *)
(* completion is still to run, or there is a task whose next save nothing   *)
(* refuses, since only a save by another, which then is to be reported,     *)
(* could spoil it.                                                         *)
(***************************************************************************)
WillBringMessages(t, c) ==
  /\ task[t].kind = "messages" /\ task[t].channel = c
  /\ \/ task[t].pc = "fetch"
     \/ task[t].pc \in {"list", "save"} /\ context[t].row[c] = "current"

WillBringChannels(t) ==
  /\ task[t].kind = "upsert" /\ AllNamed(task[t].snap)
  /\ task[t].pc = "save" \/ task[t].todo # {}
  /\ context[t].ins \cap Rows = {}
  /\ \A c \in context[t].upd : context[t].row[c] = "current"

ConversationAwaits ==
  \A c \in Channels :
    (/\ app = "running" /\ screen = c /\ messageListeners[c] = "waiting"
     /\ WellFormed(c, posted[c]))
      => shown = Stored(c) \/ reporting # {} \/ \E t \in Tasks : WillBringMessages(t, c)

ListAwaits ==
  (/\ app = "running" /\ screen = List /\ channelListeners > 0 /\ ~channelsDue
   /\ cloud # NoSnapshot /\ AllNamed(cloud))
    => listed = Rows \/ reporting # {} \/ \E t \in Tasks : WillBringChannels(t)

ScreensAwait == databaseUpdater = screen /\ ConversationAwaits /\ ListAwaits
================================================================================
