------------------------------- MODULE PubSub -------------------------------
(* pubsub/pubsub.go: events go to buffered channels, one for each subscriber.  *)
(* Publish reads the map under the lock and blocks on a full channel with it;  *)
(* Subscribe and the goroutine that closes a subscription write the map. What  *)
(* they do under the lock blocks nowhere, and is one step.                     *)
EXTENDS Naturals, Sequences, SequencesExt, RWMutex

CONSTANTS
  Sub,        \* subscribers; each one subscribes once
  Publisher,  \* goroutines that publish
  Cap         \* places of a channel, 100 in the code

ASSUME CapAssumption == Cap \in Nat \ {0}

VARIABLES
  plock,     \* p.lock
  subs,      \* keys of p.subscribers
  chan,      \* channel of each subscriber
  wg,        \* p.wg
  life,      \* of a subscriber and of the goroutine that closes it
  due,       \* history: the events published to a subscriber that it has not received
  pub        \* of a publisher: [event, rest: subscribers that still have to get it]

psVars == <<plock, subs, chan, wg, life, due, pub>>

NoEvent == [action |-> "none", task |-> {}]
Silent == [event |-> NoEvent, rest |-> <<>>]

PInit == /\ plock = Unlocked
         /\ subs = {} /\ wg = 0
         /\ chan = [s \in Sub |-> <<>>]
         /\ life = [s \in Sub |-> "new"]
         /\ due = [s \in Sub |-> {}]
         /\ pub = [p \in Publisher |-> Silent]
 
Become(s, l) == life' = [life EXCEPT ![s] = l]
Speak(p, e, r) == pub' = [pub EXCEPT ![p] = [event |-> e, rest |-> r]]

-----------------------------------------------------------------------------
(* Mistakes, one line of the code wrong each.                                *)

SendUnlessFull(p) ==
  /\ pub[p].rest # <<>>
  /\ LET s == Head(pub[p].rest)
     IN  chan' = IF Len(chan[s]) < Cap THEN [chan EXCEPT ![s] = Append(@, pub[p].event)] ELSE chan
  /\ Speak(p, pub[p].event, Tail(pub[p].rest))
  /\ UNCHANGED <<plock, subs, wg, life, due>>

PublishKeepsLock(p) == /\ pub[p] # Silent /\ pub[p].rest = <<>>
                       /\ pub' = [pub EXCEPT ![p] = Silent]
                       /\ UNCHANGED <<plock, subs, chan, wg, life, due>>

DoneBeforeLock(s) == /\ life[s] = "canceled"
                     /\ plock' = Want(plock, s)
                     /\ wg' = wg - 1
                     /\ Become(s, "closing")
                     /\ UNCHANGED <<subs, chan, due, pub>>

-----------------------------------------------------------------------------
(* Subscribe, and the end of a subscription                                  *)

SubscribeWant(s) == /\ life[s] = "new"
                    /\ plock' = Want(plock, s)
                    /\ Become(s, "opening")
                    /\ UNCHANGED <<subs, chan, wg, due, pub>>

Subscribe(s) == /\ life[s] = "opening" /\ MayWrite(plock, s)
                /\ plock' = [plock EXCEPT !.queue = @ \ {s}]
                /\ subs' = subs \cup {s} /\ wg' = wg + 1
                /\ Become(s, "open")
                /\ UNCHANGED <<chan, due, pub>>

(* The context of the subscription is done.  *)
CancelCtx(s) == /\ life[s] = "open"
                /\ Become(s, "canceled")
                /\ UNCHANGED <<plock, subs, chan, wg, due, pub>>

CloseWant(s) == /\ life[s] = "canceled"
                /\ plock' = Want(plock, s)
                /\ Become(s, "closing")
                /\ UNCHANGED <<subs, chan, wg, due, pub>>

Close(s) == /\ life[s] = "closing" /\ MayWrite(plock, s)
            /\ plock' = [plock EXCEPT !.queue = @ \ {s}]
            /\ subs' = subs \ {s} /\ wg' = wg - 1
            /\ Become(s, "closed")
            /\ UNCHANGED <<chan, due, pub>>

(* Subscribers go on reading, after they canceled too.  *)
Receive(s) == /\ chan[s] # <<>>
              /\ due' = [due EXCEPT ![s] = @ \ {Head(chan[s])}]
              /\ chan' = [chan EXCEPT ![s] = Tail(@)]
              /\ UNCHANGED <<plock, subs, wg, life, pub>>

-----------------------------------------------------------------------------
(* Publish: the order of the map is any                                      *)

PublishBegin(p, e) == /\ pub[p] = Silent /\ MayRead(plock)
                      /\ plock' = RLock(plock, p)
                      /\ \E order \in SetToSeqs(subs) : Speak(p, e, order)
                      /\ due' = [s \in Sub |-> due[s] \cup IF s \in subs THEN {e} ELSE {}]
                      /\ UNCHANGED <<subs, chan, wg, life>>

PublishSend(p) == /\ pub[p].rest # <<>>
                  /\ Len(chan[Head(pub[p].rest)]) < Cap
                  /\ chan' = [chan EXCEPT ![Head(pub[p].rest)] = Append(@, pub[p].event)]
                  /\ Speak(p, pub[p].event, Tail(pub[p].rest))
                  /\ UNCHANGED <<plock, subs, wg, life, due>>

PublishEnd(p) == /\ pub[p] # Silent /\ pub[p].rest = <<>>
                 /\ plock' = RUnlock(plock, p)
                 /\ pub' = [pub EXCEPT ![p] = Silent]
                 /\ UNCHANGED <<subs, chan, wg, life, due>>

SubStep(s) == SubscribeWant(s) \/ Subscribe(s) \/ CancelCtx(s) \/ CloseWant(s) \/ Close(s) \/ Receive(s)

-----------------------------------------------------------------------------
PubSubType == /\ plock \in Mutex(Publisher \cup Sub)
              /\ subs \subseteq Sub /\ wg \in 0..Cardinality(Sub)
              /\ \A s \in Sub : Len(chan[s]) <= Cap
              /\ life \in [Sub -> {"new", "opening", "open", "canceled", "closing", "closed"}]
              /\ \A p \in Publisher : Range(pub[p].rest) \subseteq Sub

(* What Wait waits for, and TestPubsub asserts after it: nobody is subscribed    *)
(* any more, and no send to a closed subscription is going on.                  *)
WaitMeansClosed ==
  wg = 0 => subs = {} /\ \A p \in Publisher : pub[p].rest = <<>>

(* An event whose Publish is over has reached, once, each subscriber that was   *)
(* there when it began: a full channel delays an event and drops none.          *)
EventsReachTheOpen ==
  \A s \in Sub : /\ IsInjective(chan[s])
                 /\ \A e \in due[s] \ Range(chan[s]) :
                      \E p \in Publisher : pub[p].event = e /\ s \in Range(pub[p].rest)
=============================================================================
