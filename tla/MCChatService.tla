--------------------------- MODULE MCChatService ---------------------------
\* Providers and retrievals of the model-checked instance.
EXTENDS TLC, ChatService

CONSTANTS t1, t2

MCCalls == Turns \X {"route", "first", "second"}
MCProviderOf == [m1 |-> "p1", m2 |-> "p2"]
MCProviderModel == [p1 |-> NoModel, p2 |-> "own"]

\* The first turn meets everything; the second one chats.
MCRouteAnswers ==
  (t1 :> {[kind |-> "malformed"], Unparsable, Says("chat", "none"), Says("rag", "none"),
          Says("task", "known_agent"), Says("task", "unknown_agent")})
  @@ (t2 :> {Says("chat", "none")})

Hit(size, extra) == [size |-> size, extra |-> extra]
MCRetrievals ==
  {<<Hit(2, TRUE)>>, <<Hit(4, FALSE)>>, <<Hit(2, FALSE), Hit(2, FALSE), Hit(1, TRUE)>>}

=============================================================================
