------------------------------ MODULE Injector ------------------------------
(***************************************************************************)
(* What the gateway makes of a chat request before it is sent upstream:    *)
(* internal/synthetic/injector.go, model_filter.go.                        *)
(*                                                                         *)
(* A message is its role and where it comes from: its number in the        *)
(* client's list, or one of the two messages the gateway adds.  The role   *)
(* is "" if there is none, "odd" if the entry is not an object.  A tool is *)
(* its name.                                                               *)
(***************************************************************************)
EXTENDS Integers, Sequences, SequencesExt

CONSTANT Names   \* names that GenerateUniqueToolName may draw

(* SyntheticToolName of a request that is passed through.                  *)
NoTool == ""

ASSUME NamesAssumption == NoTool \notin Names

Control == 0
Continue == -1

Roles == {"system", "developer", "user", "assistant", "model", "tool", "", "odd"}

Message(role, from) == [role |-> role, from |-> from]

-----------------------------------------------------------------------------
(* Model names by what the two patterns say of them; without a match, a    *)
(* name is taken for a text model.                                         *)
IsTextModel(model) == model \notin {"blank", "nonText"}

Conversational(m) == m.role \notin {"system", "developer", "odd"}

(* The last message that is not the system's has one of these roles.       *)
LastTurnIn(messages, roles) ==
    \E i \in DOMAIN messages :
        /\ Conversational(messages[i]) /\ messages[i].role \in roles
        /\ \A j \in DOMAIN messages : j > i => ~Conversational(messages[j])

UserTurns == {"user", "tool"}
ModelTurns == {"assistant", "model", ""}

(* Mutant: only a last message of the assistant is noticed, not one before *)
(* a trailing system message.                                              *)
NeedsUserTurnAtEnd(messages) ==
    messages = <<>> \/ Last(messages).role \in ModelTurns

(* The last turn is the model's, or there is none: no last turn has any    *)
(* other role.                                                             *)
NeedsUserTurn(messages) == ~LastTurnIn(messages, {m.role : m \in Range(messages)} \ ModelTurns)

(* Mutant: the control message replaces the one it should follow. *)
InsertAfterLosing(messages, n, m) ==
    IF n = 0 THEN <<m>> \o messages ELSE [messages EXCEPT ![n] = m]

InsertAfter(messages, n, m) ==
    [i \in 1..(Len(messages) + 1) |-> IF i <= n THEN messages[i]
                                      ELSE IF i = n + 1 THEN m ELSE messages[i - 1]]

(* Where the control message goes: at the head; behind the last message of *)
(* the system, or at the head; or at the tail.                             *)
ControlFollows(messages, position) ==
    LET system == {i \in DOMAIN messages : messages[i].role \in {"system", "developer"}}
    IN  CASE position = "tail" -> Len(messages)
          [] position = "system_tail" /\ system # {} ->
                CHOOSE i \in system : \A j \in system : j <= i
          [] OTHER -> 0

(* At the tail the control message itself is made the user turn that is    *)
(* missing; elsewhere a message is appended for it.                        *)
SanitizeAndInjectMessages(messages, position, role) ==
    LET needed == NeedsUserTurn(messages)
        control == Message(IF position = "tail" /\ needed THEN "user" ELSE role, Control)
        injected == InsertAfter(messages, ControlFollows(messages, position), control)
    IN  IF position # "tail" /\ needed THEN Append(injected, Message("user", Continue))
        ELSE injected

(* For a client that forbids tools the transport tool must be allowed.     *)
ToolChoice(choice) == IF choice \in {"none", "absent"} THEN "auto" ELSE choice

(* Mutant: the name drawn is not compared with those of the client. *)
UniqueToolNamesUnchecked(tools) == Names

(* Each of up to a hundred draws is compared with the client's names.      *)
UniqueToolNames(tools) == Names \ Range(tools)

MayRunOutOfNames(tools) == Names \cap Range(tools) # {}

-----------------------------------------------------------------------------
(* The requests that InjectContext may make of this one.                   *)
PassThrough(request) ==
    [tool |-> NoTool, tools |-> request.tools, toolChoice |-> request.toolChoice,
     messages |-> IF request.messages # <<>> /\ NeedsUserTurn(request.messages)
                  THEN Append(request.messages, Message("user", Continue))
                  ELSE request.messages]

Wrapped(config, request, name) ==
    [tool |-> name, tools |-> Append(request.tools, name),
     toolChoice |-> ToolChoice(request.toolChoice),
     messages |-> SanitizeAndInjectMessages(request.messages, config.position, config.role)]

Wraps(config, request) == config.mode # "off" /\ IsTextModel(request.model)

InjectContext(config, request) ==
    IF Wraps(config, request)
    THEN {Wrapped(config, request, name) : name \in UniqueToolNames(request.tools)}
    ELSE {PassThrough(request)}

=============================================================================
