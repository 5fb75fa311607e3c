------------------------------ MODULE Commands ------------------------------
(***************************************************************************)
(* lib/utils/mu-command-parser.cc and lib/mu-server.cc: which calls the    *)
(* server takes, and what its handlers read of them; mu4e/mu4e-proc.el:    *)
(* the calls that mu4e makes.                                              *)
(*                                                                         *)
(* A call is a name and a sequence of parameters, pairs of a key and a     *)
(* value; a value is text or a number, nil, t or another symbol, a list of *)
(* texts, or a list of something else.                                     *)
(***************************************************************************)
EXTENDS Naturals, Sequences, FiniteSets, SequencesExt

VARIABLES
  call,         \* what the server is sent
  sender        \* "mu4e", "user", or None

Values == {"text", "empty", "zero", "number", "nil", "t", "symbol", "texts", "mixed"}
TypeOf(value) ==
  CASE value \in {"text", "empty"}      -> "String"
    [] value \in {"zero", "number"}     -> "Number"
    [] value \in {"nil", "t", "symbol"} -> "Symbol"
    [] value \in {"texts", "mixed"}     -> "List"

Call(name, params) == [name |-> name, params |-> params]
----------------------------------------------------------------------------
(* make_command_map *)

Arg(key, type, required) == [key |-> key, type |-> type, required |-> required]
Required(key, type) == Arg(key, type, TRUE)
Optional(key, type) == Arg(key, type, FALSE)
Bools(keys) == {Optional(k, "Symbol") : k \in keys}
Strings(keys) == {Optional(k, "String") : k \in keys}

CommandMap ==
  [add      |-> {Required(":path", "String")},
   compose  |-> {Required(":type", "Symbol"), Optional(":docid", "Number")} \cup Bools({":decrypt"}),
   contacts |-> Bools({":personal"}) \cup Strings({":after", ":tstamp"}),
   extract  |-> {Required(":docid", "Number"), Required(":index", "Number"),
                 Required(":action", "Symbol")}
                \cup Bools({":decrypt", ":what"}) \cup Strings({":path", ":param"}),
   find     |-> {Required(":query", "String"), Optional(":maxnum", "Number")}
                \cup Bools({":threads", ":sortfield", ":descending", ":skip-dups",
                            ":include-related"}),
   help     |-> Bools({":command", ":full"}),
   index    |-> {Optional(":my-addresses", "List")} \cup Bools({":cleanup", ":lazy-check"}),
   move     |-> {Optional(":docid", "Number")} \cup Strings({":msgid", ":flags", ":maildir"})
                \cup Bools({":rename", ":no-view"}),
   mkdir    |-> {Required(":path", "String")},
   ping     |-> {Optional(":queries", "List")} \cup Bools({":skip-dups"}),
   quit     |-> {},
   remove   |-> {Required(":docid", "Number")},
   sent     |-> {Required(":path", "String")},
   view     |-> {Optional(":docid", "Number")} \cup Strings({":msgid", ":path"})
                \cup Bools({":mark-as-read", ":extract-images", ":decrypt", ":verify"})]

Names == DOMAIN CommandMap
RequiredOf(name) == {a.key : a \in {b \in CommandMap[name] : b.required}}
KeysOf(name)     == {a.key : a \in CommandMap[name]}
----------------------------------------------------------------------------
(* Command::invoke *)

Keys(params) == {params[i][1] : i \in DOMAIN params}
Has(params, key) == key \in Keys(params)

(* find_param_node: of several with a key, the first *)
ValueOf(params, key) ==
  params[CHOOSE i \in DOMAIN params :
           params[i][1] = key /\ \A j \in 1..(i - 1) : params[j][1] # key][2]

(* Nil is no value for a text. *)
Bug_RightType(arg, value) == TypeOf(value) = arg.type

RightType(arg, value) == TypeOf(value) = arg.type \/ value = "nil"

Invoke(c) ==
  CASE c.name \notin Names -> "unknown command"
    [] c.name \in Names ->
         LET args == CommandMap[c.name]
         IN  CASE \E a \in args : a.required /\ ~Has(c.params, a.key) -> "missing"
               [] \E a \in args : Has(c.params, a.key) /\ ~RightType(a, ValueOf(c.params, a.key))
                    -> "wrong type"
               [] ~(Keys(c.params) \subseteq {a.key : a \in args}) -> "unknown parameter"
               [] OTHER -> "handled"
----------------------------------------------------------------------------
(* What the handlers read *)

Get(key, as) == [key |-> key, as |-> as]
Flags(keys)  == {Get(k, "bool") : k \in keys}
Texts(keys)  == {Get(k, "string") : k \in keys}

(* determine_docids, message_options, save_part and temp_part *)
DocIds         == {Get(":docid", "int"), Get(":msgid", "string")}
MessageOptions == Flags({":extract-images", ":decrypt", ":verify"})
SavePart       == {Get(":path", "string")}
TempPart       == {Get(":what", "symbol"), Get(":param", "string")}

Compose  == {Get(":type", "symbol"), Get(":docid", "int")} \cup MessageOptions
Contacts == Flags({":personal"}) \cup Texts({":after", ":tstamp"})
Extract  == {Get(":docid", "int"), Get(":index", "int"), Get(":action", "symbol")}
            \cup MessageOptions \cup SavePart \cup TempPart
Find     == {Get(":query", "string"), Get(":sortfield", "symbol"), Get(":maxnum", "int")}
            \cup Flags({":threads", ":descending", ":skip-dups", ":include-related"})
Index    == Flags({":cleanup", ":lazy-check"})
Move     == Texts({":maildir", ":flags"}) \cup Flags({":rename", ":noupdate"}) \cup DocIds
Ping     == {Get(":queries", "strings")}

View     == Texts({":path"}) \cup Flags({":mark-as-read"}) \cup DocIds \cup MessageOptions

Reads ==
  [add |-> Texts({":path"}), compose |-> Compose, contacts |-> Contacts, extract |-> Extract,
   find |-> Find, help |-> {Get(":command", "symbol"), Get(":full", "bool")}, index |-> Index,
   move |-> Move, mkdir |-> Texts({":path"}), ping |-> Ping, quit |-> {},
   remove |-> {Get(":docid", "int")}, sent |-> Texts({":path"}), view |-> View]

(* get_string_or, get_symbol_or, get_int_or, get_bool_or, get_string_vec *)
Takes(as, value) ==
  CASE as = "string"  -> value = "nil" \/ TypeOf(value) = "String"
    [] as = "symbol"  -> TypeOf(value) = "Symbol"
    [] as = "int"     -> value = "nil" \/ TypeOf(value) = "Number"
    [] as = "bool"    -> TypeOf(value) = "Symbol"
    [] as = "strings" -> value \in {"nil", "texts"}

GivesNothing(params, key) ==
  Has(params, key) => ValueOf(params, key) \in {"nil", "empty", "zero"}

(* "precisely one of docid and msgid must be specified" *)
DeterminesDocids(params) ==
  GivesNothing(params, ":docid") # GivesNothing(params, ":msgid")
----------------------------------------------------------------------------
(* The calls of mu4e.  A user's variable that is a flag is nil or t; other *)
(* arguments are as the callers pass them.                                 *)

Flag == {"nil", "t"}
Maybe(value) == {"nil", value}
Made(name, keys, values) ==
  {Call(name, [i \in DOMAIN keys |-> <<keys[i], v[i]>>]) : v \in values}

ProcAdd     == {Call("add", << <<":path", "text">> >>)}
ProcCompose == Made("compose", <<":type", ":decrypt", ":docid">>,
                    {"symbol"} \X Flag \X Maybe("number"))
ProcContacts == Made("contacts", <<":personal", ":after", ":tstamp">>,
                     Flag \X Maybe("text") \X Maybe("text"))
ProcExtract == Made("extract", <<":action", ":docid", ":index", ":decrypt", ":path", ":what", ":param">>,
                    {"symbol"} \X {"number"} \X {"zero", "number"} \X Flag \X
                    Maybe("text") \X Maybe("symbol") \X Maybe("text"))
ProcFind    == Made("find", <<":query", ":threads", ":sortfield", ":descending", ":maxnum",
                              ":skip-dups", ":include-related">>,
                    {"text", "empty"} \X Flag \X Maybe("symbol") \X Flag \X Maybe("number") \X Flag \X Flag)
ProcIndex   == Made("index", <<":cleanup", ":lazy-check">>, Flag \X Flag)
ProcMkdir   == {Call("mkdir", << <<":path", "text">> >>)}
ProcPing    == {Call("ping", << <<":queries", q>> >>) : q \in Maybe("texts")}
ProcRemove  == {Call("remove", << <<":docid", "number">> >>)}
ProcSent    == {Call("sent", << <<":path", "text">> >>)}

DocIdOrMsgid == {<<"number", "nil">>, <<"nil", "text">>}

(* The rename needs a maildir; there are flags, or a maildir. *)
ProcMove ==
  {Call("move", << <<":docid", d[1]>>, <<":msgid", d[2]>>, <<":flags", f>>, <<":maildir", m>>,
                   <<":rename", r>>, <<":no-view", n>> >>) :
     d \in DocIdOrMsgid, n \in Flag,
     <<f, m, r>> \in ({"text"} \X {"nil"} \X {"nil"}) \cup (Maybe("text") \X {"text"} \X Flag)}

ProcView ==
  {Call("view", << <<":docid", d[1]>>, <<":msgid", d[2]>>, <<":mark-as-read", o[1]>>,
                   <<":extract-images", o[2]>>, <<":decrypt", o[3]>>, <<":verify", o[4]>> >>) :
     d \in DocIdOrMsgid, o \in Flag \X Flag \X Flag \X Flag}

ProcViewPath == Made("view", <<":path", ":extract-images", ":decrypt", ":verify">>,
                     {"text"} \X Flag \X Flag \X Flag)

CallsOfMu4e ==
  ProcAdd \cup ProcCompose \cup ProcContacts \cup ProcExtract \cup ProcFind \cup ProcIndex \cup
  ProcMkdir \cup ProcMove \cup ProcPing \cup ProcRemove \cup ProcSent \cup ProcView \cup ProcViewPath
----------------------------------------------------------------------------
None == "none"
Init == call = Call("none", <<>>) /\ sender = None

Mu4eCalls ==
  /\ sender = None
  /\ call' \in CallsOfMu4e
  /\ sender' = "mu4e"

(* Somebody writes a call to a server by hand. *)
UserCalls(name, params) ==
  /\ sender = None
  /\ call' = Call(name, params)
  /\ sender' = "user"

UserAdds(key, value) ==
  /\ sender = "user"
  /\ call' = [call EXCEPT !.params = Append(@, <<key, value>>)]
  /\ UNCHANGED sender

IsHandled == sender # None /\ Invoke(call) = "handled"

(* What mu-server.cc declares and forgets. *)
Forgotten == {<<"move", ":no-view">>, <<"index", ":my-addresses">>, <<"ping", ":skip-dups">>}

(* The handler of a call that invoke() lets through gets every parameter   *)
(* that is there with the type it expects, a list's items apart; and it    *)
(* reads all that the call may have.  The server takes every call that     *)
(* mu4e makes, and when a handler looks for a message by document id or    *)
(* message-id it finds one of the two (determine_docids).                  *)
CallsTaken ==
  /\ IsHandled =>
       /\ \A g \in Reads[call.name] :
            Has(call.params, g.key) /\ ValueOf(call.params, g.key) # "mixed"
              => Takes(g.as, ValueOf(call.params, g.key))
       /\ \A key \in Keys(call.params) :
            <<call.name, key>> \in Forgotten \/ \E g \in Reads[call.name] : g.key = key
  /\ sender = "mu4e" =>
       /\ IsHandled
       /\ call.name \in {"move", "view"} /\ GivesNothing(call.params, ":path")
            => DeterminesDocids(call.params)
=============================================================================
