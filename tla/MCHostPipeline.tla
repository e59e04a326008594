--------------------------- MODULE MCHostPipeline ---------------------------
(* A small instance of HostPipeline.                                       *)
EXTENDS HostPipeline

CONSTANTS t, custom, miscounting, unknown

ItemOf(says, size, terms, priority, group, system) ==
  [says |-> says, size |-> size, terms |-> terms, priority |-> priority,
   group |-> group, system |-> system, message |-> TRUE]

(* Items 1 and 4 are equal; 2 and 3 form a group, similar to each other;   *)
(* 5 is a system message; 6 says what 1 does, in other letters.            *)
MCItem ==
  <<ItemOf("a", 2, {t}, 0, NoGroup, FALSE),
    ItemOf("b", 3, {}, 1, 1, FALSE),
    ItemOf("c", 1, {t}, 2, 1, FALSE),
    ItemOf("a", 2, {t}, 0, NoGroup, FALSE),
    ItemOf("d", 2, {}, 0, NoGroup, TRUE),
    ItemOf("a", 2, {}, 1, NoGroup, FALSE)>>

MCSimilarItems == {<<"b", "c">>, <<"c", "b">>, <<"c", "d">>, <<"d", "c">>}

(* In a JSON text 6 repeats the key of 2.                                  *)
MCOverrides == {<<2, 6>>}

ContentOf(kind, wide, padded, items) ==
  [kind |-> kind, wide |-> wide, padded |-> padded,
   parts |-> [k \in DOMAIN items |-> Part({items[k]}, MCItem[items[k]].size)]]

MCOriginals ==
  {ContentOf("text", 1, TRUE, <<1, 2, 6>>),
   ContentOf("text", 2, FALSE, <<2, 1>>),
   ContentOf("list", 1, FALSE, <<1, 5, 2, 4, 3>>),
   ContentOf("object", 1, FALSE, <<1, 2, 3>>)}

MCRequests ==
  [content : MCOriginals, target : {0, 1, 4}, terms : {{}, {t}}, failOpen : BOOLEAN]

MCCustomMade(c, size, grows, lossless) ==
  [content |-> Replacement(c, {}, size), removed |-> {}, grows |-> grows, lossy |-> ~lossless]

(* The algorithms of the host return a text of their own; one may fail,    *)
(* the other says that it kept all and is no longer, whatever the text.    *)
MCAttempts(a, c, r) ==
  CASE a \in BuiltinIds -> BuiltinAttempts(a, c, r)
    [] a = custom ->
         {MCCustomMade(c, 3, 3 * c.wide > ContentCount(c), FALSE), RaisesError}
    [] a = miscounting -> {MCCustomMade(c, 6, FALSE, TRUE)}
=============================================================================
