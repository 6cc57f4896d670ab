-------------------------------- MODULE Config --------------------------------
(* The configuration of the daemon (src/internal/config/config.go): a JSON  *)
(* file decoded over the defaults, setting by setting.  A file is missing,  *)
(* unreadable, no JSON object, or has an entry for each setting, some of    *)
(* them inside a section ("annotate").                                      *)
EXTENDS Naturals, SequencesExt

CONSTANTS Settings,   \* the settings that the program reads
          Sections,   \* the nested objects
          SectionOf,  \* the section of each setting, or Top
          Top,        \* the top level of the file
          Lists,      \* settings that are lists of strings
          MaxItems,   \* bound: the length of a list in the file
          ValuesOf,   \* what each setting, or an item of a list, may be set to
          NoValue,    \* an item that is null or no string
          Default     \* the value of each setting without a file

ASSUME SectionAssumption == Top \notin Sections /\ SectionOf \in [Settings -> Sections \cup {Top}]
ASSUME DefaultAssumption ==
  /\ Lists \subseteq Settings
  /\ \A s \in Lists : Default[s] \in Seq(ValuesOf[s])

(* "bad" stands for a JSON value of another type, "null" for null.          *)
Entry(s) ==
  [is : {"absent", "null", "bad"}]
  \cup IF s \in Lists
         THEN [is : {"list"}, items : BoundedSeq(ValuesOf[s] \cup {NoValue}, MaxItems)]
         ELSE [is : {"value"}, value : ValuesOf[s]]
Files ==
  [is : {"missing", "unreadable", "invalid"}]
  \cup [is : {"object"}, section : [Sections -> {"absent", "null", "bad", "object"}],
        entry : {e \in [Settings -> UNION {Entry(s) : s \in Settings}] :
                   \A s \in Settings : e[s] \in Entry(s)}]

(* json.Unmarshal decodes an array into the slice of defaults in place: an  *)
(* item without a value leaves what the slice has there, and the empty      *)
(* string behind its end.                                                   *)
Overwrite(default, items) ==
  [i \in DOMAIN items |->
     IF items[i] # NoValue THEN items[i] ELSE IF i \in DOMAIN default THEN default[i] ELSE ""]

(* null empties a list and leaves everything else as it is, and so does a   *)
(* value of another type; the other fields of the struct are decoded all    *)
(* the same.                                                                *)
Unmarshal(entry, s) ==
  CASE entry.is = "value" -> entry.value
    [] entry.is = "list" -> Overwrite(Default[s], entry.items)
    [] entry.is = "null" /\ s \in Lists -> <<>>
    [] OTHER -> Default[s]

(* LoadFrom; the daemon goes on with the defaults when it returns an error  *)
(* (root.go:214-217).                                                       *)
LoadFrom(file) ==
  [s \in Settings |->
     IF file.is # "object" THEN Default[s]
     ELSE IF SectionOf[s] \in Sections /\ file.section[SectionOf[s]] # "object" THEN Default[s]
     ELSE Unmarshal(file.entry[s], s)]
=============================================================================
