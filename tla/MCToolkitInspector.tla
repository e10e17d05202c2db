------------------------- MODULE MCToolkitInspector -------------------------
(***************************************************************************)
(* Toolkits laid out for Linux and for Windows with every kind of runtime  *)
(* candidate, good ones with every kind of version.json, and no toolkit.   *)
(***************************************************************************)
EXTENDS ToolkitInspector

JsonOf(large, text, v) == [large |-> large, text |-> text, version |-> v]
Current == JsonOf(FALSE, "version", <<12, 4>>)
MCDocuments ==
    {Absent, Current, JsonOf(TRUE, "version", <<12, 4>>), JsonOf(FALSE, "version", <<11, 8>>),
     JsonOf(FALSE, "version", <<12, 0>>)}
        \union {JsonOf(FALSE, text, NoVersion) : text \in {"malformed", "extreme", "odd"}}

\* The toolkit whose paths in DOMAIN found lead there; nothing else is in it.
Toolkit(document, found) ==
    [root |-> "directory", document |-> document,
     entry |-> [p \in Paths |-> IF p \in DOMAIN found THEN found[p] ELSE "missing"]]

Linux(header, first, second, foreign) ==
    [p \in {"cuda.h", "lib64/libcudart.so", "x86_64-linux/libcudart.so",
            "aarch64-linux/libcudart.so"} |->
        CASE p = "cuda.h" -> header [] p = "lib64/libcudart.so" -> first
          [] p = "x86_64-linux/libcudart.so" -> second [] OTHER -> foreign]
Windows(import, first, second) ==
    [p \in {"cuda.h", "cudart.lib", "cudart64_11.dll", "cudart64_12.dll"} |->
        CASE p = "cuda.h" -> "file" [] p = "cudart.lib" -> import
          [] p = "cudart64_11.dll" -> first [] OTHER -> second]

MCTrees ==
    {NoTree(kind) : kind \in {"relative", "missing", "loop", "file"}}
        \union {Toolkit(d, Linux("file", "file", "missing", "missing")) : d \in MCDocuments}
        \union {Toolkit(Current, Linux(header, first, second, foreign)) :
                   header \in {"file", "missing"}, first \in Entries, second \in Entries,
                   foreign \in {"file", "missing"}}
        \union {Toolkit(Current, Windows(import, first, second)) :
                   import \in {"file", "outside"}, first \in Entries, second \in Entries}
=============================================================================
