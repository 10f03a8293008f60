---------------------------- MODULE ToolRegistry ----------------------------
(* ToolRegistryService (src/src/tools/services/tool-registry.service.ts):    *)
(* tools by name, and a Set of names per category.  Reads change nothing.    *)

CONSTANTS
    Names,
    Categories,
    Definitions     \* what a tool may be registered as, with its category

ASSUME RegistryAssumption == \A d \in Definitions : d.category \in Categories

VARIABLES
    tools,      \* store.tools: name -> definition
    categories  \* store.categories: category -> Set of names

registryVars == <<tools, categories>>

NotFound == [category |-> "none"]

ASSUME NotFoundAssumption == NotFound \notin Definitions

NoTools == [n \in Names |-> NotFound]

NoNames == [c \in Categories |-> {}]

RegistryInit == tools = NoTools /\ categories = NoNames

-----------------------------------------------------------------------------
\* A name leaves the Set of its tool's category, if it has one.
LeftCategory(name) == [c \in Categories |-> IF c = tools[name].category THEN categories[c] \ {name} ELSE categories[c]]

\* Mutant: a tool that is overridden stays in its old category.
RegisterBeside(name, definition, override) ==
    /\ tools[name] # NotFound => override
    /\ tools' = [tools EXCEPT ![name] = definition]
    /\ categories' = [categories EXCEPT ![definition.category] = @ \cup {name}]

\* registerTool that does not refuse the name.
RegisterTool(name, definition, override) ==
    /\ tools[name] # NotFound => override
    /\ tools' = [tools EXCEPT ![name] = definition]
    /\ categories' = [LeftCategory(name) EXCEPT ![definition.category] = @ \cup {name}]

UnregisterTool(name) ==
    /\ tools[name] # NotFound
    /\ categories' = LeftCategory(name)
    /\ tools' = [tools EXCEPT ![name] = NotFound]

\* clearAllTools, also at shutdown.
ClearAllTools == tools' = NoTools /\ categories' = NoNames

RegistrySteps ==
    \/ \E name \in Names :
         \/ \E definition \in Definitions : \E override \in BOOLEAN :
              RegisterTool(name, definition, override)
         \/ UnregisterTool(name)
    \/ ClearAllTools

-----------------------------------------------------------------------------
(* Properties.                                                               *)

\* What getToolsByCategory finds is what is registered: each name is in the Set
\* of its tool's category and in no other, through any overriding, removal and
\* clearing.
CategoriesIndexTools ==
    \A c \in Categories : categories[c] = {n \in Names : tools[n] # NotFound /\ tools[n].category = c}
=============================================================================
