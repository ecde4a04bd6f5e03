\* Requests under the prompt cache mode off.
CONSTANT MaxAttempts = 3
SPECIFICATION Spec
INVARIANT OffKeepsOnlyClientFields
