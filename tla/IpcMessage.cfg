SPECIFICATION Spec
CONSTANTS
    Commands <- MCCommands
    Size = 256
INVARIANTS TypeOK RequestFramed RequestUnderstood ReplyFramed ReplyUnderstood ReplySized
