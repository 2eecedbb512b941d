SPECIFICATION PromptSpec
CONSTANT MaxVersion = 3
PROPERTY NewerVersionPrompts
